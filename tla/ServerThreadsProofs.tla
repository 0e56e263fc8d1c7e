------------------------ MODULE ServerThreadsProofs ------------------------
(***************************************************************************)
(* Proofs about the threads of a server, module ServerThreads, for every   *)
(* room size and any number of players that ask to join.                   *)
(***************************************************************************)
EXTENDS ServerThreads, FiniteSetTheorems, WellFoundedInduction, TLAPS

(* A deputy that is named is one of the candidates. *)
LEMMA MinIsIn == ASSUME NEW S \in SUBSET Nat, S # {} PROVE Min(S) \in S
<1>1. PICK x \in S : \A y \in S : ~ (<<y, x>> \in OpToRel(<, Nat))
  BY NatLessThanWellFounded, WFMin
<1>2. \A y \in S : ~(y < x)
  BY <1>1 DEF OpToRel
<1>3. \A y \in S : x <= y
  BY <1>2
<1> QED
  BY <1>3 DEF Min

LEMMA LowestIsCandidate ==
  ASSUME NEW S \in SUBSET Id, Lowest(S) # Unnamed
  PROVE  Lowest(S) \in S
<1>1. Candidates(S) # {} /\ Lowest(S) = Min(Candidates(S))
  BY DEF Lowest
<1>2. Id \subseteq Nat
  BY BoundsAssumption DEF Id
<1>3. Candidates(S) \subseteq S
  BY DEF Candidates
<1> QED
  BY <1>1, <1>2, <1>3, MinIsIn

LEMMA OneMore ==
  ASSUME NEW S, IsFiniteSet(S), NEW x
  PROVE  /\ Cardinality(S \cup {x}) \in Nat /\ Cardinality(S \ {x}) \in Nat
         /\ Cardinality(S \cup {x}) <= Cardinality(S) + 1
         /\ Cardinality(S \ {x}) <= Cardinality(S)
         /\ x \in S => Cardinality(S \ {x}) = Cardinality(S) - 1
<1>1. Cardinality(S) \in Nat
  BY FS_CardinalityType
<1>2. /\ IsFiniteSet(S \cup {x})
      /\ Cardinality(S \cup {x}) = IF x \in S THEN Cardinality(S) ELSE Cardinality(S) + 1
  BY FS_AddElement
<1>3. /\ IsFiniteSet(S \ {x})
      /\ Cardinality(S \ {x}) = IF x \in S THEN Cardinality(S) - 1 ELSE Cardinality(S)
  BY FS_RemoveElement
<1>4. Cardinality(S \cup {x}) \in Nat /\ Cardinality(S \ {x}) \in Nat
  BY <1>2, <1>3, FS_CardinalityType
<1> QED
  BY <1>1, <1>2, <1>3, <1>4

LEMMA PlayersFinite ==
  ASSUME NEW S \in SUBSET Id PROVE IsFiniteSet(S) /\ Cardinality(S) \in Nat
<1>1. IsFiniteSet(Id)
  BY BoundsAssumption, FS_Interval DEF Id
<1> QED
  BY <1>1, FS_Subset, FS_CardinalityType

-----------------------------------------------------------------------------
(* The types of the threads' own variables as well; an id is kept for the   *)
(* player that is about to be added.                                        *)
ListenerType ==
  [stage : {"idle", "add", "snake", "stamp", "remove"}, id : Id \cup {Nobody},
   role : {"NORMAL", "VIEWER"}, list : SUBSET Id]

CheckerType ==
  [stage : {"idle", "check", "drop"}, todo : SUBSET Id, id : Id \cup {Nobody},
   list : SUBSET Id]

Typed ==
  /\ TypeOK
  /\ l \in ListenerType
  /\ g \in [stage : {"idle", "send", "set", "role", "scores"}, id : Id \cup {Nobody}]
  /\ p \in CheckerType
  /\ g.stage \in {"send", "set", "role"} => g.id \in Id
  /\ joins \in 0 .. MaxJoins
  /\ l.stage = "add" => uniqueId <= joins
  /\ uniqueId <= joins + 1

(* Who must be on the list: those that were acknowledged and have not ended, *)
(* and the one that waits for its snake.                                     *)
Waiting == IF l.stage = "snake" THEN {l.id} ELSE {}
Live == (acked \ silent) \cup Waiting

(* Ids are new; every list has all the live ones; whoever is about to be     *)
(* dropped is silent, for a player's entry in lastPing is there before it is *)
(* and stays.                                                                *)
Kept ==
  /\ \A i \in acked \cup silent : i < uniqueId
  /\ l.stage \in {"snake", "remove"} => l.id \in Id /\ l.id \notin acked \cup silent
                                        /\ l.id < uniqueId
  /\ players \subseteq lastPing /\ Live \subseteq players
  /\ p.stage # "idle" => p.todo \subseteq lastPing
  /\ p.stage = "drop" =>
       p.list \subseteq lastPing /\ Live \subseteq p.list /\ p.id \in silent
  /\ l.stage = "remove" => l.list \subseteq lastPing /\ Live \subseteq l.list

(* A player whose join has not ended was added before the ping checker got   *)
(* the lock; the one it drops is on its list, or that join has ended and the *)
(* list has not changed since it was read.                                   *)
Joining == l.stage \in {"snake", "remove"}

Checking ==
  /\ p.stage # "idle" /\ Joining => p.todo \subseteq players
  /\ p.stage = "drop" /\ Joining => p.list = players
  /\ p.stage = "drop" => /\ p.id \in p.todo
                         /\ p.id \in p.list \/ (p.list = players /\ ~Joining)

(* A list that is going to be written back is no longer than a list may be.  *)
Bounded ==
  /\ Checking
  /\ RoomLimit
  /\ l.stage = "add" => Cardinality(players) <= MaxPlayers
  /\ p.stage = "drop" => Cardinality(p.list) <= MaxPlayers + 1
  /\ l.stage = "remove" => Cardinality(l.list) <= MaxPlayers + 1

(* As long as nobody is silent, nobody is taken off the list. *)
Told ==
  /\ NilTakesRemoval
  /\ g.stage = "send" => g.id \in players \/ silent # {}

-----------------------------------------------------------------------------
LEMMA InitInv == Init => Typed /\ Kept /\ Bounded /\ Told
<1> SUFFICES ASSUME Init PROVE Typed /\ Kept /\ Bounded /\ Told
  OBVIOUS
<1>1. Typed
  BY BoundsAssumption DEF Init, Typed, TypeOK, Id, Nobody, ListenerType, CheckerType
<1>2. Kept
  BY DEF Init, Kept, Live, Waiting
<1>3. Cardinality({0}) <= MaxPlayers + 1
  BY BoundsAssumption, FS_Singleton
<1>4. Bounded
  BY <1>3 DEF Init, Bounded, RoomLimit, Checking, Joining
<1>5. Told
  BY DEF Init, Told, NilTakesRemoval
<1> QED
  BY <1>1, <1>2, <1>4, <1>5

LEMMA TypedInv == Typed /\ Kept /\ Next => Typed'
<1> SUFFICES ASSUME Typed, Kept, Next PROVE Typed'
  OBVIOUS
<1>0. MaxJoins \in Nat /\ MaxPlayers \in Nat /\ uniqueId \in Nat /\ joins \in Nat
  BY BoundsAssumption DEF Typed, TypeOK
<1> USE <1>0 DEF Typed, TypeOK, ListenerType, CheckerType
<1>1. ASSUME NEW r \in {"NORMAL", "VIEWER"}, Join(r) PROVE Typed'
  <2>1. l' \in ListenerType /\ (l' = l \/ (l' = [l EXCEPT !.stage = "add", !.role = r]
                                         /\ l.stage = "idle"))
    BY <1>1 DEF Join
  <2>2. joins' = joins + 1 /\ joins' \in 0 .. MaxJoins
    BY <1>1 DEF Join
  <2>3. uniqueId <= joins' + 1 /\ uniqueId <= joins'
    BY <2>2
  <2>4. UNCHANGED <<players, role, lastPing, deputyId, uniqueId, g, p, panicked, acked, silent>>
    BY <1>1 DEF Join
  <2> QED
    BY <2>1, <2>2, <2>3, <2>4
<1>2. ASSUME NEW i \in Id, Leave(i) PROVE Typed'
  BY <1>2 DEF Leave
<1>3. ASSUME NEW i \in Id, Die(i) PROVE Typed'
  BY <1>3 DEF Die
<1>4. CASE Steer
  BY <1>4 DEF Steer
<1>5. CASE Stop
  BY <1>5 DEF Stop, Panic
<1>6. CASE AddNewPlayer
  <2>1. uniqueId \in Id /\ uniqueId' = uniqueId + 1 /\ uniqueId' \in 1 .. MaxJoins + 1
        /\ uniqueId' <= joins + 1
    BY <1>6 DEF AddNewPlayer, Id
  <2>2. l' \in ListenerType /\ l'.stage # "add"
    <3>1. l' = [l EXCEPT !.stage = IF l.role = "VIEWER" THEN "idle" ELSE "snake",
                         !.id = uniqueId, !.role = "NORMAL"]
      BY <1>6 DEF AddNewPlayer
    <3> QED
      BY <2>1, <3>1
  <2>3. /\ players' \subseteq Id /\ lastPing' \subseteq Id /\ acked' \subseteq Id
        /\ role' \in [Id -> {"NORMAL", "DEPUTY", "MASTER", "VIEWER"}]
    BY <1>6, <2>1 DEF AddNewPlayer
  <2>4. UNCHANGED <<deputyId, g, p, panicked, silent, joins>>
    BY <1>6 DEF AddNewPlayer
  <2> QED
    BY <2>1, <2>2, <2>3, <2>4
<1>7. CASE AddSnake
  BY <1>7 DEF AddSnake, Kept
<1>8. CASE AddSnakeFails
  BY <1>8 DEF AddSnakeFails
<1>9. CASE RemovePlayer
  BY <1>9 DEF RemovePlayer, Kept
<1>10. CASE Stamp
  BY <1>10 DEF Stamp
<1>11. CASE ChooseDeputy
  BY <1>11, LowestIsCandidate DEF ChooseDeputy, Appoints
<1>12. CASE SendRoleChange
  BY <1>12 DEF SendRoleChange, Panic
<1>13. CASE SetDeputyId
  BY <1>13 DEF SetDeputyId
<1>14. CASE ChangeRole
  BY <1>14 DEF ChangeRole
<1>15. CASE Scores
  BY <1>15 DEF Scores
<1>16. CASE CheckPings
  BY <1>16 DEF CheckPings
<1>17. ASSUME NEW i \in Id, CheckPlayer(i) PROVE Typed'
  <2>1. p' \in CheckerType
    <3>1. CASE Late(i)
      BY <1>17, <3>1 DEF CheckPlayer
    <3>2. CASE ~Late(i)
      BY <1>17, <3>2 DEF CheckPlayer
    <3> QED
      BY <3>1, <3>2
  <2> QED
    BY <1>17, <2>1 DEF CheckPlayer
<1>18. CASE ReadDuringWrite
  BY <1>18 DEF ReadDuringWrite, Panic
<1>19. CASE DropPlayer
  BY <1>19 DEF DropPlayer, DeputyWithout
<1>20. CASE CheckDone
  BY <1>20 DEF CheckDone
<1> QED
  BY <1>1, <1>2, <1>3, <1>4, <1>5, <1>6, <1>7, <1>8, <1>9, <1>10, <1>11, <1>12, <1>13,
     <1>14, <1>15, <1>16, <1>17, <1>18, <1>19, <1>20
     DEF Next, Outside, Listener, GameLoop, PingChecker

LEMMA KeptInv == Typed /\ Kept /\ Next => Kept'
<1> SUFFICES ASSUME Typed, Kept, Next PROVE Kept'
  OBVIOUS
<1> USE DEF Kept, Live, Waiting
<1>1. ASSUME NEW r \in {"NORMAL", "VIEWER"}, Join(r) PROVE Kept'
  BY <1>1 DEF Join
<1>2. ASSUME NEW i \in Id, Leave(i) PROVE Kept'
  BY <1>2 DEF Leave
<1>3. ASSUME NEW i \in Id, Die(i) PROVE Kept'
  BY <1>3 DEF Die
<1>4. CASE Steer
  BY <1>4 DEF Steer
<1>5. CASE Stop
  BY <1>5 DEF Stop
<1>6. CASE AddNewPlayer
  <2>1. uniqueId \in Id /\ uniqueId \in Nat /\ p.stage \notin {"check", "drop"}
        /\ p.stage = "idle"
    BY <1>6, BoundsAssumption
       DEF AddNewPlayer, MayAdd, LockFree, Typed, TypeOK, Id, CheckerType
  <2>2. l' = [l EXCEPT !.stage = IF l.role = "VIEWER" THEN "idle" ELSE "snake",
                       !.id = uniqueId, !.role = "NORMAL"]
        /\ l \in ListenerType /\ l.stage = "add"
    BY <1>6 DEF AddNewPlayer, Typed
  <2>3. l'.id = uniqueId /\ l'.stage = (IF l.role = "VIEWER" THEN "idle" ELSE "snake")
    BY <2>2 DEF ListenerType
  <2>4. /\ players' = players \cup {uniqueId} /\ lastPing' = lastPing \cup {uniqueId}
        /\ acked' = (IF l.role = "VIEWER" THEN acked \cup {uniqueId} ELSE acked)
        /\ silent' = silent /\ uniqueId' = uniqueId + 1 /\ p' = p
    BY <1>6 DEF AddNewPlayer
  <2>5. uniqueId \notin acked \cup silent
    BY <2>1
  <2>6. \A i \in acked' \cup silent : i < uniqueId + 1
    <3>1. \A i \in acked \cup silent : i \in Nat
      BY BoundsAssumption DEF Typed, TypeOK, Id
    <3> QED
      BY <2>1, <2>4, <3>1
  <2>7. uniqueId < uniqueId + 1
    BY <2>1
  <2> QED
    BY <2>1, <2>2, <2>3, <2>4, <2>5, <2>6, <2>7
<1>7. CASE AddSnake
  BY <1>7 DEF AddSnake
<1>8. CASE AddSnakeFails
  BY <1>8 DEF AddSnakeFails
<1>9. CASE RemovePlayer
  BY <1>9 DEF RemovePlayer
<1>10. CASE Stamp
  BY <1>10 DEF Stamp
<1>11. CASE ChooseDeputy
  BY <1>11 DEF ChooseDeputy
<1>12. CASE SendRoleChange
  BY <1>12 DEF SendRoleChange
<1>13. CASE SetDeputyId
  BY <1>13 DEF SetDeputyId
<1>14. CASE ChangeRole
  BY <1>14 DEF ChangeRole
<1>15. CASE Scores
  BY <1>15 DEF Scores
<1>16. CASE CheckPings
  BY <1>16 DEF CheckPings
<1>17. ASSUME NEW i \in Id, CheckPlayer(i) PROVE Kept'
  <2>1. CASE Late(i)
    <3>1. i \in silent
      BY <1>17, <2>1 DEF CheckPlayer, Late
    <3>2. p' = [p EXCEPT !.stage = "drop", !.id = i, !.list = players] /\ p \in CheckerType
          /\ p.stage = "check"
      BY <1>17, <2>1 DEF CheckPlayer, Typed
    <3>3. p'.stage = "drop" /\ p'.id = i /\ p'.list = players /\ p'.todo = p.todo
      BY <3>2 DEF CheckerType
    <3>4. UNCHANGED <<players, lastPing, uniqueId, l, acked, silent>>
      BY <1>17 DEF CheckPlayer
    <3> QED
      BY <3>1, <3>2, <3>3, <3>4
  <2>2. CASE ~Late(i)
    BY <1>17, <2>2 DEF CheckPlayer
  <2> QED
    BY <2>1, <2>2
<1>18. CASE ReadDuringWrite
  BY <1>18 DEF ReadDuringWrite
<1>19. CASE DropPlayer
  BY <1>19 DEF DropPlayer
<1>20. CASE CheckDone
  BY <1>20 DEF CheckDone
<1> QED
  BY <1>1, <1>2, <1>3, <1>4, <1>5, <1>6, <1>7, <1>8, <1>9, <1>10, <1>11, <1>12, <1>13, <1>14, <1>15, <1>16, <1>17, <1>18, <1>19, <1>20
     DEF Next, Outside, Listener, GameLoop, PingChecker

LEMMA BoundedInv == Typed /\ Kept /\ Bounded /\ Next => Bounded'
<1> SUFFICES ASSUME Typed, Kept, Bounded, Next PROVE Bounded'
  OBVIOUS
<1>0. /\ MaxPlayers \in Nat /\ IsFiniteSet(players) /\ Cardinality(players) \in Nat
      /\ IsFiniteSet(l.list) /\ Cardinality(l.list) \in Nat
      /\ IsFiniteSet(p.list) /\ Cardinality(p.list) \in Nat
      /\ l \in ListenerType /\ p \in CheckerType
  BY BoundsAssumption, PlayersFinite DEF Typed, TypeOK, ListenerType, CheckerType
<1> USE DEF Bounded, RoomLimit, Checking, Joining
<1>1. ASSUME NEW r \in {"NORMAL", "VIEWER"}, Join(r) PROVE Bounded'
  <2>1. UNCHANGED <<players, p>> /\ l.stage = "idle"
    BY <1>1 DEF Join
  <2>2. CASE Full
    BY <1>1, <2>1, <2>2 DEF Join
  <2>3. CASE ~Full
    <3>1. Cardinality(players) <= MaxPlayers
      BY <1>0, <2>3 DEF Full
    <3>2. l' = [l EXCEPT !.stage = "add", !.role = r]
      BY <1>1, <2>3 DEF Join
    <3>3. l'.stage = "add"
      BY <1>0, <3>2 DEF ListenerType
    <3> QED
      BY <2>1, <3>1, <3>3
  <2> QED
    BY <2>2, <2>3
<1>2. ASSUME NEW i \in Id, Leave(i) PROVE Bounded'
  BY <1>2 DEF Leave
<1>3. ASSUME NEW i \in Id, Die(i) PROVE Bounded'
  BY <1>3 DEF Die
<1>4. CASE Steer
  BY <1>4 DEF Steer
<1>5. CASE Stop
  BY <1>5 DEF Stop
<1>6. CASE AddNewPlayer
  <2>1. p.stage = "idle" /\ p' = p /\ l.stage = "add" /\ players' = players \cup {uniqueId}
        /\ l' = [l EXCEPT !.stage = IF l.role = "VIEWER" THEN "idle" ELSE "snake",
                         !.id = uniqueId, !.role = "NORMAL"]
    BY <1>0, <1>6 DEF AddNewPlayer, MayAdd, LockFree, CheckerType
  <2>2. l'.stage \in {"idle", "snake"}
    BY <1>0, <2>1 DEF ListenerType
  <2>3. Cardinality(players') <= Cardinality(players) + 1
    BY <1>0, <2>1, OneMore
  <2>4. Cardinality(players') <= MaxPlayers + 1
    <3>1. Cardinality(players') \in Nat
      BY <1>0, <2>1, OneMore
    <3>2. Cardinality(players) <= MaxPlayers
      BY <2>1
    <3> QED
      BY <1>0, <2>3, <3>1, <3>2
  <2> QED
    BY <2>1, <2>2, <2>4
<1>7. CASE AddSnake
  BY <1>7 DEF AddSnake
<1>8. CASE AddSnakeFails
  BY <1>8 DEF AddSnakeFails
<1>9. CASE RemovePlayer
  <2>1. l.stage = "remove" /\ players' = l.list \ {l.id} /\ p' = p
        /\ l' = [l EXCEPT !.stage = "idle", !.id = Nobody, !.list = {}]
    BY <1>9 DEF RemovePlayer
  <2>2. l'.stage = "idle"
    BY <1>0, <2>1 DEF ListenerType
  <2>3. Cardinality(players') \in Nat /\ Cardinality(players') <= Cardinality(l.list)
    BY <1>0, <2>1, OneMore
  <2>4. Cardinality(players') <= MaxPlayers + 1
    <3>1. Cardinality(l.list) <= MaxPlayers + 1
      BY <2>1
    <3> QED
      BY <1>0, <2>3, <3>1
  <2> QED
    BY <2>1, <2>2, <2>4
<1>10. CASE Stamp
  BY <1>10 DEF Stamp
<1>11. CASE ChooseDeputy
  BY <1>11 DEF ChooseDeputy
<1>12. CASE SendRoleChange
  BY <1>12 DEF SendRoleChange
<1>13. CASE SetDeputyId
  BY <1>13 DEF SetDeputyId
<1>14. CASE ChangeRole
  BY <1>14 DEF ChangeRole
<1>15. CASE Scores
  BY <1>15 DEF Scores
<1>16. CASE CheckPings
  BY <1>16 DEF CheckPings
<1>17. ASSUME NEW i \in Id, CheckPlayer(i) PROVE Bounded'
  BY <1>17 DEF CheckPlayer
<1>18. CASE ReadDuringWrite
  BY <1>18 DEF ReadDuringWrite
<1>19. CASE DropPlayer
  <2>1. p.stage = "drop" /\ players' = p.list \ {p.id} /\ l' = l
        /\ p' = [p EXCEPT !.stage = "check", !.todo = p.todo \ {p.id}, !.id = Nobody,
                         !.list = {}]
    BY <1>19 DEF DropPlayer
  <2>2. p'.stage = "check" /\ p'.todo = p.todo \ {p.id}
    BY <1>0, <2>1 DEF CheckerType
  <2>3. Cardinality(players') \in Nat /\ Cardinality(players') <= Cardinality(p.list)
        /\ (p.id \in p.list => Cardinality(players') = Cardinality(p.list) - 1)
    BY <1>0, <2>1, OneMore
  <2>4. Cardinality(p.list) <= MaxPlayers + 1
    BY <2>1
  <2>5. Cardinality(players') <= MaxPlayers + 1
    BY <1>0, <2>3, <2>4
  <2>6. l.stage = "add" => Cardinality(players') <= MaxPlayers
    <3>1. CASE p.id \in p.list
      BY <1>0, <2>3, <2>4, <3>1
    <3>2. CASE p.list = players /\ l.stage = "add"
      <4>1. Cardinality(players) <= MaxPlayers
        BY <3>2
      <4> QED
        BY <1>0, <2>3, <3>2, <4>1
    <3> QED
      BY <2>1, <3>1, <3>2
  <2>7. Checking'
    BY <2>1, <2>2
  <2> QED
    BY <2>1, <2>2, <2>5, <2>6, <2>7
<1>20. CASE CheckDone
  BY <1>20 DEF CheckDone
<1> QED
  BY <1>1, <1>2, <1>3, <1>4, <1>5, <1>6, <1>7, <1>8, <1>9, <1>10, <1>11, <1>12, <1>13, <1>14, <1>15, <1>16, <1>17, <1>18, <1>19, <1>20
     DEF Next, Outside, Listener, GameLoop, PingChecker

LEMMA ToldInv == Typed /\ Kept /\ Told /\ Next => Told'
<1> SUFFICES ASSUME Typed, Kept, Told, Next PROVE Told'
  OBVIOUS
<1> USE DEF Told, NilTakesRemoval
<1>1. ASSUME NEW r \in {"NORMAL", "VIEWER"}, Join(r) PROVE Told'
  BY <1>1 DEF Join
<1>2. ASSUME NEW i \in Id, Leave(i) PROVE Told'
  BY <1>2 DEF Leave
<1>3. ASSUME NEW i \in Id, Die(i) PROVE Told'
  BY <1>3 DEF Die
<1>4. CASE Steer
  BY <1>4 DEF Steer
<1>5. CASE Stop
  BY <1>5 DEF Stop, Panic
<1>6. CASE AddNewPlayer
  BY <1>6 DEF AddNewPlayer
<1>7. CASE AddSnake
  BY <1>7 DEF AddSnake
<1>8. CASE AddSnakeFails
  BY <1>8 DEF AddSnakeFails
<1>9. CASE RemovePlayer
  BY <1>9 DEF RemovePlayer
<1>10. CASE Stamp
  BY <1>10 DEF Stamp
<1>11. CASE ChooseDeputy
  BY <1>11, LowestIsCandidate DEF ChooseDeputy, Appoints, Typed, TypeOK
<1>12. CASE SendRoleChange
  <2>1. CASE g.id \in players
    <3>1. g' = [g EXCEPT !.stage = "set"]
      BY <1>12, <2>1 DEF SendRoleChange
    <3>2. g'.stage = "set"
      BY <3>1 DEF Typed
    <3> QED
      BY <1>12, <2>1, <3>2 DEF SendRoleChange
  <2>2. CASE g.id \notin players
    BY <1>12, <2>2 DEF SendRoleChange, Panic
  <2> QED
    BY <2>1, <2>2
<1>13. CASE SetDeputyId
  BY <1>13 DEF SetDeputyId
<1>14. CASE ChangeRole
  BY <1>14 DEF ChangeRole
<1>15. CASE Scores
  BY <1>15 DEF Scores
<1>16. CASE CheckPings
  BY <1>16 DEF CheckPings
<1>17. ASSUME NEW i \in Id, CheckPlayer(i) PROVE Told'
  BY <1>17 DEF CheckPlayer
<1>18. CASE ReadDuringWrite
  BY <1>18 DEF ReadDuringWrite, Panic
<1>19. CASE DropPlayer
  BY <1>19 DEF DropPlayer, Kept
<1>20. CASE CheckDone
  BY <1>20 DEF CheckDone
<1> QED
  BY <1>1, <1>2, <1>3, <1>4, <1>5, <1>6, <1>7, <1>8, <1>9, <1>10, <1>11, <1>12, <1>13, <1>14, <1>15, <1>16, <1>17, <1>18, <1>19, <1>20
     DEF Next, Outside, Listener, GameLoop, PingChecker

LEMMA NextInv ==
  Typed /\ Kept /\ Bounded /\ Told /\ [Next]_vars => (Typed /\ Kept /\ Bounded /\ Told)'
<1>1. Typed /\ Kept /\ Bounded /\ Told /\ UNCHANGED vars => (Typed /\ Kept /\ Bounded /\ Told)'
  BY DEF vars, Typed, TypeOK, Kept, Live, Waiting, Bounded, RoomLimit, Checking, Joining,
         Told, NilTakesRemoval
<1> QED
  BY <1>1, TypedInv, KeptInv, BoundedInv, ToldInv

-----------------------------------------------------------------------------
(* The types of ServerThreads, for any number of joins. *)
THEOREM TypeCorrect == Spec => []TypeOK
<1>1. Typed => TypeOK
  BY DEF Typed
<1> QED
  BY <1>1, InitInv, NextInv, PTL DEF Spec

(* For any number of players, and whatever the listener and the ping checker *)
(* write over each other: who was acknowledged and is there stays listed.    *)
THEOREM NobodyLostTheorem == Spec => []NobodyLost
<1>1. Kept => NobodyLost
  BY DEF Kept, Live, NobodyLost
<1> QED
  BY <1>1, InitInv, NextInv, PTL DEF Spec

(* For a room of any size: one above maxPlayersCount and never two. *)
THEOREM RoomTheorem == Spec => []RoomLimit
<1>1. Bounded => RoomLimit
  BY DEF Bounded
<1> QED
  BY <1>1, InitInv, NextInv, PTL DEF Spec

(* While nobody goes the game loop never looks for a deputy that is not there. *)
THEOREM NilTheorem == Spec => []NilTakesRemoval
<1>1. Told => NilTakesRemoval
  BY DEF Told
<1> QED
  BY <1>1, InitInv, NextInv, PTL DEF Spec
=============================================================================
