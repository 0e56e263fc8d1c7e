--------------------------- MODULE ServerThreads ---------------------------
(***************************************************************************)
(* The threads of one server of the game at the grain of its lock: the     *)
(* listener (l), the game loop (g), the ping checker (p) and the Stop of   *)
(* the window that is closed.  Session has each handler as one step; here  *)
(* only what lockServer covers is, and a list of players that is read and  *)
(* written back without it can undo what another thread did in between.    *)
(* Players are the objects their ids stand for: all lists share them, and  *)
(* so a role has no copies.  Player 0 is the master's own client.          *)
(***************************************************************************)
EXTENDS Integers, FiniteSetsExt

CONSTANTS
  MaxPlayers,   \* maxPlayersCount
  MaxJoins      \* bound: players that ask to join, refused ones included

ASSUME BoundsAssumption == MaxPlayers \in Nat /\ MaxJoins \in Nat

VARIABLES
  players,    \* the ids in s.players
  role,       \* id -> its role
  lastPing,   \* the ids with an entry in s.lastPing
  deputyId,
  uniqueId,
  l, g, p,    \* the threads: where each one is, and its local variables
  stopped,    \* Stop has been called
  panicked,   \* "no", or why the program has ended
  acked,      \* ids whose join was acknowledged (history)
  silent,     \* ids of programs that have ended, or were refused after the add
  joins

vars == <<players, role, lastPing, deputyId, uniqueId, l, g, p, stopped, panicked,
          acked, silent, joins>>

Id == 0 .. MaxJoins
Nobody == -1
Unnamed == 666   \* updateDeputyId's value for no candidate

Candidates(s) == {i \in s : role[i] \notin {"VIEWER", "MASTER"}}
Lowest(s) == IF Candidates(s) = {} THEN Unnamed ELSE Min(Candidates(s))

Runs == panicked = "no"
LockFree == p.stage \notin {"check", "drop"}
Panic(why) == panicked' = why

-----------------------------------------------------------------------------
(* The listener.                                                           *)

(* Mutant: one player too many gets in. *)
FullLater == Cardinality(players) > MaxPlayers + 1

Full == Cardinality(players) > MaxPlayers

(* A join: the number of players is read without the lock.                 *)
Join(r) ==
  /\ Runs /\ ~stopped /\ l.stage = "idle" /\ joins < MaxJoins
  /\ joins' = joins + 1
  /\ l' = IF Full THEN l ELSE [l EXCEPT !.stage = "add", !.role = r]
  /\ UNCHANGED <<players, role, lastPing, deputyId, uniqueId, g, p, stopped, panicked,
                 acked, silent>>

(* Mutant: the player is added without the lock. *)
MayAddAlways == TRUE

MayAdd == LockFree

(* addNewPlayer; a viewer is acknowledged at once.  *)
AddNewPlayer ==
  /\ Runs /\ l.stage = "add" /\ MayAdd
  /\ uniqueId' = uniqueId + 1
  /\ players' = players \cup {uniqueId}
  /\ role' = [role EXCEPT ![uniqueId] = l.role]
  /\ lastPing' = lastPing \cup {uniqueId}
  /\ l' = [l EXCEPT !.stage = IF l.role = "VIEWER" THEN "idle" ELSE "snake", !.id = uniqueId,
                    !.role = "NORMAL"]
  /\ acked' = IF l.role = "VIEWER" THEN acked \cup {uniqueId} ELSE acked
  /\ UNCHANGED <<deputyId, g, p, stopped, panicked, silent, joins>>

(* Game.AddSnake finds a place: the player is acknowledged, and gets its     *)
(* entry in lastPing again, this time without the lock.                      *)
AddSnake ==
  /\ Runs /\ l.stage = "snake"
  /\ acked' = acked \cup {l.id}
  /\ lastPing' = lastPing \cup {l.id}
  /\ l' = [l EXCEPT !.stage = "stamp", !.id = Nobody]
  /\ UNCHANGED <<players, role, deputyId, uniqueId, g, p, stopped, panicked, silent, joins>>

(* It finds none: removePlayer reads the list and writes it back without the *)
(* lock, and the joiner, which gets an error, ends.                          *)
AddSnakeFails ==
  /\ Runs /\ l.stage = "snake"
  /\ l' = [l EXCEPT !.stage = "remove", !.list = players]
  /\ UNCHANGED <<players, role, lastPing, deputyId, uniqueId, g, p, stopped, panicked,
                 acked, silent, joins>>

RemovePlayer ==
  /\ Runs /\ l.stage = "remove"
  /\ players' = l.list \ {l.id}
  /\ silent' = silent \cup {l.id}
  /\ l' = [l EXCEPT !.stage = "idle", !.id = Nobody, !.list = {}]
  /\ UNCHANGED <<role, lastPing, deputyId, uniqueId, g, p, stopped, panicked, acked, joins>>

(* handleSteer writes to the map lastPing without the lock; stage "stamp" is *)
(* the time in which it does.                                                *)
Steer ==
  /\ Runs /\ ~stopped /\ l.stage = "idle" /\ players \ silent # {}
  /\ l' = [l EXCEPT !.stage = "stamp"]
  /\ UNCHANGED <<players, role, lastPing, deputyId, uniqueId, g, p, stopped, panicked,
                 acked, silent, joins>>

Stamp ==
  /\ Runs /\ l.stage = "stamp"
  /\ l' = [l EXCEPT !.stage = "idle"]
  /\ UNCHANGED <<players, role, lastPing, deputyId, uniqueId, g, p, stopped, panicked,
                 acked, silent, joins>>

(* The role change of a player that leaves: makePlayerViewer changes the     *)
(* others.                                                                   *)
Leave(i) ==
  /\ Runs /\ ~stopped /\ l.stage = "idle" /\ i \in acked \ silent
  /\ role' = [j \in Id |-> IF j \in players \ {i} THEN "VIEWER" ELSE role[j]]
  /\ silent' = silent \cup {i}
  /\ UNCHANGED <<players, lastPing, deputyId, uniqueId, l, g, p, stopped, panicked, acked, joins>>

(* A player's program ends; nothing of it comes any more.                  *)
Die(i) ==
  /\ Runs /\ i \in acked \ silent
  /\ silent' = silent \cup {i}
  /\ UNCHANGED <<players, role, lastPing, deputyId, uniqueId, l, g, p, stopped, panicked,
                 acked, joins>>

-----------------------------------------------------------------------------
(* The game loop: updateDeputyId, updatePlayersScore and sendStateForAll.   *)

(* Mutants: no candidate is taken for one; a deputy is only looked for when  *)
(* there is none.                                                            *)
AppointsAny(d) == d # deputyId
AppointsIfNone(d) == d # Unnamed /\ deputyId = Nobody

Appoints(d) == d # deputyId /\ d # Unnamed

ChooseDeputy ==
  /\ Runs /\ ~stopped /\ g.stage = "idle"
  /\ g' = LET d == Lowest(players)
          IN IF Appoints(d) THEN [stage |-> "send", id |-> d]
             ELSE [g EXCEPT !.stage = "scores"]
  /\ UNCHANGED <<players, role, lastPing, deputyId, uniqueId, l, p, stopped, panicked,
                 acked, silent, joins>>

(* sendRoleChange looks for the address: none is a nil dereference.         *)
SendRoleChange ==
  /\ Runs /\ g.stage = "send"
  /\ IF g.id \in players THEN g' = [g EXCEPT !.stage = "set"] /\ UNCHANGED panicked
     ELSE Panic("nil") /\ UNCHANGED g
  /\ UNCHANGED <<players, role, lastPing, deputyId, uniqueId, l, p, stopped, acked, silent, joins>>

SetDeputyId ==
  /\ Runs /\ g.stage = "set"
  /\ deputyId' = g.id
  /\ g' = [g EXCEPT !.stage = "role"]
  /\ UNCHANGED <<players, role, lastPing, uniqueId, l, p, stopped, panicked, acked, silent, joins>>

ChangeRole ==
  /\ Runs /\ g.stage = "role"
  /\ role' = IF g.id \in players THEN [role EXCEPT ![g.id] = "DEPUTY"] ELSE role
  /\ g' = [g EXCEPT !.stage = "scores"]
  /\ UNCHANGED <<players, lastPing, deputyId, uniqueId, l, p, stopped, panicked, acked, silent, joins>>

(* The scores are written under the lock. *)
Scores ==
  /\ Runs /\ g.stage = "scores" /\ LockFree
  /\ g' = [stage |-> "idle", id |-> Nobody]
  /\ UNCHANGED <<players, role, lastPing, deputyId, uniqueId, l, p, stopped, panicked,
                 acked, silent, joins>>

-----------------------------------------------------------------------------
(* The ping checker; it holds the lock from CheckPings to CheckDone.        *)

CheckPings ==
  /\ Runs /\ ~stopped /\ p.stage = "idle"
  /\ p' = [p EXCEPT !.stage = "check", !.todo = players]
  /\ UNCHANGED <<players, role, lastPing, deputyId, uniqueId, l, g, stopped, panicked,
                 acked, silent, joins>>

(* Mutant: the deputy is not checked. *)
LateButDeputy(i) == (i \in silent /\ i # deputyId) \/ i \notin lastPing

(* Pings come in time: the last one of a player is too old only if it has   *)
(* ended, or has no entry in the map.                                       *)
Late(i) == i \in silent \/ i \notin lastPing

CheckPlayer(i) ==
  /\ Runs /\ p.stage = "check" /\ i \in p.todo
  /\ p' = IF Late(i) THEN [p EXCEPT !.stage = "drop", !.id = i, !.list = players]
          ELSE [p EXCEPT !.todo = @ \ {i}]
  /\ UNCHANGED <<players, role, lastPing, deputyId, uniqueId, l, g, stopped, panicked,
                 acked, silent, joins>>

(* The runtime ends a program that reads a map while another thread writes   *)
(* to it, if it notices.                                                     *)
ReadDuringWrite ==
  /\ Runs /\ p.stage = "check" /\ p.todo # {} /\ l.stage = "stamp"
  /\ Panic("map")
  /\ UNCHANGED <<players, role, lastPing, deputyId, uniqueId, l, g, p, stopped,
                 acked, silent, joins>>

DeputyWithout(i) == IF deputyId = i THEN Nobody ELSE deputyId

(* removePlayerWithoutSnake *)
DropPlayer ==
  /\ Runs /\ p.stage = "drop"
  /\ players' = p.list \ {p.id}
  /\ deputyId' = DeputyWithout(p.id)
  /\ p' = [p EXCEPT !.stage = "check", !.todo = @ \ {p.id}, !.id = Nobody, !.list = {}]
  /\ UNCHANGED <<role, lastPing, uniqueId, l, g, stopped, panicked, acked, silent, joins>>

CheckDone ==
  /\ Runs /\ p.stage = "check" /\ p.todo = {}
  /\ p' = [p EXCEPT !.stage = "idle"]
  /\ UNCHANGED <<players, role, lastPing, deputyId, uniqueId, l, g, stopped, panicked,
                 acked, silent, joins>>

-----------------------------------------------------------------------------
(* Stop tells the deputy to take over if there is anybody else; the threads  *)
(* end with the round they are in.                                           *)
Stop ==
  /\ Runs /\ ~stopped
  /\ stopped' = TRUE
  /\ IF Cardinality(players) # 1 /\ deputyId \notin players
     THEN Panic("nil") ELSE UNCHANGED panicked
  /\ UNCHANGED <<players, role, lastPing, deputyId, uniqueId, l, g, p, acked, silent, joins>>

Init ==
  /\ players = {0} /\ role = [i \in Id |-> IF i = 0 THEN "MASTER" ELSE "NORMAL"]
  /\ lastPing = {0} /\ deputyId = Nobody /\ uniqueId = 1
  /\ l = [stage |-> "idle", id |-> Nobody, role |-> "NORMAL", list |-> {}]
  /\ g = [stage |-> "idle", id |-> Nobody]
  /\ p = [stage |-> "idle", todo |-> {}, id |-> Nobody, list |-> {}]
  /\ stopped = FALSE /\ panicked = "no"
  /\ acked = {} /\ silent = {} /\ joins = 0

Outside ==
  \/ \E r \in {"NORMAL", "VIEWER"} : Join(r)
  \/ \E i \in Id : Leave(i) \/ Die(i)
  \/ Steer \/ Stop

Listener == AddNewPlayer \/ AddSnake \/ AddSnakeFails \/ RemovePlayer \/ Stamp
GameLoop == ChooseDeputy \/ SendRoleChange \/ SetDeputyId \/ ChangeRole \/ Scores
PingChecker ==
  (\E i \in Id : CheckPlayer(i)) \/ CheckPings \/ ReadDuringWrite \/ DropPlayer \/ CheckDone

Next == Outside \/ Listener \/ GameLoop \/ PingChecker

Spec == Init /\ [][Next]_vars

(* The threads run.  The lock is never wanted by one thread alone for ever:  *)
(* the game loop gets it when it is free again and again.                    *)
LiveSpec == Spec /\ WF_vars(Listener) /\ SF_vars(GameLoop) /\ WF_vars(PingChecker)

-----------------------------------------------------------------------------
TypeOK ==
  /\ players \subseteq Id /\ lastPing \subseteq Id /\ acked \subseteq Id /\ silent \subseteq Id
  /\ role \in [Id -> {"NORMAL", "DEPUTY", "MASTER", "VIEWER"}]
  /\ deputyId \in Id \cup {Nobody} /\ uniqueId \in 1 .. MaxJoins + 1
  /\ l.stage \in {"idle", "add", "snake", "stamp", "remove"}
  /\ g.stage \in {"idle", "send", "set", "role", "scores"}
  /\ p.stage \in {"idle", "check", "drop"}
  /\ panicked \in {"no", "nil", "map"}

(* Whatever the threads write over each other, no player that was            *)
(* acknowledged and whose pings come is lost from the list: a removal can be *)
(* undone by another one, a player that was added cannot.                    *)
NobodyLost == acked \ silent \subseteq players

(* The room never gets fuller than one handler at a time would make it,      *)
(* although the number of players is read without the lock.                  *)
RoomLimit == Cardinality(players) <= MaxPlayers + 1

(* As long as everybody stays, the deputy that the game loop chose is there  *)
(* to be told: a nil dereference takes a player that went, or was refused a  *)
(* place, between the choice and the message, or a Stop without a deputy.    *)
NilTakesRemoval == panicked = "nil" => stopped \/ silent # {}

Over == stopped \/ ~Runs

(* Those that are gone are gone for good: one that an overlapping removal    *)
(* put back is removed again.                                                *)
GoneForGood == <>[](Over \/ players \cap silent = {})

(* Once nobody comes or goes, the lowest candidate is the deputy and has the *)
(* role, even if a removal fell between the steps of an appointment.         *)
DeputySettles ==
  <>[](Over \/ Candidates(players) = {}
       \/ (deputyId = Lowest(players) /\ role[deputyId] = "DEPUTY"))
=============================================================================
