------------------------------- MODULE Session -------------------------------
(***************************************************************************)
(* A game session of lab4 (lab4/network): who is in the room, which role   *)
(* each node has, and how the deputy takes over when the master is lost.   *)
(*                                                                         *)
(* A node is a running program: always a Client, and a Server too while it *)
(* is the master.  Nodes talk over UDP.  A handler of an incoming message, *)
(* a decision of a checker thread is one step here; a join is two, because *)
(* the game loop and the pings run between addNewPlayer and the answer, and *)
(* so is a round of the game loop, which appoints a deputy and sends the   *)
(* state of a list that may have changed since (ServerThreads looks into   *)
(* the appointment).  The heartbeats themselves are no messages            *)
(* here: what counts is whether the one who waits for them gets them.      *)
(*                                                                         *)
(* The game is left out (module SnakeGame): no membership decision looks   *)
(* at it, but for the error of a join that finds no place for its snake.   *)
(***************************************************************************)
EXTENDS Integers, Sequences, FiniteSets, SequencesExt, ListFilter

CONSTANTS
  Node,        \* the programs
  Creator,     \* the one that created the game
  MaxPlayers,  \* maxPlayersCount
  LatePings,   \* may heartbeats be late or lost for a whole waitDelay?
  MaxLeaves,   \* bound: a window is closed while fewer programs have ended
  MaxOrder,    \* bound: states a master sends
  MaxCrashes,  \* bound: programs that crash
  MaxNet       \* bound: messages in flight

ASSUME SessionAssumption ==
  /\ Creator \in Node
  /\ MaxPlayers \in Nat \ {0}
  /\ LatePings \in BOOLEAN
  /\ MaxLeaves \in Nat /\ MaxOrder \in Nat /\ MaxCrashes \in Nat /\ MaxNet \in Nat \ {0}

VARIABLES
  cl,    \* node -> its Client
  srv,   \* node -> its Server
  net,   \* messages in flight
  mishaps   \* what has happened to ids and roles (history)

program == <<cl, srv, net>>
vars == <<cl, srv, net, mishaps>>

(***************************************************************************)
(* Addresses.  A joiner dials from its socket 1 and, should it become the  *)
(* master, its server listens there and its client dials from a new socket *)
(* 2: StartServerFromState.  The creator has that shape from the start.    *)
(***************************************************************************)
Addr == Node \X {1, 2}

ServerAddr(n) == <<n, 1>>
ClientAddr(n) == IF srv[n].up THEN <<n, 2>> ELSE <<n, 1>>

Role == {"NORMAL", "MASTER", "DEPUTY", "VIEWER"}

Player(id, addr, role) == [id |-> id, addr |-> addr, role |-> role]

NoState == [order |-> 0, players |-> <<>>]    \* lastState is nil

NoJoin == [id |-> -1, addr |-> ServerAddr(Creator)]   \* no join under way

NoServer ==
  [up |-> FALSE, players |-> <<>>, deputyId |-> -1, uniqueId |-> 0,
   stateId |-> 0, joining |-> NoJoin, due |-> FALSE]

(* A client that has not joined yet; a deputyId of 0 is Go's zero value. *)
NewClient ==
  [st |-> "idle", id |-> 0, role |-> "NORMAL", deputyId |-> 0,
   peer |-> ServerAddr(Creator), last |-> NoState]

-----------------------------------------------------------------------------
(* Look-ups in a list of players *)

Ids(players) == {players[i].id : i \in DOMAIN players}

Lists(players, addr) == \E i \in DOMAIN players : players[i].addr = addr

(* getIdByAddr, getAddrById: the first entry that matches. *)
IdOf(players, addr) ==
  players[SelectInSeq(players, LAMBDA p : p.addr = addr)].id

AddrOf(players, id) ==
  players[SelectInSeq(players, LAMBDA p : p.id = id)].addr

(* updateDeputy, StartServerFromState and updateMaster go through the whole *)
(* list: the place of the last entry that matches, or 0.                    *)
LastWithRole(players, role) == SelectLastInSeq(players, LAMBDA p : p.role = role)
LastWithId(players, id) == SelectLastInSeq(players, LAMBDA p : p.id = id)

WithoutId(players, id) ==
  EntriesAt(players, {i \in DOMAIN players : players[i].id # id})

WithRole(players, id, role) ==
  [i \in DOMAIN players |->
     IF players[i].id = id THEN [players[i] EXCEPT !.role = role] ELSE players[i]]

-----------------------------------------------------------------------------
(* Messages.  UDP may lose any of them, when it is sent for all we can tell, *)
(* and delivers the others in any order.                                     *)

JoinMsg(src, dst, role) == [type |-> "Join", src |-> src, dst |-> dst, role |-> role]
AckMsg(src, dst, id)    == [type |-> "Ack", src |-> src, dst |-> dst, id |-> id]
ErrorMsg(src, dst)      == [type |-> "Error", src |-> src, dst |-> dst]
StateMsg(src, dst, s)   == [type |-> "State", src |-> src, dst |-> dst, state |-> s]
(* From a server: the receiver gets a role.  From a client: it leaves. *)
RoleMsg(src, dst, role, id) ==
  [type |-> "RoleChange", src |-> src, dst |-> dst, role |-> role, id |-> id]

Transmit(without, msgs) ==
  \E sent \in SUBSET msgs :
    /\ Cardinality((net \ without) \cup sent) <= MaxNet
    /\ net' = (net \ without) \cup sent

Reply(m, r) == Transmit({m}, {r})

Playing(n) == cl[n].st = "playing"

(* What waits in n's client socket: a connected socket gets only what its  *)
(* peer sent.  A master's client hears its own server, and nothing it says *)
(* there changes the membership: those messages are left out.              *)
ForClient(n, m) == m.dst = ClientAddr(n) /\ m.src = cl[n].peer /\ ~srv[n].up

ForServer(n, m) == m.dst = ServerAddr(n) /\ srv[n].up

(* A message whose socket is closed, or connected to someone else. *)
Discard(m) ==
  /\ m \in net
  /\ \A n \in Node :
       /\ ~(ForServer(n, m) /\ m.type \in {"Join", "RoleChange"})
       /\ ~(ForClient(n, m) /\ cl[n].st \in {"joining", "playing"})
  /\ net' = net \ {m}
  /\ UNCHANGED <<cl, srv>>

-----------------------------------------------------------------------------
(* Joining *)

(* NewClient, Client.Start: the request goes to an announced server. *)
Join(n, m) ==
  /\ cl[n].st = "idle" /\ srv[m].up
  /\ \E role \in {"NORMAL", "VIEWER"} :
       /\ cl' = [cl EXCEPT ![n].st = "joining", ![n].role = role,
                           ![n].peer = ServerAddr(m)]
       /\ Transmit({}, {JoinMsg(ServerAddr(n), ServerAddr(m), role)})
  /\ UNCHANGED srv

(* The test at the head of handleJoinMessage lets one more player in than   *)
(* maxPlayersCount.                                                         *)
Full(players) == Len(players) > MaxPlayers

(* Mutant: an id is the place in the list, so a removal frees it. *)
NextIdByPlace(s) == Len(s.players)

(* addNewPlayer counts the ids and never takes one back. *)
NextId(s) == s.uniqueId

(* handleJoinMessage up to the snake: the player is in the list, and so in  *)
(* every state and ping, before it is answered.                             *)
HandleJoin(n, m) ==
  /\ m \in net /\ m.type = "Join" /\ ForServer(n, m)
  /\ srv[n].joining = NoJoin
  /\ LET id == NextId(srv[n])
         listed == [srv[n] EXCEPT !.players = Append(@, Player(id, m.src, m.role)),
                                  !.uniqueId = @ + 1]
     IN \/ /\ Full(srv[n].players)
           /\ Reply(m, ErrorMsg(m.dst, m.src))
           /\ UNCHANGED srv
        \/ /\ ~Full(srv[n].players) /\ m.role = "VIEWER"
           /\ srv' = [srv EXCEPT ![n] = listed]
           /\ Reply(m, AckMsg(m.dst, m.src, id))
        \/ /\ ~Full(srv[n].players) /\ m.role # "VIEWER"
           /\ srv' = [srv EXCEPT ![n] =
                        [listed EXCEPT !.joining = [id |-> id, addr |-> m.src]]]
           /\ net' = net \ {m}
  /\ mishaps' = IF ~Full(srv[n].players) /\ NextId(srv[n]) \in Ids(srv[n].players)
                THEN mishaps \cup {"id twice"} ELSE mishaps
  /\ UNCHANGED cl

(* The rest of it: the snake found a place, or the player is taken off the  *)
(* list again.  deputyId stays, should the game loop have picked it.        *)
FinishJoin(n) ==
  LET j == srv[n].joining IN
  /\ srv[n].up /\ j # NoJoin
  /\ \/ /\ srv' = [srv EXCEPT ![n].joining = NoJoin]
        /\ Transmit({}, {AckMsg(ServerAddr(n), j.addr, j.id)})
     \/ /\ srv' = [srv EXCEPT ![n].joining = NoJoin,
                              ![n].players = WithoutId(@, j.id)]
        /\ Transmit({}, {ErrorMsg(ServerAddr(n), j.addr)})
  /\ UNCHANGED cl

(* Client.handleAcknowledge takes the first message that comes for the Ack  *)
(* and only knows an Error from it; one without a receiver id is a nil      *)
(* dereference.                                                             *)
HandleAcknowledge(n, m) ==
  /\ m \in net /\ cl[n].st = "joining" /\ ForClient(n, m)
  /\ cl' = [cl EXCEPT ![n] =
       CASE m.type \in {"Ack", "RoleChange"} -> [@ EXCEPT !.st = "playing", !.id = m.id]
         [] m.type = "Error"                 -> [@ EXCEPT !.st = "out"]
         [] OTHER                            -> [@ EXCEPT !.st = "panicked"]]
  /\ net' = net \ {m}
  /\ UNCHANGED srv

(* A ping carries no receiver id and is sent to every player in the list,  *)
(* answered or not.                                                        *)
PingBeforeAck(n) ==
  /\ cl[n].st = "joining"
  /\ \E m \in Node : /\ srv[m].up /\ cl[n].peer = ServerAddr(m)
                     /\ Lists(srv[m].players, ClientAddr(n))
  /\ cl' = [cl EXCEPT ![n].st = "panicked"]
  /\ UNCHANGED <<srv, net>>

-----------------------------------------------------------------------------
(* The game loop *)

(* Mutant: a viewer can be chosen. *)
AnyoneButMaster(players) ==
  {players[i].id : i \in {j \in DOMAIN players : players[j].role # "MASTER"}}

Candidates(players) ==
  {players[i].id : i \in {j \in DOMAIN players :
                            players[j].role \notin {"VIEWER", "MASTER"}}}

(* Mutant: the newest player is chosen, and so each one that joins. *)
NewestChosen(s) ==
  LET ids == Candidates(s.players)
  IN IF ids = {} THEN s.deputyId ELSE CHOOSE id \in ids : \A i \in ids : i <= id

(* Server.updateDeputyId: the smallest id; the old deputy if there is none. *)
ChosenDeputy(s) ==
  LET ids == Candidates(s.players)
  IN IF ids = {} THEN s.deputyId ELSE CHOOSE id \in ids : \A i \in ids : id <= i

Appointed(s) ==
  IF ChosenDeputy(s) = s.deputyId THEN s
  ELSE [s EXCEPT !.deputyId = ChosenDeputy(s),
                 !.players  = WithRole(@, ChosenDeputy(s), "DEPUTY")]

(* A round begins with updateDeputyId: a new deputy is told.  The state of  *)
(* the round is due then.                                                   *)
Appoint(n) ==
  LET s    == Appointed(srv[n])
      told == IF ChosenDeputy(srv[n]) = srv[n].deputyId THEN {}
              ELSE {RoleMsg(ServerAddr(n), AddrOf(s.players, s.deputyId), "DEPUTY",
                            s.deputyId)}
  IN /\ srv[n].up /\ ~srv[n].due /\ srv[n].stateId < MaxOrder
     /\ srv' = [srv EXCEPT ![n] = [s EXCEPT !.due = TRUE]]
     /\ Transmit({}, {m \in told : m.dst # ClientAddr(n)})
     /\ UNCHANGED cl

(* It ends with sendStateForAll: the list as it is by now goes to everybody *)
(* in it.  No lock joins the two.                                           *)
SendStates(n) ==
  LET players == srv[n].players
      snap    == [order |-> srv[n].stateId + 1, players |-> players]
      sent    == {StateMsg(ServerAddr(n), players[i].addr, snap) : i \in DOMAIN players}
  IN /\ srv[n].up /\ srv[n].due /\ srv[n].stateId < MaxOrder
     /\ srv' = [srv EXCEPT ![n].stateId = @ + 1, ![n].due = FALSE]
     /\ Transmit({}, {m \in sent : m.dst # ClientAddr(n)})
     /\ UNCHANGED cl

(* Client.handleGameState, updateDeputy: the last deputy listed; whatever   *)
(* the order of the state.                                                  *)
HandleState(n, m) ==
  LET players == m.state.players
      deputy  == LastWithRole(players, "DEPUTY")
  IN
  /\ m \in net /\ m.type = "State" /\ ForClient(n, m) /\ Playing(n)
  /\ cl' = [cl EXCEPT ![n].last = m.state,
                      ![n].deputyId = IF deputy = 0 THEN @ ELSE players[deputy].id]
  /\ net' = net \ {m}
  /\ UNCHANGED srv

-----------------------------------------------------------------------------
(* Taking over *)

(* Mutant: the comparison the wrong way round. *)
LowestFreeId(players) ==
  FoldLeft(LAMBDA u, p : IF u > p.id THEN p.id + 1 ELSE u, -1, players)

(* The uniqueId a new master starts from.  An id that is one above a         *)
(* smaller one passes the comparison unnoticed.                              *)
FirstFreeId(players) ==
  LET after[i \in 0 .. Len(players)] ==
        IF i = 0 THEN -1
        ELSE IF after[i - 1] < players[i].id THEN players[i].id + 1 ELSE after[i - 1]
  IN after[Len(players)]

(* The server made of a client's last state: its own entry gets the new     *)
(* socket and the role; deputyId is the last normal player, untold.         *)
ServerFrom(n) ==
  LET old     == cl[n].last.players
      players == [i \in DOMAIN old |->
                    IF old[i].id = cl[n].id
                    THEN Player(old[i].id, <<n, 2>>, "MASTER") ELSE old[i]]
      normal  == LastWithRole(players, "NORMAL")
  IN [up       |-> TRUE,
      players  |-> players,
      deputyId |-> IF normal = 0 THEN -1 ELSE players[normal].id,
      uniqueId |-> FirstFreeId(players),
      stateId  |-> cl[n].last.order,
      joining  |-> NoJoin,
      due      |-> FALSE]

(* Client.StartServerFromState; without a state it is a nil dereference. *)
TakeOver(n) ==
  IF cl[n].last = NoState
  THEN /\ cl' = [cl EXCEPT ![n].st = "panicked"]
       /\ UNCHANGED srv
  ELSE /\ cl' = [cl EXCEPT ![n].role = "MASTER", ![n].peer = ServerAddr(n)]
       /\ srv' = [srv EXCEPT ![n] = ServerFrom(n)]

(* Client.handleRoleChange.  No server sends the role VIEWER. *)
HandleRoleChange(n, m) ==
  /\ m \in net /\ m.type = "RoleChange" /\ ForClient(n, m) /\ Playing(n)
  /\ \/ /\ m.role = "MASTER"
        /\ TakeOver(n)
     \/ /\ m.role = "DEPUTY"
        /\ cl' = [cl EXCEPT ![n].role = "DEPUTY", ![n].deputyId = cl[n].id]
        /\ UNCHANGED srv
  /\ net' = net \ {m}

(* Client.Stop, and then for a master Server.Stop in StopServer. *)
Quit(n) ==
  /\ cl' = [cl EXCEPT ![n].st = "out"]
  /\ Transmit({}, {RoleMsg(ClientAddr(n), cl[n].peer, "VIEWER", cl[n].id)})
  /\ UNCHANGED srv

(* Heartbeats reach n: a server it is connected to has it in its list, or n *)
(* has connected to its own address and hears itself.                       *)
Pinged(n) ==
  \/ cl[n].peer = ClientAddr(n)
  \/ \E m \in Node : /\ srv[m].up /\ cl[n].peer = ServerAddr(m)
                     /\ Lists(srv[m].players, ClientAddr(n))

(* updateMaster of a player: on to the deputy it knows of, or out. *)
FollowDeputy(n) ==
  LET players == cl[n].last.players
      found   == LastWithId(players, cl[n].deputyId)
  IN \/ /\ cl[n].last = NoState
        /\ cl' = [cl EXCEPT ![n].st = "panicked"]
        /\ UNCHANGED <<srv, net>>
     \/ /\ cl[n].last # NoState /\ found = 0
        /\ Quit(n)
     \/ /\ cl[n].last # NoState /\ found # 0
        /\ cl' = [cl EXCEPT ![n].peer = players[found].addr, ![n].deputyId = -1]
        /\ UNCHANGED <<srv, net>>

(* Mutant: every client thinks itself the deputy. *)
AnyRole(role) == TRUE

(* Mutant: a deputy that loses its master looks for a deputy. *)
NoRole(role) == FALSE

TakesOver(role) == role = "DEPUTY"

(* startMasterActivityCheckerThread, Client.updateMaster: for a waitDelay   *)
(* nothing came from the master.  A program does not lose touch with itself. *)
Suspect(n) ==
  /\ Playing(n) /\ ~srv[n].up
  /\ LatePings \/ ~Pinged(n)
  /\ \/ /\ TakesOver(cl[n].role)
        /\ TakeOver(n)
        /\ UNCHANGED net
     \/ /\ ~TakesOver(cl[n].role)
        /\ FollowDeputy(n)

-----------------------------------------------------------------------------
(* The ping checker of the server *)

(* A player with this id is heard of in time: it pings this server, or is   *)
(* on its way here from a dead one, or is about to get its answer.          *)
Expected(m, n, id) ==
  /\ Lists(srv[m].players, ClientAddr(n))
  /\ IdOf(srv[m].players, ClientAddr(n)) = id
  /\ \/ Playing(n) /\ cl[n].peer = ServerAddr(m)
     \/ Playing(n) /\ \A k \in Node : srv[k].up => cl[n].peer # ServerAddr(k)
     \/ /\ cl[n].st = "joining" /\ cl[n].peer = ServerAddr(m)
        /\ \/ srv[m].joining.addr = ClientAddr(n)
           \/ \E a \in net : a.type = "Ack" /\ ForClient(n, a)

(* Mutant: a deputy is never taken off the list. *)
WithoutUnlessDeputy(s, id) ==
  IF id = s.deputyId THEN s ELSE [s EXCEPT !.players = WithoutId(@, id)]

(* removePlayerWithoutSnake *)
Without(s, id) ==
  [s EXCEPT !.players  = WithoutId(@, id),
            !.deputyId = IF @ = id THEN -1 ELSE @]

(* startPingCheckerThread: waitDelay without a ping from the address that   *)
(* the id has.  lastPing is a map by id, and a program hears itself.        *)
RemoveSilent(m, id) ==
  /\ srv[m].up /\ id \in Ids(srv[m].players) /\ id # cl[m].id
  /\ LatePings \/ \A n \in Node : ~Expected(m, n, id)
  /\ srv' = [srv EXCEPT ![m] = Without(@, id)]
  /\ UNCHANGED <<cl, net>>

-----------------------------------------------------------------------------
(* Leaving *)

(* The window is closed. *)
Leave(n) ==
  /\ Playing(n)
  /\ Cardinality({k \in Node : cl[k].st = "out"}) < MaxLeaves
  /\ Quit(n)

(* Server.Stop: the deputy is told, unless the master is alone; a deputyId  *)
(* that is nobody's is a nil dereference.                                   *)
StopServer(n) ==
  LET s == srv[n] IN
  /\ s.up /\ cl[n].st = "out"
  /\ srv' = [srv EXCEPT ![n] = NoServer]
  /\ \/ /\ Len(s.players) = 1
        /\ UNCHANGED <<cl, net>>
     \/ /\ Len(s.players) # 1 /\ s.deputyId \in Ids(s.players)
        /\ Transmit({}, {RoleMsg(ServerAddr(n), AddrOf(s.players, s.deputyId),
                                 "MASTER", s.deputyId)})
        /\ UNCHANGED cl
     \/ /\ Len(s.players) # 1 /\ s.deputyId \notin Ids(s.players)
        /\ cl' = [cl EXCEPT ![n].st = "panicked"]
        /\ UNCHANGED net

(* Server.makePlayerViewer: everyone but the one that leaves. *)
ViewersAfter(players, id) ==
  [i \in DOMAIN players |->
     IF players[i].id # id THEN [players[i] EXCEPT !.role = "VIEWER"] ELSE players[i]]

(* Server.handleRoleChange.  What an old master sent to the address where   *)
(* its deputy's server listens by now is of no consequence.                 *)
HandleLeaver(n, m) ==
  /\ m \in net /\ m.type = "RoleChange" /\ ForServer(n, m)
  /\ srv[n].joining = NoJoin
  /\ srv' = IF m.role = "VIEWER"
            THEN [srv EXCEPT ![n].players = ViewersAfter(@, m.id)] ELSE srv
  /\ mishaps' = IF m.role = "VIEWER" THEN mishaps \cup {"all viewers"} ELSE mishaps
  /\ net' = net \ {m}
  /\ UNCHANGED cl

(* A program or its machine dies. *)
Crash(n) ==
  /\ cl[n].st \in {"joining", "playing"}
  /\ Cardinality({k \in Node : cl[k].st = "crashed"}) < MaxCrashes
  /\ cl' = [cl EXCEPT ![n].st = "crashed"]
  /\ srv' = [srv EXCEPT ![n] = NoServer]
  /\ UNCHANGED net

-----------------------------------------------------------------------------
(* The creator has started its server and joined it as its first player. *)
Init ==
  /\ cl = [n \in Node |->
             IF n = Creator
             THEN [NewClient EXCEPT !.st = "playing", !.role = "MASTER"]
             ELSE NewClient]
  /\ srv = [n \in Node |->
              IF n = Creator
              THEN [NoServer EXCEPT !.up = TRUE, !.uniqueId = 1,
                      !.players = <<Player(0, <<Creator, 2>>, "MASTER")>>]
              ELSE NoServer]
  /\ net = {} /\ mishaps = {}

ClientStep(n) ==
  \/ \E m \in Node : Join(n, m)
  \/ PingBeforeAck(n)
  \/ \E m \in net : HandleAcknowledge(n, m)
  \/ \E m \in net : HandleState(n, m)
  \/ \E m \in net : HandleRoleChange(n, m)
  \/ Suspect(n)
  \/ Leave(n)

ServerStep(n) ==
  \/ FinishJoin(n)
  \/ Appoint(n)
  \/ SendStates(n)
  \/ \E id \in Ids(srv[n].players) : RemoveSilent(n, id)
  \/ StopServer(n)

Next ==
  \/ /\ \/ \E n \in Node : ClientStep(n) \/ ServerStep(n) \/ Crash(n)
        \/ \E m \in net : Discard(m)
     /\ UNCHANGED mishaps
  \/ \E n \in Node : \E m \in net : HandleJoin(n, m) \/ HandleLeaver(n, m)

Spec == Init /\ [][Next]_vars

(* The checker threads loop for ever: a client that hears nothing gets to   *)
(* updateMaster, a player that is not heard of is taken off the list.       *)
Fairness ==
  \A n \in Node : /\ WF_program(Suspect(n))
                  /\ WF_program(\E id \in Ids(srv[n].players) : RemoveSilent(n, id))

LiveSpec == Spec /\ Fairness

-----------------------------------------------------------------------------
(* Properties *)

Order == 0 .. MaxOrder

PlayerType == [id : Nat, addr : Addr, role : Role]

(* Clients, servers and states are what the names say. *)
TypeOK ==
  /\ \A n \in Node :
       /\ cl[n].st \in {"idle", "joining", "playing", "out", "panicked", "crashed"}
       /\ cl[n].role \in Role /\ cl[n].peer \in Addr
       /\ cl[n].id \in Nat /\ cl[n].deputyId \in Nat \cup {-1}
       /\ cl[n].last.order \in Order /\ cl[n].last.players \in Seq(PlayerType)
       /\ srv[n].up \in BOOLEAN /\ srv[n].players \in Seq(PlayerType)
       /\ srv[n].deputyId \in Nat \cup {-1} /\ srv[n].uniqueId \in Nat
       /\ srv[n].stateId \in Order /\ srv[n].due \in BOOLEAN
       /\ srv[n].up => cl[n].st \in {"playing", "out"}
  /\ Cardinality(net) <= MaxNet

(* A client of the creator's game becomes master only when no other server   *)
(* runs and none but the creator's ever has: of all that lose the creator, or *)
(* think so, one at most takes over, whichever joins, states and role changes *)
(* are lost or late.  Heartbeats are in time, and no server has made viewers  *)
(* of its players.                                                            *)
OneHeir ==
  [][\A n \in Node :
       /\ ~srv[n].up /\ srv'[n].up /\ cl[n].peer = ServerAddr(Creator)
       /\ "all viewers" \notin mishaps
       => \A k \in Node : ~srv[k].up /\ (k # Creator => cl[k].role # "MASTER")]_vars

(* No two living clients of the creator's game both think themselves its     *)
(* deputy, told or replaced in the middle of a join or not: both would take  *)
(* over when it is lost.  The conditions are those of OneHeir.               *)
OneDeputy ==
  "all viewers" \notin mishaps =>
    \A n, k \in Node :
      /\ Playing(n) /\ cl[n].role = "DEPUTY" /\ cl[n].peer = ServerAddr(Creator)
      /\ Playing(k) /\ cl[k].role = "DEPUTY" /\ cl[k].peer = ServerAddr(Creator)
      => n = k

(* Who asked to watch is never made deputy or master, through any number of *)
(* hand-overs and false alarms, until a server gives an id twice.           *)
ViewersOnlyWatch ==
  [][\A n \in Node :
       cl[n].role = "VIEWER" /\ "id twice" \notin mishaps
       => cl'[n].role = "VIEWER"]_vars

(* The master that created the game gives ids in order and none twice: not  *)
(* even a player it has dropped too early, and that does not know it yet,   *)
(* shares its id with a later one.                                          *)
CreatorGivesNewIds ==
  LET players == srv[Creator].players
      InTouch == {n \in Node : Playing(n) /\ cl[n].peer = ServerAddr(Creator)}
  IN srv[Creator].up =>
       /\ \A i, j \in DOMAIN players : i < j => players[i].id < players[j].id
       /\ \A n, k \in InTouch : n # k => cl[n].id # cl[k].id

(* However players come, go, are dropped in error or made viewers between    *)
(* the choice of a deputy and the state of that round, no state of the       *)
(* creator's server names two deputies, or one although an older player      *)
(* could be it.  It may name none: the deputy can have gone in between, or   *)
(* the first player who could be one just have come.                         *)
StatesNameFirst ==
  \A m \in net :
    m.type = "State" /\ m.src = ServerAddr(Creator) =>
      LET players == m.state.players
          able    == {i \in DOMAIN players : players[i].role \in {"NORMAL", "DEPUTY"}}
      IN \A i, k \in able : players[i].role = "DEPUTY" => players[i].id <= players[k].id

(* Programs but the creator are interchangeable, here and in Next: what can  *)
(* never happen to one of them can happen to none.                           *)
Joiner == CHOOSE n \in Node : n # Creator

(* A client that knows it is the deputy and has a state becomes the master  *)
(* once its master is gone, or is gone itself.                              *)
DeputyTakesOver ==
  LET client == cl[Joiner] IN
  ( /\ Playing(Joiner) /\ client.role = "DEPUTY" /\ client.last # NoState
    /\ \A m \in Node : client.peer = ServerAddr(m) => ~srv[m].up )
  ~> (srv[Joiner].up \/ ~Playing(Joiner))

(* A player that is gone does not stay on the creator's list for ever, even *)
(* one that went in the middle of its join.                                 *)
GoneAreRemoved ==
  (srv[Creator].up /\ cl[Joiner].st \in {"out", "panicked", "crashed"})
  ~> (~srv[Creator].up \/ ~Lists(srv[Creator].players, ServerAddr(Joiner)))

-----------------------------------------------------------------------------
(* What the protocol file promises and the code does not keep *)

(* The centre of the star: one server at most runs the game. *)
OneMaster == Cardinality({n \in Node : srv[n].up}) <= 1

(* snakes.proto: GamePlayer.id is unique within the game. *)
UniqueIds ==
  \A n \in Node :
    \A i, j \in DOMAIN srv[n].players :
      i # j => srv[n].players[i].id # srv[n].players[j].id

=============================================================================
