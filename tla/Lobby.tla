------------------------------- MODULE Lobby -------------------------------
(***************************************************************************)
(* The window in which a user picks a game: servers announce their games   *)
(* by multicast, a listener keeps a list of them, the window shows rows of *)
(* an earlier list, and a click selects by the number of a row.            *)
(* Times are in units of which AnnouncementDelay has several; ages are     *)
(* counted up to one more than Wait.                                       *)
(***************************************************************************)
EXTENDS ListFilter, SequencesExt

CONSTANTS
  Game,      \* the games: a server's address with the name of its game
  Delay,     \* AnnouncementDelay
  Work,      \* the longest that making, sending and delivering an announcement takes
  Wait,      \* AnnouncementWaitTime
  MaxLost    \* bound: announcements that are lost

ASSUME TimesAssumption ==
  Delay \in Nat \ {0} /\ Work \in Nat /\ Wait \in Nat /\ MaxLost \in Nat
ASSUME GameAssumption == IsFiniteSet(Game)

None == "none"
ASSUME NoneAssumption == None \notin Game

VARIABLES
  server,     \* game -> "new", "on" or "off"
  since,      \* game -> time since its announcer sent, while the server runs
  list,       \* announcements: games with the time since lastReceived
  listening,  \* ListenForAnnouncements runs
  rows,       \* the games whose names the window shows
  removed,    \* rows whose games left the list since they were drawn (history)
  selected,   \* selectedAnnouncement
  lost

vars == <<server, since, list, listening, rows, removed, selected, lost>>

Games(l) == [i \in 1 .. Len(l) |-> l[i].game]
Listed(g) == \E i \in 1 .. Len(list) : list[i].game = g

-----------------------------------------------------------------------------
(* updateAnnouncements                                                     *)

(* Mutants: < for <=; nothing expires.                                      *)
KeptStrictly(e) == e.age < Wait
KeptAlways(e) == TRUE

Kept(e) == e.age <= Wait

(* Mutants: a game heard again moves to the end; it is added again.        *)
MovedToEnd(l, g) ==
  Append(SelectSeq(l, LAMBDA e : e.game # g), [game |-> g, age |-> 0])

AddedAgain(l, g) == Append(l, [game |-> g, age |-> 0])

(* A known game stays where it is, with what was announced first; a new one *)
(* comes last.                                                              *)
Heard(l, g) ==
  IF \E i \in 1 .. Len(l) : l[i].game = g
  THEN [i \in 1 .. Len(l) |-> IF l[i].game = g THEN [l[i] EXCEPT !.age = 0] ELSE l[i]]
  ELSE Append(l, [game |-> g, age |-> 0])

(* Expired games go only when another announcement comes.                   *)
Update(g) ==
  LET kept == EntriesAt(list, {i \in DOMAIN list : Kept(list[i])})
  IN /\ list' = Heard(kept, g)
     /\ removed' = removed \cup
                     ({e.game : e \in ToSet(list) \ ToSet(kept)} \cap ToSet(rows))

-----------------------------------------------------------------------------
(* A round of the announcer takes its sleep and its work.                   *)
Period == Delay + Work

(* The first announcement comes at once.                                    *)
StartServer(g) ==
  /\ server[g] = "new"
  /\ server' = [server EXCEPT ![g] = "on"]
  /\ since' = [since EXCEPT ![g] = Delay]
  /\ UNCHANGED <<list, listening, rows, removed, selected, lost>>

StopServer(g) ==
  /\ server[g] = "on"
  /\ server' = [server EXCEPT ![g] = "off"]
  /\ since' = [since EXCEPT ![g] = 0]
  /\ UNCHANGED <<list, listening, rows, removed, selected, lost>>

(* The announcer has slept, and sends; the listener, if it runs, takes it.  *)
Announce(g) ==
  /\ server[g] = "on" /\ since[g] >= Delay
  /\ since' = [since EXCEPT ![g] = 0]
  /\ \/ listening /\ Update(g) /\ UNCHANGED lost
     \/ ~listening /\ UNCHANGED <<list, removed, lost>>
     \/ lost < MaxLost /\ lost' = lost + 1 /\ UNCHANGED <<list, removed>>
  /\ UNCHANGED <<server, listening, rows, selected>>

(* A message of the group that is no announcement, or one of no game, ends   *)
(* the listener.                                                             *)
Foreign ==
  /\ listening
  /\ listening' = FALSE
  /\ UNCHANGED <<server, since, list, rows, removed, selected, lost>>

(* A unit of time, while no announcer's work has taken as long as it can.   *)
Tick ==
  /\ \A g \in Game : server[g] = "on" => since[g] < Period
  /\ since' = [g \in Game |-> IF server[g] = "on" THEN since[g] + 1 ELSE since[g]]
  /\ list' = [i \in 1 .. Len(list) |->
                [list[i] EXCEPT !.age = IF @ > Wait THEN @ ELSE @ + 1]]
  /\ UNCHANGED <<server, listening, rows, removed, selected, lost>>

(* The widget asks for the rows it draws, when it wants to; nothing tells it *)
(* that the list has changed.                                                *)
Draw ==
  /\ rows' = Games(list)
  /\ removed' = {}
  /\ UNCHANGED <<server, since, list, listening, selected, lost>>

Click(i) ==
  /\ i <= Len(rows)
  /\ selected' = IF i <= Len(list) THEN list[i].game ELSE selected
  /\ UNCHANGED <<server, since, list, listening, rows, removed, lost>>

-----------------------------------------------------------------------------
Init ==
  /\ server = [g \in Game |-> "new"] /\ since = [g \in Game |-> 0]
  /\ list = << >> /\ listening = TRUE
  /\ rows = << >> /\ removed = {} /\ selected = None
  /\ lost = 0

Next ==
  \/ \E g \in Game : StartServer(g) \/ StopServer(g) \/ Announce(g)
  \/ Foreign \/ Tick \/ Draw
  \/ \E i \in 1 .. Len(rows) : Click(i)

Spec == Init /\ [][Next]_vars

(* Announcers run and time passes.  Servers and the user do what they like. *)
LiveSpec ==
  Spec /\ WF_vars(Tick) /\ \A g \in Game : WF_vars(Announce(g))

-----------------------------------------------------------------------------
TypeOK ==
  /\ server \in [Game -> {"new", "on", "off"}] /\ since \in [Game -> 0 .. Period]
  /\ list \in Seq([game : Game, age : 0 .. Wait + 1]) 
  /\ Len(list) <= Cardinality(Game) /\ listening \in BOOLEAN
  /\ rows \in Seq(Game) /\ removed \subseteq ToSet(rows) /\ selected \in Game \cup {None}
  /\ lost \in 0 .. MaxLost

(* However games come, go and come back after an expiry, none is listed     *)
(* twice: a row stands for one game.                                        *)
NoneTwice == \A i, j \in 1 .. Len(list) : list[i].game = list[j].game => i = j

(* A game whose server runs never leaves the list, however the other ones   *)
(* are announced in between, unless announcements are lost: and then only   *)
(* when the rounds of those that were, and the next one, can take longer    *)
(* than Wait.                                                               *)
RunningStays ==
  [][\A g \in Game :
       Listed(g) /\ server[g] = "on" /\ (lost + 1) * Period <= Wait => Listed(g)']_vars

(* A click selects the game whose name the user sees in the row, if none of *)
(* the rows up to it has expired since they were drawn: what is added or    *)
(* heard again in between does not shift them.                              *)
ClickedIsShown ==
  [][\A i \in 1 .. Len(rows) :
       Click(i) /\ (\A j \in 1 .. i : rows[j] \notin removed) => selected' = rows[i]]_vars

(* A game that has ended leaves the list while another one is announced and *)
(* nothing has ended the listener: an announcement is all that cleans up.   *)
EndedVanishes ==
  \A g \in Game :
    (server[g] = "off" /\ Listed(g))
      ~> (~Listed(g) \/ ~listening \/ \A o \in Game : server[o] # "on")
=============================================================================
