----------------------------- MODULE Discovery -----------------------------
(***************************************************************************)
(* lab1: programs that multicast their address about once a second and     *)
(* each list the programs, themselves included, that were heard of in the  *)
(* last three.  One thread does everything in turn: it waits for a message *)
(* (receive_multicast), sends if it is time to, and cleans the list up.    *)
(* A turn takes no time but the wait; the unit of time is the constants'.  *)
(***************************************************************************)
EXTENDS Integers, Sequences, FiniteSets

CONSTANTS
  Program,
  WaitTime, SendTime, AliveTime,   \* WAIT_TIME, SEND_TIME, ALIVE_TIME in units
  MaxFaults   \* bound: messages lost, waits interrupted, programs stopped

ASSUME ProgramAssumption == IsFiniteSet(Program)

ASSUME TimesAssumption ==
  /\ WaitTime \in Nat \ {0} /\ SendTime \in Nat \ {0} /\ MaxFaults \in Nat
  /\ AliveTime \in Nat /\ SendTime + WaitTime <= AliveTime

VARIABLES
  state,    \* program -> "new", "up", "stuck" in recvfrom, or "down"
  inbox,    \* program -> messages in its socket, by their senders
  waited,   \* program -> time spent in this poll
  since,    \* program -> time since prev, counted up to SendTime
  age,      \* program -> program -> age of the entry in alive, or NotListed
  lost, interrupted

vars == <<state, inbox, waited, since, age, lost, interrupted>>

NotListed == -1
Runs(p) == state[p] \in {"up", "stuck"}
Listed(p, q) == age[p][q] # NotListed

-----------------------------------------------------------------------------
(* Mutants: a program that is known keeps the time it was first heard at;    *)
(* an entry of just ALIVE_TIME is kept; the age is counted in seconds and    *)
(* compared with milliseconds.                                               *)
FirstHeard(a, q) == IF a[q] = NotListed THEN [a EXCEPT ![q] = 0] ELSE a
CleanedLate(a) == [q \in Program |-> IF a[q] > AliveTime THEN NotListed ELSE a[q]]
CleanedNever(a) == a

HeardOf(a, q) == [a EXCEPT ![q] = 0]

(* cleanup *)
Cleaned(a) == [q \in Program |-> IF a[q] >= AliveTime THEN NotListed ELSE a[q]]

PrevSet(p, sends) == IF sends THEN [since EXCEPT ![p] = 0] ELSE since

(* The rest of a turn after receive_multicast has left the inboxes b and the *)
(* list a: a message to every program that runs, some of which may be lost.  *)
Turn(p, b, a) ==
  LET sends == since[p] >= SendTime
      reach == {q \in Program : Runs(q)}
  IN /\ \E missing \in SUBSET reach :
          /\ lost + Cardinality(missing) <= MaxFaults
          /\ missing # {} => sends
          /\ lost' = lost + Cardinality(missing)
          /\ inbox' = [q \in Program |->
                         IF sends /\ q \in reach \ missing THEN Append(b[q], p) ELSE b[q]]
     /\ since' = PrevSet(p, sends)
     /\ age' = [age EXCEPT ![p] = Cleaned(a)]
     /\ waited' = [waited EXCEPT ![p] = 0]
     /\ state' = [state EXCEPT ![p] = "up"]
     /\ UNCHANGED interrupted

(* Mutant: poll is called without a timeout. *)
WaitForEver(p) == FALSE

WaitIsOver(p) == waited[p] = WaitTime

Receive(p) ==
  /\ Runs(p) /\ inbox[p] # << >>
  /\ Turn(p, [inbox EXCEPT ![p] = Tail(@)], HeardOf(age[p], Head(inbox[p])))

Timeout(p) ==
  /\ state[p] = "up" /\ inbox[p] = << >> /\ WaitIsOver(p)
  /\ Turn(p, inbox, age[p])

(* poll fails, which is not told from a message: recvfrom waits for one, as  *)
(* long as it takes.                                                         *)
Interrupt(p) ==
  /\ state[p] = "up" /\ interrupted < MaxFaults
  /\ state' = [state EXCEPT ![p] = "stuck"]
  /\ interrupted' = interrupted + 1
  /\ UNCHANGED <<inbox, waited, since, age, lost>>

Start(p) ==
  /\ state[p] = "new"
  /\ state' = [state EXCEPT ![p] = "up"]
  /\ UNCHANGED <<inbox, waited, since, age, lost, interrupted>>

Stop(p) ==
  /\ Runs(p)
  /\ state' = [state EXCEPT ![p] = "down"]
  /\ inbox' = [inbox EXCEPT ![p] = << >>]
  /\ age' = [age EXCEPT ![p] = [q \in Program |-> NotListed]]
  /\ UNCHANGED <<waited, since, lost, interrupted>>

(* A unit of time, in which no program has anything to do.                  *)
Busy(p) ==
  \/ Runs(p) /\ inbox[p] # << >>
  \/ state[p] = "up" /\ WaitIsOver(p)

Tick ==
  /\ \A p \in Program : ~Busy(p)
  /\ waited' = [p \in Program |-> IF state[p] = "up" THEN waited[p] + 1 ELSE waited[p]]
  /\ since' = [p \in Program |->
                 IF Runs(p) /\ since[p] < SendTime THEN since[p] + 1 ELSE since[p]]
  /\ age' = [p \in Program |-> [q \in Program |->
               IF age[p][q] = NotListed \/ age[p][q] = AliveTime + WaitTime
               THEN age[p][q] ELSE age[p][q] + 1]]
  /\ UNCHANGED <<state, inbox, lost, interrupted>>

-----------------------------------------------------------------------------
Init ==
  /\ state = [p \in Program |-> "new"]
  /\ inbox = [p \in Program |-> << >>]
  /\ waited = [p \in Program |-> 0] /\ since = [p \in Program |-> 0]
  /\ age = [p \in Program |-> [q \in Program |-> NotListed]]
  /\ lost = 0 /\ interrupted = 0

Next ==
  \/ \E p \in Program :
       Receive(p) \/ Timeout(p) \/ Interrupt(p) \/ Start(p) \/ Stop(p)
  \/ Tick

Spec == Init /\ [][Next]_vars

(* Programs run and time passes. *)
LiveSpec ==
  Spec /\ WF_vars(Tick) /\ \A p \in Program : WF_vars(Receive(p) \/ Timeout(p))

-----------------------------------------------------------------------------
TypeOK ==
  /\ state \in [Program -> {"new", "up", "stuck", "down"}]
  /\ inbox \in [Program -> Seq(Program)]
  /\ waited \in [Program -> 0 .. WaitTime] /\ since \in [Program -> 0 .. SendTime]
  /\ age \in [Program -> [Program -> NotListed .. AliveTime + WaitTime]]
  /\ lost \in 0 .. MaxFaults /\ interrupted \in 0 .. MaxFaults

(* A program that runs stays in every list it has come to, whatever the      *)
(* others send and when: receiving a message starts a new wait, but sending  *)
(* is never put off by so much that an entry expires.  Unless a message is   *)
(* lost or a wait is interrupted.                                            *)
RunningStays ==
  [][\A p, q \in Program :
       /\ Listed(p, q) /\ Runs(p)' /\ Runs(q)
       /\ lost = 0 /\ interrupted = 0
       => Listed(p, q)']_vars

(* Nobody is listed longer than AliveTime and one more wait after its last   *)
(* message, in a program whose wait was not interrupted.                     *)
NoneStale ==
  \A p, q \in Program :
    state[p] = "up" /\ interrupted = 0 => age[p][q] < AliveTime + WaitTime

(* Two programs that go on running get to list each other, even if a wait of  *)
(* one of them was interrupted, for the other one's messages end that; and a *)
(* program that is not stuck does not list one that has stopped for ever.    *)
FindEachOther ==
  \A p, q \in Program :
    /\ (Runs(p) /\ Runs(q))
         ~> \/ Listed(p, q) \/ ~Runs(p) \/ ~Runs(q)
            \/ state[p] = "stuck" /\ state[q] = "stuck"
    /\ (state[q] = "down" /\ Listed(p, q)) ~> (~Listed(p, q) \/ state[p] = "stuck")
=============================================================================
