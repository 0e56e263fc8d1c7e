-------------------------- MODULE DiscoveryProofs --------------------------
(***************************************************************************)
(* Proofs about lab1's peers, for any number of them and any three times   *)
(* that fit together (SendTime + WaitTime <= AliveTime): the types, that   *)
(* an entry does not outlive its program's messages by more than one wait, *)
(* and that a program that runs stays listed.                              *)
(***************************************************************************)
EXTENDS Discovery, FiniteSetTheorems, TLAPS

Waiting(p, q) == \E i \in 1 .. Len(inbox[p]) : inbox[p][i] = q

Flawless == lost = 0 /\ interrupted = 0

(* Only programs that have been started are heard of, and only by such.     *)
Known ==
  \A p, q \in Program :
    Listed(p, q) \/ Waiting(p, q) => state[p] # "new" /\ state[q] # "new"

(* A turn leaves nothing of AliveTime in the list: what is as old has become *)
(* so in the present wait.                                                   *)
Fresh ==
  interrupted = 0 =>
    \A p, q \in Program :
      state[p] # "stuck" /\ (state[p] = "up" => age[p][q] < AliveTime + waited[p])

(* q's entry is never older than SendTime and the wait of q after which it   *)
(* sends; unless a message of q lies in the inbox, it is as old as q's last. *)
Heartbeat(p, q) ==
  /\ age[p][q] < SendTime + WaitTime
  /\ ~Waiting(p, q) =>
       /\ since[q] < SendTime => age[p][q] <= since[q]
       /\ age[p][q] < SendTime + waited[q]

Beating ==
  Flawless => \A p, q \in Program :
                Runs(p) /\ Runs(q) /\ Listed(p, q) => Heartbeat(p, q)

Inv == TypeOK /\ Known /\ Fresh /\ Beating

-----------------------------------------------------------------------------
LEMMA InitInv == Init => Inv
<1> SUFFICES ASSUME Init PROVE Inv
  OBVIOUS
<1>1. TypeOK
  BY TimesAssumption DEF Init, TypeOK, NotListed
<1>2. Known /\ Fresh /\ Beating
  BY DEF Init, Known, Fresh, Beating, Listed, Waiting, Runs, NotListed
<1> QED
  BY <1>1, <1>2 DEF Inv

(* What a turn of p does, apart from what receive_multicast has left: to the *)
(* list a and the inboxes b.                                                 *)
LEMMA TurnType ==
  ASSUME TypeOK, NEW p \in Program, NEW b \in [Program -> Seq(Program)],
         NEW a \in [Program -> NotListed .. AliveTime + WaitTime], Turn(p, b, a)
  PROVE  TypeOK'
<1>1. PICK missing \in SUBSET {q \in Program : Runs(q)} :
        /\ lost + Cardinality(missing) <= MaxFaults
        /\ lost' = lost + Cardinality(missing)
        /\ inbox' = [q \in Program |->
                       IF since[p] >= SendTime /\ q \in {r \in Program : Runs(r)} \ missing
                       THEN Append(b[q], p) ELSE b[q]]
  BY DEF Turn
<1>2. IsFiniteSet(missing)
  BY ProgramAssumption, FS_Subset
<1>3. lost' \in 0 .. MaxFaults
  BY <1>1, <1>2, FS_CardinalityType, TimesAssumption DEF TypeOK
<1>4. inbox' \in [Program -> Seq(Program)]
  BY <1>1
<1>5. since' \in [Program -> 0 .. SendTime] /\ waited' \in [Program -> 0 .. WaitTime]
  BY TimesAssumption DEF Turn, PrevSet, TypeOK
<1>6. Cleaned(a) \in [Program -> NotListed .. AliveTime + WaitTime]
  BY TimesAssumption DEF Cleaned, NotListed
<1>7. age' \in [Program -> [Program -> NotListed .. AliveTime + WaitTime]]
  BY <1>6 DEF Turn, TypeOK
<1> QED
  BY <1>3, <1>4, <1>5, <1>7 DEF Turn, TypeOK

(* Nothing is lost in a turn after which nothing has been.                  *)
LEMMA TurnReaches ==
  ASSUME TypeOK, NEW p \in Program, NEW b \in [Program -> Seq(Program)],
         NEW a, Turn(p, b, a), lost' = 0
  PROVE  /\ lost = 0
         /\ inbox' = [q \in Program |->
                        IF since[p] >= SendTime /\ Runs(q) THEN Append(b[q], p) ELSE b[q]]
<1>1. PICK missing \in SUBSET {q \in Program : Runs(q)} :
        /\ lost' = lost + Cardinality(missing)
        /\ inbox' = [q \in Program |->
                       IF since[p] >= SendTime /\ q \in {r \in Program : Runs(r)} \ missing
                       THEN Append(b[q], p) ELSE b[q]]
  BY DEF Turn
<1>2. IsFiniteSet(missing)
  BY ProgramAssumption, FS_Subset
<1>3. lost = 0 /\ Cardinality(missing) = 0
  BY <1>1, <1>2, FS_CardinalityType, TimesAssumption DEF TypeOK
<1>4. missing = {}
  BY <1>2, <1>3, FS_EmptySet
<1> QED
  BY <1>1, <1>3, <1>4

(* What receive_multicast hands to the rest of the turn: the inboxes hold no *)
(* more than they did, and the one message missing is in the list.           *)
Received(p, b, a) ==
  /\ b \in [Program -> Seq(Program)]
  /\ a \in [Program -> NotListed .. AliveTime + WaitTime]
  /\ \A r \in Program \ {p} : b[r] = inbox[r]
  /\ \A q \in Program :
       /\ (\E i \in 1 .. Len(b[p]) : b[p][i] = q) => Waiting(p, q)
       /\ a[q] = age[p][q] \/ (a[q] = 0 /\ Waiting(p, q))
       /\ Waiting(p, q) => (\E i \in 1 .. Len(b[p]) : b[p][i] = q) \/ a[q] = 0

LEMMA ReceiveTurns ==
  ASSUME TypeOK, NEW p \in Program, Receive(p)
  PROVE  LET b == [inbox EXCEPT ![p] = Tail(@)]
             a == HeardOf(age[p], Head(inbox[p]))
         IN Received(p, b, a) /\ Turn(p, b, a) /\ Runs(p)
<1> DEFINE b == [inbox EXCEPT ![p] = Tail(@)]
           a == HeardOf(age[p], Head(inbox[p]))
<1>1. inbox[p] \in Seq(Program) /\ inbox[p] # << >> /\ age[p] \in [Program -> NotListed .. AliveTime + WaitTime]
  BY DEF Receive, TypeOK
<1>2. Head(inbox[p]) \in Program /\ Head(inbox[p]) = inbox[p][1]
      /\ Tail(inbox[p]) \in Seq(Program) /\ Len(inbox[p]) \in Nat /\ Len(inbox[p]) >= 1
  BY <1>1
<1>3. b \in [Program -> Seq(Program)] /\ \A r \in Program \ {p} : b[r] = inbox[r]
  BY <1>2 DEF TypeOK
<1>4. a \in [Program -> NotListed .. AliveTime + WaitTime]
  BY <1>1, <1>2, TimesAssumption DEF HeardOf, NotListed
<1>5. b[p] = Tail(inbox[p])
  BY DEF TypeOK
<1>6. Len(b[p]) = Len(inbox[p]) - 1 /\ \A i \in 1 .. Len(b[p]) : b[p][i] = inbox[p][i + 1]
  <2>1. ASSUME NEW s \in Seq(Program), s # << >>
        PROVE  Len(Tail(s)) = Len(s) - 1 /\ \A i \in 1 .. Len(Tail(s)) : Tail(s)[i] = s[i + 1]
    BY <2>1
  <2> QED
    BY <1>1, <1>5, <2>1
<1>7. ASSUME NEW q \in Program
      PROVE  /\ (\E i \in 1 .. Len(b[p]) : b[p][i] = q) => Waiting(p, q)
             /\ a[q] = age[p][q] \/ (a[q] = 0 /\ Waiting(p, q))
             /\ Waiting(p, q) => (\E i \in 1 .. Len(b[p]) : b[p][i] = q) \/ a[q] = 0
  <2> HIDE DEF b
  <2>1. (\E i \in 1 .. Len(b[p]) : b[p][i] = q) => Waiting(p, q)
    <3> SUFFICES ASSUME NEW i \in 1 .. Len(b[p]), b[p][i] = q PROVE Waiting(p, q)
      OBVIOUS
    <3>1. i + 1 \in 1 .. Len(inbox[p]) /\ inbox[p][i + 1] = q
      BY <1>2, <1>6
    <3> QED
      BY <3>1 DEF Waiting
  <2>2. a[q] = IF q = inbox[p][1] THEN 0 ELSE age[p][q]
    BY <1>1, <1>2 DEF HeardOf
  <2>3. q = inbox[p][1] => Waiting(p, q)
    BY <1>2 DEF Waiting
  <2>4. Waiting(p, q) => (\E i \in 1 .. Len(b[p]) : b[p][i] = q) \/ q = inbox[p][1]
    <3> SUFFICES ASSUME NEW i \in 1 .. Len(inbox[p]), inbox[p][i] = q, i # 1
                 PROVE  \E j \in 1 .. Len(b[p]) : b[p][j] = q
      BY DEF Waiting
    <3>1. i - 1 \in 1 .. Len(b[p]) /\ b[p][i - 1] = q
      BY <1>2, <1>6
    <3> QED
      BY <3>1
  <2> QED
    BY <2>1, <2>2, <2>3, <2>4
<1> QED
  BY <1>3, <1>4, <1>7 DEF Received, Receive

LEMMA TimeoutTurns ==
  ASSUME TypeOK, NEW p \in Program, Timeout(p)
  PROVE  Received(p, inbox, age[p]) /\ Turn(p, inbox, age[p]) /\ Runs(p)
BY DEF Timeout, TypeOK, Received, Runs, Waiting

-----------------------------------------------------------------------------
(* A message that was in an inbox is there after a turn, unless it is the    *)
(* one received; what is new is p's, in programs that run.                   *)
LEMMA TurnInboxes ==
  ASSUME TypeOK, NEW p \in Program, NEW b, NEW a, Received(p, b, a), Turn(p, b, a),
         NEW r \in Program, NEW q \in Program
  PROVE  /\ Waiting(r, q)' => Waiting(r, q) \/ (q = p /\ Runs(r))
         /\ (\E i \in 1 .. Len(b[r]) : b[r][i] = q) => Waiting(r, q)'
<1>1. inbox'[r] = b[r] \/ (Runs(r) /\ inbox'[r] = Append(b[r], p))
  BY DEF Turn
<1>2. b[r] \in Seq(Program) /\ ((\E i \in 1 .. Len(b[r]) : b[r][i] = q) => Waiting(r, q))
  BY DEF Received, Waiting
<1>3. CASE inbox'[r] = b[r]
  BY <1>2, <1>3 DEF Waiting
<1>4. CASE Runs(r) /\ inbox'[r] = Append(b[r], p)
  <2>1. Len(inbox'[r]) = Len(b[r]) + 1 /\ inbox'[r][Len(b[r]) + 1] = p
        /\ Len(b[r]) \in Nat /\ \A i \in 1 .. Len(b[r]) : inbox'[r][i] = b[r][i]
    BY <1>2, <1>4
  <2>2. ASSUME Waiting(r, q)' PROVE Waiting(r, q) \/ (q = p /\ Runs(r))
    <3>1. PICK i \in 1 .. Len(b[r]) + 1 : inbox'[r][i] = q
      BY <2>1, <2>2 DEF Waiting
    <3>2. CASE i = Len(b[r]) + 1
      BY <1>4, <2>1, <3>1, <3>2
    <3>3. CASE i \in 1 .. Len(b[r])
      BY <1>2, <2>1, <3>1, <3>3
    <3> QED
      BY <2>1, <3>2, <3>3
  <2>3. ASSUME NEW i \in 1 .. Len(b[r]), b[r][i] = q PROVE Waiting(r, q)'
    BY <2>1, <2>3 DEF Waiting
  <2> QED
    BY <2>2, <2>3
<1> QED
  BY <1>1, <1>3, <1>4

LEMMA TurnSends ==
  ASSUME TypeOK, NEW p \in Program, NEW b, NEW a, Received(p, b, a), Turn(p, b, a),
         lost' = 0, since[p] >= SendTime, NEW r \in Program, Runs(r)
  PROVE  Waiting(r, p)'
<1>1. b[r] \in Seq(Program) /\ inbox'[r] = Append(b[r], p)
  BY TurnReaches DEF Received
<1>2. Len(inbox'[r]) = Len(b[r]) + 1 /\ inbox'[r][Len(b[r]) + 1] = p /\ Len(b[r]) \in Nat
  BY <1>1
<1>3. Len(b[r]) + 1 \in 1 .. Len(inbox'[r])
  BY <1>2
<1> QED
  BY <1>2, <1>3 DEF Waiting

(* The list after a turn of p, program by program.                           *)
LEMMA TurnList ==
  ASSUME TypeOK, NEW p \in Program, NEW b, NEW a, Received(p, b, a), Turn(p, b, a)
  PROVE  /\ \A r \in Program \ {p} : age'[r] = age[r] /\ state'[r] = state[r]
                                      /\ since'[r] = since[r] /\ waited'[r] = waited[r]
         /\ \A q \in Program : age'[p][q] = IF a[q] >= AliveTime THEN NotListed ELSE a[q]
         /\ state'[p] = "up" /\ waited'[p] = 0 /\ interrupted' = interrupted
         /\ since[p] < SendTime => since'[p] = since[p]
BY TimesAssumption DEF Turn, Cleaned, PrevSet, TypeOK

LEMMA TurnInv ==
  ASSUME Inv, NEW p \in Program, NEW b, NEW a, Received(p, b, a), Turn(p, b, a), Runs(p)
  PROVE  Inv'
<1>1. TypeOK /\ Known /\ Fresh /\ Beating
  BY DEF Inv
<1>2. TypeOK'
  BY <1>1, TurnType DEF Received
<1>3. \A r \in Program : (state'[r] = "new" <=> state[r] = "new") /\ (Runs(r)' <=> Runs(r))
  BY <1>1, TurnList DEF Runs
<1>4. \A q \in Program : Listed(p, q)' => a[q] # NotListed /\ age'[p][q] = a[q]
  BY <1>1, TurnList DEF Listed
<1>5. Known'
  <2> SUFFICES ASSUME NEW r \in Program, NEW q \in Program, Listed(r, q)' \/ Waiting(r, q)'
               PROVE  state'[r] # "new" /\ state'[q] # "new"
    BY DEF Known
  <2>1. CASE Waiting(r, q)'
    <3>1. Waiting(r, q) \/ (q = p /\ Runs(r))
      BY <1>1, <2>1, TurnInboxes
    <3> QED
      BY <1>1, <1>3, <3>1 DEF Known, Runs
  <2>2. CASE Listed(r, q)' /\ r # p
    <3>1. Listed(r, q)
      BY <1>1, <2>2, TurnList DEF Listed
    <3> QED
      BY <1>1, <1>3, <3>1 DEF Known
  <2>3. CASE Listed(r, q)' /\ r = p
    <3>1. Listed(p, q) \/ Waiting(p, q)
      BY <1>4, <2>3 DEF Received, Listed
    <3> QED
      BY <1>1, <1>3, <2>3, <3>1 DEF Known
  <2> QED
    BY <2>1, <2>2, <2>3
<1>6. Fresh'
  <2> SUFFICES ASSUME interrupted' = 0, NEW r \in Program, NEW q \in Program
               PROVE  state'[r] # "stuck"
                      /\ (state'[r] = "up" => age'[r][q] < AliveTime + waited'[r])
    BY DEF Fresh
  <2>1. interrupted = 0
    BY <1>1, TurnList
  <2>2. CASE r # p
    BY <1>1, <2>1, <2>2, TurnList DEF Fresh
  <2>3. CASE r = p
    <3>1. a[q] \in NotListed .. AliveTime + WaitTime
      BY DEF Received
    <3> QED
      BY <1>1, <2>3, <3>1, TurnList, TimesAssumption DEF NotListed
  <2> QED
    BY <2>2, <2>3
<1>7. Beating'
  <2> SUFFICES ASSUME Flawless', NEW r \in Program, NEW q \in Program,
                      Runs(r)', Runs(q)', Listed(r, q)'
               PROVE  Heartbeat(r, q)'
    BY DEF Beating
  <2>1. Flawless /\ Runs(r) /\ Runs(q) /\ lost' = 0
    <3>1. lost' = 0 /\ interrupted' = 0
      BY DEF Flawless
    <3>2. lost = 0
      BY <1>1, <3>1, TurnReaches DEF Received
    <3> QED
      BY <1>1, <1>3, <3>1, <3>2, TurnList DEF Flawless
  <2>2. since[q] \in 0 .. SendTime /\ waited[q] \in 0 .. WaitTime
        /\ age[r][q] \in NotListed .. AliveTime + WaitTime
    BY <1>1 DEF TypeOK
  <2>3. Listed(r, q) => Heartbeat(r, q)
    BY <1>1, <2>1 DEF Beating
  <2>4. CASE age'[r][q] = age[r][q] /\ (q = p => since[p] < SendTime)
             /\ (~Waiting(r, q)' => ~Waiting(r, q))
    <3>1. Heartbeat(r, q)
      BY <2>3, <2>4 DEF Listed
    <3>2. q # p => since'[q] = since[q] /\ waited'[q] = waited[q]
      BY <1>1, TurnList
    <3>3. q = p => since'[q] = since[q] /\ waited'[q] = 0
      BY <1>1, <2>4, TurnList
    <3> QED
      BY <2>2, <2>4, <3>1, <3>2, <3>3, TimesAssumption DEF Heartbeat, NotListed
  <2>5. CASE age'[r][q] = 0
    <3>1. since'[q] \in 0 .. SendTime /\ waited'[q] \in 0 .. WaitTime
      BY <1>2 DEF TypeOK
    <3> QED
      BY <2>5, <3>1, TimesAssumption DEF Heartbeat
  <2>6. CASE q = p /\ ~(since[p] < SendTime) /\ age'[r][q] = age[r][q]
    <3>1. Waiting(r, q)'
      BY <1>1, <2>1, <2>2, <2>6, TurnSends, TimesAssumption
    <3>2. Heartbeat(r, q)
      BY <2>3, <2>6 DEF Listed
    <3> QED
      BY <2>6, <3>1, <3>2 DEF Heartbeat
  <2>7. (\E i \in 1 .. Len(b[r]) : b[r][i] = q) => Waiting(r, q)'
    BY <1>1, TurnInboxes
  <2>8. CASE r # p
    <3>1. age'[r][q] = age[r][q]
      BY <1>1, <2>8, TurnList
    <3>2. Waiting(r, q) => Waiting(r, q)'
      <4>1. b[r] = inbox[r]
        BY <2>8 DEF Received
      <4> QED
        BY <2>7, <4>1 DEF Waiting
    <3> QED
      BY <2>4, <2>6, <3>1, <3>2
  <2>9. CASE r = p
    <3>1. age'[p][q] = a[q]
      BY <1>4, <2>9
    <3>2. CASE a[q] = 0
      BY <2>5, <2>9, <3>1, <3>2
    <3>3. CASE a[q] # 0
      <4>1. age'[r][q] = age[r][q]
        BY <2>9, <3>1, <3>3 DEF Received
      <4>2. Waiting(r, q) => Waiting(r, q)'
        BY <2>9, <2>7, <3>3 DEF Received
      <4> QED
        BY <2>4, <2>6, <4>1, <4>2
    <3> QED
      BY <3>2, <3>3
  <2> QED
    BY <2>8, <2>9
<1> QED
  BY <1>2, <1>5, <1>6, <1>7 DEF Inv

-----------------------------------------------------------------------------
LEMMA TickInv ==
  ASSUME Inv, Tick
  PROVE  Inv'
<1>1. TypeOK /\ Known /\ Fresh /\ Beating
  BY DEF Inv
<1>2. \A p \in Program : Runs(p) => inbox[p] = << >>
  BY DEF Tick, Busy
<1>3. \A p \in Program : state[p] = "up" => waited[p] # WaitTime
  BY DEF Tick, Busy, WaitIsOver
<1>4. state' = state /\ inbox' = inbox /\ lost' = lost /\ interrupted' = interrupted
  BY DEF Tick
<1>5. \A p \in Program :
        /\ waited'[p] = IF state[p] = "up" THEN waited[p] + 1 ELSE waited[p]
        /\ since'[p] = IF Runs(p) /\ since[p] < SendTime THEN since[p] + 1 ELSE since[p]
        /\ \A q \in Program :
             age'[p][q] = IF age[p][q] = NotListed \/ age[p][q] = AliveTime + WaitTime
                          THEN age[p][q] ELSE age[p][q] + 1
  BY DEF Tick
<1>6. \A p, q \in Program : /\ since[p] \in 0 .. SendTime /\ waited[p] \in 0 .. WaitTime
                            /\ age[p][q] \in NotListed .. AliveTime + WaitTime
  BY <1>1 DEF TypeOK
<1>7. TypeOK'
  <2>1. waited' \in [Program -> 0 .. WaitTime]
    <3>1. \A p \in Program :
            (IF state[p] = "up" THEN waited[p] + 1 ELSE waited[p]) \in 0 .. WaitTime
      BY <1>3, <1>6, TimesAssumption
    <3> QED
      BY <3>1 DEF Tick
  <2>2. since' \in [Program -> 0 .. SendTime]
    <3>1. \A p \in Program :
            (IF Runs(p) /\ since[p] < SendTime THEN since[p] + 1 ELSE since[p]) \in 0 .. SendTime
      BY <1>6, TimesAssumption
    <3> QED
      BY <3>1 DEF Tick
  <2>3. age' \in [Program -> [Program -> NotListed .. AliveTime + WaitTime]]
    <3>1. \A p, q \in Program :
            (IF age[p][q] = NotListed \/ age[p][q] = AliveTime + WaitTime
             THEN age[p][q] ELSE age[p][q] + 1) \in NotListed .. AliveTime + WaitTime
      BY <1>6, TimesAssumption DEF NotListed
    <3> QED
      BY <3>1 DEF Tick
  <2> QED
    BY <1>1, <1>4, <2>1, <2>2, <2>3 DEF TypeOK
<1>8. \A p, q \in Program : (Listed(p, q)' <=> Listed(p, q)) /\ (Waiting(p, q)' <=> Waiting(p, q))
  BY <1>4, <1>5, <1>6, TimesAssumption DEF Listed, Waiting, NotListed
<1>9. Known'
  BY <1>1, <1>4, <1>8 DEF Known
<1>10. Fresh'
  <2> SUFFICES ASSUME interrupted = 0, NEW p \in Program, NEW q \in Program
               PROVE  state[p] # "stuck"
                      /\ (state[p] = "up" => age'[p][q] < AliveTime + waited'[p])
    BY <1>4 DEF Fresh
  <2>1. state[p] # "stuck" /\ (state[p] = "up" => age[p][q] < AliveTime + waited[p])
    BY <1>1 DEF Fresh
  <2> QED
    BY <1>5, <1>6, <2>1, TimesAssumption DEF NotListed
<1>11. Beating'
  <2> SUFFICES ASSUME Flawless, NEW p \in Program, NEW q \in Program,
                      Runs(p), Runs(q), Listed(p, q)
               PROVE  Heartbeat(p, q)'
    BY <1>4, <1>8 DEF Beating, Flawless, Runs
  <2>1. Heartbeat(p, q) /\ ~Waiting(p, q)
    BY <1>1, <1>2 DEF Beating, Waiting
  <2>2. state[q] = "up"
    BY <1>1 DEF Fresh, Flawless, Runs
  <2>3. age'[p][q] <= age[p][q] + 1 /\ waited'[q] = waited[q] + 1
        /\ since'[q] = IF since[q] < SendTime THEN since[q] + 1 ELSE since[q]
    BY <1>5, <1>6, <2>2, TimesAssumption DEF NotListed
  <2>4. waited[q] < WaitTime /\ age'[p][q] \in Int
    BY <1>3, <1>6, <1>5, <2>2, TimesAssumption DEF NotListed
  <2>5. age[p][q] < SendTime + waited[q] /\ (since[q] < SendTime => age[p][q] <= since[q])
    BY <2>1 DEF Heartbeat
  <2>6. age'[p][q] < SendTime + waited'[q] /\ age'[p][q] < SendTime + WaitTime
        /\ (since'[q] < SendTime => age'[p][q] <= since'[q])
    BY <1>6, <2>3, <2>4, <2>5, TimesAssumption DEF NotListed
  <2> QED
    BY <2>6 DEF Heartbeat
<1> QED
  BY <1>7, <1>9, <1>10, <1>11 DEF Inv

LEMMA InterruptInv ==
  ASSUME Inv, NEW p \in Program, Interrupt(p)
  PROVE  Inv'
<1>1. TypeOK'
  BY TimesAssumption DEF Inv, TypeOK, Interrupt
<1>2. interrupted' # 0
  BY DEF Inv, TypeOK, Interrupt
<1>3. Known'
  <2>1. \A q \in Program : (state'[q] = "new") <=> (state[q] = "new")
    BY DEF Inv, TypeOK, Interrupt
  <2>2. \A q, r \in Program : (Listed(q, r)' <=> Listed(q, r)) /\ (Waiting(q, r)' <=> Waiting(q, r))
    BY DEF Interrupt, Listed, Waiting
  <2> QED
    BY <2>1, <2>2 DEF Inv, Known
<1> QED
  BY <1>1, <1>2, <1>3 DEF Inv, Fresh, Beating, Flawless

LEMMA StartInv ==
  ASSUME Inv, NEW p \in Program, Start(p)
  PROVE  Inv'
<1>1. TypeOK /\ Known /\ Fresh /\ Beating
  BY DEF Inv
<1>2. TypeOK'
  BY <1>1 DEF TypeOK, Start
<1>3. \A q \in Program : state'[q] = IF q = p THEN "up" ELSE state[q]
  BY <1>1 DEF TypeOK, Start
<1>4. \A q, r \in Program : (Listed(q, r)' <=> Listed(q, r)) /\ (Waiting(q, r)' <=> Waiting(q, r))
                            /\ (Heartbeat(q, r)' <=> Heartbeat(q, r))
  BY DEF Start, Listed, Waiting, Heartbeat
<1>5. Known'
  BY <1>1, <1>3, <1>4 DEF Known
<1>6. \A q \in Program : ~Listed(p, q) /\ ~Listed(q, p)
  BY <1>1 DEF Known, Start
<1>7. Fresh'
  <2>1. \A q \in Program : age[p][q] = NotListed /\ waited[p] \in 0 .. WaitTime
    BY <1>1, <1>6 DEF Listed, TypeOK
  <2>2. \A q \in Program : age[p][q] < AliveTime + waited[p]
    BY <2>1, TimesAssumption DEF NotListed
  <2>3. age' = age /\ waited' = waited /\ interrupted' = interrupted
    BY DEF Start
  <2> QED
    BY <1>1, <1>3, <2>2, <2>3 DEF Fresh
<1>8. Beating'
  <2>1. \A q \in Program : q # p => (Runs(q)' <=> Runs(q))
    BY <1>3 DEF Runs
  <2>2. Flawless' <=> Flawless
    BY DEF Flawless, Start
  <2> QED
    BY <1>1, <1>4, <1>6, <2>1, <2>2 DEF Beating
<1> QED
  BY <1>2, <1>5, <1>7, <1>8 DEF Inv

LEMMA StopInv ==
  ASSUME Inv, NEW p \in Program, Stop(p)
  PROVE  Inv'
<1>1. TypeOK /\ Known /\ Fresh /\ Beating
  BY DEF Inv
<1>2. TypeOK'
  <2>1. [q \in Program |-> NotListed] \in [Program -> NotListed .. AliveTime + WaitTime]
    BY TimesAssumption DEF NotListed
  <2> QED
    BY <1>1, <2>1 DEF TypeOK, Stop
<1>3. \A q \in Program : state'[q] = IF q = p THEN "down" ELSE state[q]
  BY <1>1 DEF TypeOK, Stop
<1>4. \A q \in Program : ~Listed(p, q)' /\ ~Waiting(p, q)'
  BY <1>1 DEF TypeOK, Stop, Listed, Waiting
<1>5. \A q \in Program \ {p} : age'[q] = age[q] /\ inbox'[q] = inbox[q]
  BY <1>1 DEF TypeOK, Stop
<1>6. \A q \in Program \ {p} : \A r \in Program :
        (Listed(q, r)' <=> Listed(q, r)) /\ (Waiting(q, r)' <=> Waiting(q, r))
  BY <1>5 DEF Listed, Waiting
<1>7. Known'
  BY <1>1, <1>3, <1>4, <1>6 DEF Known, Stop, Runs
<1>8. Fresh'
  BY <1>1, <1>3, <1>5 DEF Fresh, Stop
<1>9. Beating'
  <2>1. \A q \in Program : Runs(q)' => q # p /\ Runs(q)
    BY <1>3 DEF Runs
  <2>2. Flawless' <=> Flawless
    BY DEF Flawless, Stop
  <2>3. \A q \in Program \ {p} : \A r \in Program : Heartbeat(q, r)' <=> Heartbeat(q, r)
    BY <1>5, <1>6 DEF Heartbeat, Stop
  <2> QED
    BY <1>1, <1>6, <2>1, <2>2, <2>3 DEF Beating
<1> QED
  BY <1>2, <1>7, <1>8, <1>9 DEF Inv

LEMMA NextInv == Inv /\ [Next]_vars => Inv'
<1> SUFFICES ASSUME Inv, [Next]_vars PROVE Inv'
  OBVIOUS
<1>1. CASE UNCHANGED vars
  BY <1>1 DEF vars, Inv, TypeOK, Known, Fresh, Beating, Flawless, Heartbeat, Listed, Waiting, Runs
<1>2. CASE Tick
  BY <1>2, TickInv
<1>3. ASSUME NEW p \in Program, Receive(p) PROVE Inv'
  <2> DEFINE b == [inbox EXCEPT ![p] = Tail(@)]
             a == HeardOf(age[p], Head(inbox[p]))
  <2>1. Received(p, b, a) /\ Turn(p, b, a) /\ Runs(p)
    BY <1>3, ReceiveTurns DEF Inv
  <2> HIDE DEF a, b
  <2> QED
    BY <2>1, TurnInv
<1>4. ASSUME NEW p \in Program, Timeout(p) PROVE Inv'
  <2>1. Received(p, inbox, age[p]) /\ Turn(p, inbox, age[p]) /\ Runs(p)
    BY <1>4, TimeoutTurns DEF Inv
  <2> QED
    BY <2>1, TurnInv
<1>5. ASSUME NEW p \in Program, Interrupt(p) \/ Start(p) \/ Stop(p) PROVE Inv'
  BY <1>5, InterruptInv, StartInv, StopInv
<1> QED
  BY <1>1, <1>2, <1>3, <1>4, <1>5 DEF Next

-----------------------------------------------------------------------------
(* The variables stay in range; above all no wait is longer than WaitTime.   *)
THEOREM TypeCorrect == Spec => []TypeOK
<1>1. Inv => TypeOK
  BY DEF Inv
<1> QED
  BY <1>1, InitInv, NextInv, PTL DEF Spec

(* cleanup and the time limit of poll keep the list of every program whose   *)
(* wait was not interrupted free of entries older than both times together.  *)
THEOREM StaleTheorem == Spec => []NoneStale
<1>1. Inv => NoneStale
  <2> SUFFICES ASSUME Inv, NEW p \in Program, NEW q \in Program, state[p] = "up", interrupted = 0
               PROVE  age[p][q] < AliveTime + WaitTime
    BY DEF NoneStale
  <2>1. age[p][q] < AliveTime + waited[p] /\ waited[p] \in 0 .. WaitTime
        /\ age[p][q] \in NotListed .. AliveTime + WaitTime
    BY DEF Inv, TypeOK, Fresh
  <2> QED
    BY <2>1, TimesAssumption DEF NotListed
<1> QED
  BY <1>1, InitInv, NextInv, PTL DEF Spec

(* However many programs send and in whatever order, the turns of each are   *)
(* close enough together that no program that runs drops out of a list.      *)
THEOREM StaysTheorem == Spec => RunningStays
<1> DEFINE Stays == \A p, q \in Program :
                      /\ Listed(p, q) /\ Runs(p)' /\ Runs(q)
                      /\ lost = 0 /\ interrupted = 0
                      => Listed(p, q)'
<1>1. Inv /\ [Next]_vars => [Stays]_vars
  <2> SUFFICES ASSUME Inv, Next, NEW p \in Program, NEW q \in Program,
                      Listed(p, q), Runs(p)', Runs(q), lost = 0, interrupted = 0
               PROVE  Listed(p, q)'
    OBVIOUS
  <2>1. TypeOK /\ Beating
    BY DEF Inv
  <2>2. ASSUME NEW r \in Program, NEW b, NEW a, Received(r, b, a), Turn(r, b, a), Runs(r)
        PROVE  Listed(p, q)'
    <3>1. CASE r # p
      BY <2>1, <2>2, <3>1, TurnList DEF Listed
    <3>2. CASE r = p
      <4>1. age[p][q] < SendTime + WaitTime
        BY <2>1, <2>2, <3>2 DEF Beating, Flawless, Heartbeat
      <4>2. age[p][q] < AliveTime /\ 0 < AliveTime /\ age[p][q] # NotListed
        <5>1. age[p][q] \in NotListed .. AliveTime + WaitTime
          BY <2>1 DEF TypeOK
        <5> QED
          BY <4>1, <5>1, TimesAssumption DEF NotListed, Listed
      <4>3. a[q] = age[p][q] \/ a[q] = 0
        BY <2>2, <3>2 DEF Received
      <4>4. age'[p][q] = IF a[q] >= AliveTime THEN NotListed ELSE a[q]
        BY <2>1, <2>2, <3>2, TurnList
      <4>5. a[q] \in Int /\ AliveTime \in Int
        BY <2>2, TimesAssumption DEF Received, NotListed
      <4> QED
        BY <4>2, <4>3, <4>4, <4>5 DEF Listed, NotListed
    <3> QED
      BY <3>1, <3>2
  <2>3. ASSUME NEW r \in Program, Receive(r) PROVE Listed(p, q)'
    BY <2>1, <2>2, <2>3, ReceiveTurns
  <2>4. ASSUME NEW r \in Program, Timeout(r) PROVE Listed(p, q)'
    BY <2>1, <2>2, <2>4, TimeoutTurns
  <2>5. ASSUME NEW r \in Program, Interrupt(r) \/ Start(r) PROVE Listed(p, q)'
    BY <2>5 DEF Interrupt, Start, Listed
  <2>6. ASSUME NEW r \in Program, Stop(r) PROVE Listed(p, q)'
    <3>1. r # p
      BY <2>1, <2>6 DEF Stop, Runs, TypeOK
    <3> QED
      BY <2>1, <2>6, <3>1 DEF Stop, Listed, TypeOK
  <2>7. CASE Tick
    <3>1. age[p][q] \in NotListed .. AliveTime + WaitTime
      BY <2>1 DEF TypeOK
    <3> QED
      BY <2>7, <3>1, TimesAssumption DEF Tick, Listed, NotListed
  <2> QED
    BY <2>3, <2>4, <2>5, <2>6, <2>7 DEF Next
<1> QED
  BY <1>1, InitInv, NextInv, PTL DEF Spec, RunningStays
=============================================================================
