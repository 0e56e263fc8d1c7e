-------------------------- MODULE FetchPlacesProofs --------------------------
(***************************************************************************)
(* The WaitGroup of FetchPlaces counts what runs, for any number of places,*)
(* and so no channel is closed under a goroutine that may still send.      *)
(***************************************************************************)
EXTENDS FetchPlaces, FiniteSetTheorems, TLAPS

(* No description is asked for before there is a list of places. *)
Unborn == \A i \in Descr : g[i] = "unborn"

(* The inductive invariant.  Who still asks for the places is running, so   *)
(* the counter is not zero when it adds to it; once a channel is closed     *)
(* nothing runs that could start anything; and a list of places that came   *)
(* is offered until main takes it.                                          *)
Inv ==
  /\ TypeOK
  /\ CountsRunning
  /\ NoSendOnClosed
  /\ g[Places] = "asking" => Unborn
  /\ main = "weather" /\ g[Places] # "sending" => Unborn
  /\ main \in {"places without weather", "panicked"} => closed > 0 /\ Unborn

(* There are finitely many goroutines, so their number is one. *)
LEMMA GoroutinesFinite ==
  /\ IsFiniteSet(Running)
  /\ IsFiniteSet(Running')
  /\ Cardinality(Running) \in Nat
<1>1. IsFiniteSet(Descr)
  BY FS_Interval, PlacesAssumption DEF Descr
<1>2. IsFiniteSet({Weather, Places})
  <2>1. IsFiniteSet({Weather})
    BY FS_Singleton
  <2>2. {Weather, Places} = {Weather} \cup {Places}
    OBVIOUS
  <2> QED
    BY <2>1, <2>2, FS_AddElement
<1>3. IsFiniteSet(Goroutine)
  BY <1>1, <1>2, FS_Union DEF Goroutine
<1>4. Running \in SUBSET Goroutine /\ Running' \in SUBSET Goroutine
  BY DEF Running
<1>5. IsFiniteSet(Running) /\ IsFiniteSet(Running')
  BY <1>3, <1>4, FS_Subset
<1> QED
  BY <1>5, FS_CardinalityType

(* The goroutines are told apart. *)
LEMMA Names ==
  /\ Weather \in Goroutine /\ Places \in Goroutine /\ Descr \subseteq Goroutine
  /\ Weather # Places /\ Weather \notin Descr /\ Places \notin Descr
  /\ \A n \in 0 .. MaxPlaces : n \in Nat /\ 1 .. n \subseteq Descr
BY PlacesAssumption DEF Weather, Places, Descr, Goroutine

(* The program starts with two goroutines and a counter of two. *)
LEMMA InitInv == Init => Inv
<1> SUFFICES ASSUME Init PROVE Inv
  OBVIOUS
<1> USE DEF Weather, Places, Descr, Goroutine, Stage
<1>1. TypeOK
  BY PlacesAssumption DEF Init, TypeOK
<1>2. Running = {Weather} \cup {Places}
  BY PlacesAssumption DEF Init, Running
<1>3. IsFiniteSet({Weather}) /\ Cardinality({Weather}) = 1
  BY FS_Singleton
<1>4. Cardinality({Weather} \cup {Places}) = 2
  BY <1>3, FS_AddElement
<1>5. CountsRunning
  BY <1>2, <1>4 DEF Init, CountsRunning
<1>6. NoSendOnClosed /\ Unborn
  BY PlacesAssumption DEF Init, NoSendOnClosed, Unborn
<1>7. main = "weather"
  BY DEF Init
<1> QED
  BY <1>1, <1>5, <1>6, <1>7 DEF Inv

(* A step that moves one goroutine and leaves it running keeps the count. *)
LEMMA StillRunning ==
  ASSUME g \in [Goroutine -> Stage], NEW i \in Goroutine,
         NEW s \in {"asking", "sending", "returning"},
         g[i] \in {"asking", "sending", "returning"},
         g' = [g EXCEPT ![i] = s]
  PROVE  Running' = Running
BY DEF Running

(* Every step keeps the invariant. *)
LEMMA NextInv == Inv /\ [Next]_vars => Inv'
<1> SUFFICES ASSUME Inv, [Next]_vars PROVE Inv'
  OBVIOUS
<1> USE Names
<1>0. g \in [Goroutine -> Stage]
  BY DEF Inv, TypeOK
<1>n. wg \in Nat /\ closed \in 0 .. 2
  BY DEF Inv, TypeOK
<1>m. main \in {"weather", "places", "places without weather", "printed", "panicked"}
  BY DEF Inv, TypeOK
<1>fin. IsFiniteSet(Running) /\ IsFiniteSet(Running') /\ Cardinality(Running) \in Nat
  BY GoroutinesFinite
<1>1. CASE UNCHANGED vars
  <2>1. Running' = Running
    BY <1>1 DEF vars, Running
  <2> QED
    BY <1>1, <2>1 DEF vars, Inv, TypeOK, CountsRunning, NoSendOnClosed, Unborn
<1>2. ASSUME NEW i \in Goroutine, Fail(i) PROVE Inv'
  <2>1. Running' = Running
    BY <1>0, <1>2, StillRunning DEF Fail
  <2>2. TypeOK'
    BY <1>0, <1>n, <1>m, <1>2 DEF Fail, TypeOK, Stage
  <2>3. Unborn => i \notin Descr /\ Unborn'
    BY <1>0, <1>2 DEF Fail, Unborn
  <2>4. i \in Descr => ~Unborn
    BY <2>3
  <2>5. g[Places] = "asking" => Unborn
    BY DEF Inv
  <2>6. g'[Places] = "asking" => g[Places] = "asking"
    BY <1>0, <1>2 DEF Fail
  <2>7. g'[Places] # "sending" => g[Places] # "sending"
    BY <1>0, <1>2 DEF Fail
  <2>8. UNCHANGED <<main, wg, closed>>
    BY <1>2 DEF Fail
  <2> QED
    BY <2>1, <2>2, <2>3, <2>5, <2>6, <2>7, <2>8 DEF Inv, CountsRunning, NoSendOnClosed
<1>3. CASE GotWeather
  <2>1. Running' = Running
    BY <1>0, <1>3, StillRunning DEF GotWeather
  <2>2. TypeOK'
    BY <1>0, <1>n, <1>m, <1>3 DEF GotWeather, TypeOK, Stage
  <2>3. (Unborn => Unborn') /\ g'[Places] = g[Places]
    BY <1>0, <1>3 DEF GotWeather, Unborn
  <2>4. UNCHANGED <<main, wg, closed>>
    BY <1>3 DEF GotWeather
  <2> QED
    BY <2>1, <2>2, <2>3, <2>4 DEF Inv, CountsRunning, NoSendOnClosed
<1>4. CASE GotPlaces
  <2> PICK n \in 0 .. MaxPlaces :
        /\ wg' = wg + Added(n)
        /\ g' = [i \in Goroutine |->
                   IF i = Places THEN "sending"
                   ELSE IF i \in 1 .. n THEN "asking" ELSE g[i]]
    BY <1>4 DEF GotPlaces
  <2>0. g[Places] = "asking" /\ UNCHANGED <<main, closed>>
    BY <1>4 DEF GotPlaces
  <2>1. Unborn
    BY <2>0 DEF Inv
  <2>a. g' \in [Goroutine -> Stage]
    BY <1>0 DEF Stage
  <2>b. wg' \in Nat
    BY <1>n DEF Added
  <2>2. TypeOK'
    BY <1>n, <1>m, <2>0, <2>a, <2>b DEF TypeOK
  <2>3. Running' = Running \cup (1 .. n)
    BY <1>0, <2>0 DEF Running
  <2>4. Running \cap (1 .. n) = {}
    BY <2>1 DEF Running, Unborn
  <2>5. IsFiniteSet(1 .. n) /\ Cardinality(1 .. n) = n
    BY FS_Interval
  <2>6. Cardinality(Running') = Cardinality(Running) + n
    <3>1. Cardinality(Running \cup (1 .. n))
            = Cardinality(Running) + Cardinality(1 .. n) - Cardinality(Running \cap (1 .. n))
      BY <1>fin, <2>5, FS_Union
    <3>2. Cardinality(Running \cap (1 .. n)) = 0
      BY <2>4, FS_EmptySet
    <3>3. n \in Nat /\ Cardinality(Running) \in Nat
      BY <1>fin
    <3> HIDE Names
    <3> QED
      BY <2>3, <2>5, <3>1, <3>2, <3>3
  <2>7. CountsRunning'
    BY <2>6 DEF Inv, CountsRunning, Added
  <2>7a. ~(closed > 0)
    BY <2>0 DEF Inv, NoSendOnClosed, Running
  <2>8. ~(closed' > 0)
    BY <2>0, <2>7a
  <2>9. g'[Places] = "sending"
    OBVIOUS
  <2> QED
    BY <2>0, <2>2, <2>7, <2>8, <2>9 DEF Inv, NoSendOnClosed
<1>5. ASSUME NEW i \in Goroutine, GotDescription(i) PROVE Inv'
  <2>1. Running' = Running
    BY <1>0, <1>5, StillRunning DEF GotDescription
  <2>2. TypeOK'
    BY <1>0, <1>n, <1>m, <1>5 DEF GotDescription, TypeOK, Stage
  <2>3. ~Unborn /\ g'[Places] = g[Places]
    BY <1>0, <1>5 DEF GotDescription, Unborn
  <2>4. UNCHANGED <<main, wg, closed>>
    BY <1>5 DEF GotDescription
  <2> QED
    BY <2>1, <2>2, <2>3, <2>4 DEF Inv, CountsRunning, NoSendOnClosed
<1>6. ASSUME NEW i \in Goroutine, Done(i) PROVE Inv'
  <2>0. g[i] = "returning" /\ g' = [g EXCEPT ![i] = "ended"] /\ wg' = wg - 1
        /\ UNCHANGED <<main, closed>>
    BY <1>6 DEF Done
  <2>1. Running' = Running \ {i} /\ i \in Running
    BY <1>0, <2>0 DEF Running
  <2>a. g' \in [Goroutine -> Stage]
    BY <1>0, <2>0 DEF Stage
  <2>3. (Unborn => Unborn')
    BY <1>0, <2>0 DEF Unborn
  <2>4. Cardinality(Running') = Cardinality(Running) - 1 /\ Cardinality(Running') \in Nat
    <3>1. Cardinality(Running') = Cardinality(Running) - 1
      BY <1>fin, <2>1, FS_RemoveElement
    <3> QED
      BY <3>1, <1>fin, FS_CardinalityType
  <2>b. wg' \in Nat
    BY <2>0, <2>4 DEF Inv, CountsRunning
  <2>2. TypeOK'
    BY <1>n, <1>m, <2>0, <2>a, <2>b DEF TypeOK
  <2>5. CountsRunning' /\ NoSendOnClosed'
    BY <2>0, <2>1, <2>4 DEF Inv, CountsRunning, NoSendOnClosed
  <2>6. (g'[Places] = "asking" => g[Places] = "asking")
        /\ (g'[Places] # "sending" => g[Places] # "sending")
    BY <1>0, <2>0
  <2> QED
    BY <2>0, <2>2, <2>3, <2>5, <2>6 DEF Inv
<1>7. CASE ReceiveWeather
  <2>1. Running' = Running
    BY <1>0, <1>7, StillRunning DEF ReceiveWeather
  <2>2. TypeOK'
    BY <1>0, <1>n, <1>m, <1>7 DEF ReceiveWeather, TypeOK, Stage
  <2>3. (Unborn => Unborn') /\ g'[Places] = g[Places]
    BY <1>0, <1>7 DEF ReceiveWeather, Unborn
  <2>4. main' = "places" /\ UNCHANGED <<wg, closed>>
    BY <1>7 DEF ReceiveWeather
  <2> QED
    BY <2>1, <2>2, <2>3, <2>4 DEF Inv, CountsRunning, NoSendOnClosed
<1>8. CASE ReceiveNoWeather
  <2>0. closed >= 1
    BY <1>8 DEF ReceiveNoWeather
  <2>a. closed > 0
    BY <1>n, <2>0
  <2>b. main = "weather" /\ main' = "places without weather" /\ UNCHANGED <<g, wg, closed>>
    BY <1>8 DEF ReceiveNoWeather
  <2>1. closed > 0 /\ main = "weather" /\ main' = "places without weather"
        /\ UNCHANGED <<g, wg, closed>>
    BY <2>a, <2>b
  <2>2. g[Places] # "sending"
    BY <2>1 DEF Inv, NoSendOnClosed, Running
  <2>3. Unborn
    BY <2>1, <2>2 DEF Inv
  <2>4. Running' = Running /\ Unborn'
    BY <2>1, <2>3 DEF Running, Unborn
  <2> QED
    BY <2>1, <2>4 DEF Inv, TypeOK, CountsRunning, NoSendOnClosed
<1>9. CASE ReceivePlaces
  <2>0. UNCHANGED <<wg, closed>> /\ main' \in {"printed", "panicked"}
        /\ (main' = "panicked" => main = "places without weather")
    BY <1>9 DEF ReceivePlaces
  <2>1. Running' = Running
    BY <1>0, <1>9, StillRunning DEF ReceivePlaces, Running
  <2>2. TypeOK'
    BY <1>0, <1>n, <1>m, <1>9, <2>0 DEF ReceivePlaces, TypeOK, Stage
  <2>3. (Unborn => Unborn') /\ (g'[Places] = "asking" => g[Places] = "asking")
    BY <1>0, <1>9 DEF ReceivePlaces, Unborn
  <2> QED
    BY <2>0, <2>1, <2>2, <2>3 DEF Inv, CountsRunning, NoSendOnClosed
<1>10. CASE Close
  <2>0. wg = 0 /\ closed < 2 /\ closed' = closed + 1 /\ UNCHANGED <<main, g, wg>>
    BY <1>10 DEF Close, NoneLeft
  <2>1. Running = {}
    BY <1>fin, <2>0, FS_EmptySet DEF Inv, CountsRunning
  <2>2. Running' = Running /\ (Unborn => Unborn')
    BY <2>0 DEF Running, Unborn
  <2>4. closed' \in 0 .. 2 /\ closed' > 0
    BY <1>n, <2>0
  <2>3. TypeOK'
    BY <1>0, <1>n, <1>m, <2>0, <2>4 DEF TypeOK
  <2> QED
    BY <2>4, <2>0, <2>1, <2>2, <2>3 DEF Inv, CountsRunning, NoSendOnClosed
<1> QED
  BY <1>1, <1>2, <1>3, <1>4, <1>5, <1>6, <1>7, <1>8, <1>9, <1>10 DEF Next

(* For any number of places: the counter counts, and nobody sends on a      *)
(* channel that is closed.                                                  *)
THEOREM WaitGroupCorrect == Spec => [](CountsRunning /\ NoSendOnClosed)
<1>1. Inv => CountsRunning /\ NoSendOnClosed
  BY DEF Inv
<1> QED
  BY <1>1, InitInv, NextInv, PTL DEF Spec

(* main dereferences a nil weather only when there are no places either. *)
THEOREM PanicTheorem == Spec => []PanicsWithNothing
<1>1. Inv => PanicsWithNothing
  BY DEF Inv, PanicsWithNothing, Unborn
<1> QED
  BY <1>1, InitInv, NextInv, PTL DEF Spec

(* The types of FetchPlaces hold for any number of places. *)
THEOREM TypeCorrect == Spec => []TypeOK
<1>1. Inv => TypeOK
  BY DEF Inv
<1> QED
  BY <1>1, InitInv, NextInv, PTL DEF Spec

=============================================================================
