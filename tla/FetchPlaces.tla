----------------------------- MODULE FetchPlaces -----------------------------
(***************************************************************************)
(* The goroutines of lab3: main asks for the weather and the places of a   *)
(* location at the same time, the places goroutine starts one goroutine    *)
(* for each place's description, and a last one waits for all of them on a *)
(* sync.WaitGroup and closes the two channels that main receives from.     *)
(* The channels are unbuffered: sending and receiving are one step.        *)
(***************************************************************************)
EXTENDS Integers, FiniteSets

CONSTANT MaxPlaces   \* bound: places in an answer (the request says limit=3)

ASSUME PlacesAssumption == MaxPlaces \in Nat

VARIABLES
  main,     \* what the main goroutine waits for, or its end
  g,        \* goroutine -> where it is
  wg,       \* the counter of the WaitGroup
  closed    \* how many of the two channels are closed, weatherChan first

vars == <<main, g, wg, closed>>

Weather == -1
Places  == 0
Descr   == 1 .. MaxPlaces   \* the i-th description's goroutine

Goroutine == {Weather, Places} \cup Descr

(* returning: only the deferred wg.Done is left to do. *)
Stage == {"unborn", "asking", "sending", "returning", "ended"}

Running == {i \in Goroutine : g[i] \in {"asking", "sending", "returning"}}

-----------------------------------------------------------------------------
(* Mutant: the failure returns before wg.Done is deferred. *)
FailUncounted(i) ==
  /\ g[i] = "asking"
  /\ g' = [g EXCEPT ![i] = "ended"]
  /\ UNCHANGED <<main, wg, closed>>

(* The HTTP request fails. *)
Fail(i) ==
  /\ g[i] = "asking"
  /\ g' = [g EXCEPT ![i] = "returning"]
  /\ UNCHANGED <<main, wg, closed>>

GotWeather ==
  /\ g[Weather] = "asking"
  /\ g' = [g EXCEPT ![Weather] = "sending"]
  /\ UNCHANGED <<main, wg, closed>>

(* wg.Add(len(places)) *)
Added(n) == n

(* n places come: their goroutines are counted, then started, and the list  *)
(* is offered to main without waiting for them.                             *)
GotPlaces ==
  /\ g[Places] = "asking"
  /\ \E n \in 0 .. MaxPlaces :
       /\ wg' = wg + Added(n)
       /\ g' = [i \in Goroutine |->
                  IF i = Places THEN "sending"
                  ELSE IF i \in 1 .. n THEN "asking" ELSE g[i]]
  /\ UNCHANGED <<main, closed>>

(* A description is stored in its place; main may have printed it by then.  *)
GotDescription(i) ==
  /\ i \in Descr /\ g[i] = "asking"
  /\ g' = [g EXCEPT ![i] = "returning"]
  /\ UNCHANGED <<main, wg, closed>>

Done(i) ==
  /\ g[i] = "returning"
  /\ g' = [g EXCEPT ![i] = "ended"]
  /\ wg' = wg - 1
  /\ UNCHANGED <<main, closed>>

-----------------------------------------------------------------------------
(* weather := <-weatherChan: from its sender, or nil once it is closed. *)
ReceiveWeather ==
  /\ main = "weather" /\ g[Weather] = "sending"
  /\ main' = "places"
  /\ g' = [g EXCEPT ![Weather] = "returning"]
  /\ UNCHANGED <<wg, closed>>

ReceiveNoWeather ==
  /\ main = "weather" /\ closed >= 1
  /\ main' = "places without weather"
  /\ UNCHANGED <<g, wg, closed>>

(* places := <-placesChan, and the output: it dereferences the weather. *)
ReceivePlaces ==
  /\ main \in {"places", "places without weather"}
  /\ \/ /\ g[Places] = "sending"
        /\ g' = [g EXCEPT ![Places] = "returning"]
     \/ /\ closed = 2
        /\ UNCHANGED g
  /\ main' = IF main = "places" THEN "printed" ELSE "panicked"
  /\ UNCHANGED <<wg, closed>>

(* Mutant: the channels are closed when only the weather is still asked for. *)
AlmostNone(n) == n <= 1

(* wg.Wait() *)
NoneLeft(n) == n = 0

(* wg.Wait, then one channel is closed after the other. *)
Close ==
  /\ NoneLeft(wg) /\ closed < 2
  /\ closed' = closed + 1
  /\ UNCHANGED <<main, g, wg>>

-----------------------------------------------------------------------------
Init ==
  /\ main = "weather"
  /\ g = [i \in Goroutine |-> IF i \in Descr THEN "unborn" ELSE "asking"]
  /\ wg = 2
  /\ closed = 0

(* The program ends with main, whatever still runs. *)
Alive == main \notin {"printed", "panicked"}

Next ==
  /\ Alive
  /\ \/ \E i \in Goroutine : Fail(i) \/ GotDescription(i) \/ Done(i)
     \/ GotWeather \/ GotPlaces
     \/ ReceiveWeather \/ ReceiveNoWeather \/ ReceivePlaces
     \/ Close

Spec == Init /\ [][Next]_vars

(* Requests are answered or fail (http.Get returns), and goroutines run. *)
LiveSpec == Spec /\ WF_vars(Next)

-----------------------------------------------------------------------------
(* Properties *)

(* The places of main and its goroutines; and the counter of a WaitGroup    *)
(* panics when it gets below zero.                                          *)
TypeOK ==
  /\ main \in {"weather", "places", "places without weather", "printed", "panicked"}
  /\ g \in [Goroutine -> Stage]
  /\ wg \in Nat
  /\ closed \in 0 .. 2

(* The counter is the number of goroutines still to come to their end: the  *)
(* calls of Add and Done balance, the Add inside a goroutine included.      *)
CountsRunning == wg = Cardinality(Running)

(* Nobody sends, or ever will, on a closed channel, which would panic: the  *)
(* Add made while others finish cannot let the waiting goroutine go early.  *)
NoSendOnClosed == closed > 0 => Running = {}

(* A program whose weather request is answered prints: neither the places   *)
(* nor any description can hold it up.                                      *)
WeatherIsPrinted == (g[Weather] = "sending") ~> (main = "printed")

(* The nil weather is only dereferenced when no list of places came either; *)
(* one that did leaves main waiting for the weather for ever instead.       *)
PanicsWithNothing ==
  main \in {"places without weather", "panicked"} =>
    \A i \in Descr : g[i] = "unborn"

=============================================================================
