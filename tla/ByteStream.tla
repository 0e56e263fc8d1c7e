----------------------------- MODULE ByteStream -----------------------------
(***************************************************************************)
(* What a relay promises about one direction of a connection, whatever its *)
(* buffers and threads: from some byte on, the source's bytes reach the    *)
(* sink, each once and in order, and the sink is told of the end when it   *)
(* has all of them, or when an end of the connection is broken.  A byte is *)
(* its number in the source's stream.                                      *)
(***************************************************************************)
EXTENDS Integers

VARIABLES
  source,   \* "open", or how the source ended
  given,    \* the bytes the source has sent so far
  first,    \* the first byte to be passed on, NotOpen before there is one
  passed,   \* how many have been passed on
  told,     \* the sink has been told of the end
  broken    \* the sink can no longer be written to

vars == <<source, given, first, passed, told, broken>>

NotOpen == -1

Init ==
  /\ source = "open" /\ given = 0
  /\ first = NotOpen /\ passed = 0
  /\ told = FALSE /\ broken = FALSE

Give ==
  /\ source = "open"
  /\ given' \in Nat /\ given' > given
  /\ UNCHANGED <<source, first, passed, told, broken>>

End ==
  /\ \/ source = "open" /\ source' \in {"eof", "reset"}
     \/ source = "eof" /\ source' = "reset"
  /\ UNCHANGED <<given, first, passed, told, broken>>

Open ==
  /\ first = NotOpen
  /\ first' \in 0 .. given
  /\ UNCHANGED <<source, given, passed, told, broken>>

Pass ==
  /\ first # NotOpen /\ ~told /\ ~broken
  /\ passed' \in Nat /\ passed' > passed /\ first + passed' <= given
  /\ UNCHANGED <<source, given, first, told, broken>>

Tell ==
  /\ first # NotOpen /\ ~told
  /\ \/ source = "eof" /\ first + passed = given
     \/ source = "reset"
     \/ broken
  /\ told' = TRUE
  /\ UNCHANGED <<source, given, first, passed, broken>>

Break ==
  /\ ~broken /\ broken' = TRUE
  /\ UNCHANGED <<source, given, first, passed, told>>

Next == Give \/ End \/ Open \/ Pass \/ Tell \/ Break

Spec == Init /\ [][Next]_vars
=============================================================================
