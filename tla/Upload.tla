------------------------------- MODULE Upload -------------------------------
(***************************************************************************)
(* lab2: clients that each upload a file to a server with one thread per   *)
(* connection.  A byte of a file is its number, and files on the server's  *)
(* disk say whose byte is at which offset.  The client waits for an answer *)
(* without closing its direction; each end can be told of the other's end  *)
(* by an end of file or, if it left bytes unread, by a reset.              *)
(*                                                                         *)
(* server.cpp does not compile as committed: line 115 closes the function  *)
(* before the loop that uses its variables.  The model reads the function  *)
(* without that line.                                                      *)
(***************************************************************************)
EXTENDS Integers, Sequences, Functions

CONSTANTS
  Client,    \* the clients
  Path,      \* the names files may get on the server
  Buffer,    \* BUFFER_SIZE of both programs
  MaxSize,   \* bound: bytes in a file
  MaxTotal,  \* bound: bytes in all files
  MaxShort,  \* bound: calls of send that take less than they are given
  MaxFaults  \* bound: connections cut and clients killed

ASSUME BoundsAssumption ==
  /\ Buffer \in Nat \ {0}
  /\ MaxSize \in Nat /\ MaxTotal \in Nat /\ MaxShort \in Nat /\ MaxFaults \in Nat

VARIABLES
  size,    \* client -> its file's size
  cl,          \* client -> where it is, its position in the file, sent_sum
  conn,        \* client -> its connection
  h,           \* client -> the thread of handle_client for it
  disk,        \* path -> the file in uploads/
  alive,       \* the server runs
  shorts, faults

vars == <<size, cl, conn, h, disk, alive, shorts, faults>>

(* The three fields before the bytes.  The server only closes when they end  *)
(* early, after whichever of them: they are one item on the wire.            *)
Header == 0

NoPath == "no path"
ASSUME PathAssumption == NoPath \notin Path

Old  == "old"    \* the client of the bytes that were there before
Hole == <<Old, 0>>

Gone(c)    == cl[c].stage \in {"ok", "failed", "killed"}
Skipped(c) == cl[c].stage = "wait" /\ cl[c].sent < size[c]

-----------------------------------------------------------------------------
(* The client: connect_to_server, send_file, main.                         *)

Connect(c) ==
  /\ cl[c].stage = "start"
  /\ cl' = [cl EXCEPT ![c].stage = IF alive THEN "header" ELSE "failed"]
  /\ conn' = [conn EXCEPT ![c].open = alive]
  /\ UNCHANGED <<size, h, disk, alive, shorts, faults>>

(* send succeeds with the bytes on their way; what comes after the server   *)
(* has closed is never read.                                                *)
Send(c, items) ==
  /\ ~conn[c].reset
  /\ conn' = [conn EXCEPT ![c].up = @ \o items]

SendFails(c) ==
  /\ cl[c].stage \in {"header", "body"} /\ conn[c].reset
  /\ cl' = [cl EXCEPT ![c].stage = "failed"]
  /\ conn' = [conn EXCEPT ![c].fin = TRUE]
  /\ UNCHANGED <<size, h, disk, alive, shorts, faults>>

SendHeader(c) ==
  /\ cl[c].stage = "header" /\ Send(c, <<Header>>)
  /\ cl' = [cl EXCEPT ![c].stage = IF size[c] = 0 THEN "wait" ELSE "body"]
  /\ UNCHANGED <<size, h, disk, alive, shorts, faults>>

(* Mutant: sent_sum counts whole buffers. *)
CountsBuffer(n, k) == Buffer

Counts(n, k) == k

(* One turn of the loop: n bytes are read, k of them are sent; the ones that *)
(* a short send leaves are skipped, for the next read goes on behind them.   *)
SendBlock(c) ==
  /\ cl[c].stage = "body"
  /\ LET left == size[c] - cl[c].pos
         n    == IF left < Buffer THEN left ELSE Buffer
     IN \E k \in (IF n = 0 THEN {0} ELSE 1 .. n) :
          /\ k < n => shorts < MaxShort
          /\ shorts' = IF k < n THEN shorts + 1 ELSE shorts
          /\ Send(c, [i \in 1 .. k |-> cl[c].pos + i])
          /\ LET sum == cl[c].sent + Counts(n, k)
             IN cl' = [cl EXCEPT ![c] =
                         [stage |-> IF left < Buffer \/ sum >= size[c]
                                    THEN "wait" ELSE "body",
                          pos |-> @.pos + n, sent |-> sum]]
  /\ UNCHANGED <<size, h, disk, alive, faults>>

(* recv returns the answer, whichever it is, or 0 at the end of the stream;  *)
(* only -1 is an error.  Then the program ends.                              *)
Response(c) ==
  /\ cl[c].stage = "wait"
  /\ \/ /\ conn[c].down # "none" \/ conn[c].sfin
        /\ cl' = [cl EXCEPT ![c].stage = "ok"]
     \/ /\ conn[c].reset
        /\ cl' = [cl EXCEPT ![c].stage = "failed"]
  /\ conn' = [conn EXCEPT ![c].fin = TRUE]
  /\ UNCHANGED <<size, h, disk, alive, shorts, faults>>

ClientStep(c) ==
  Connect(c) \/ SendFails(c) \/ SendHeader(c) \/ SendBlock(c) \/ Response(c)

Kill(c) ==
  /\ faults < MaxFaults /\ conn[c].open /\ ~Gone(c)
  /\ cl' = [cl EXCEPT ![c].stage = "killed"]
  /\ conn' = [conn EXCEPT ![c].fin = TRUE]
  /\ faults' = faults + 1
  /\ UNCHANGED <<size, h, disk, alive, shorts>>

-----------------------------------------------------------------------------
(* The network.                                                            *)

Cut(c) ==
  /\ faults < MaxFaults /\ conn[c].open /\ ~conn[c].reset
  /\ conn' = [conn EXCEPT ![c].reset = TRUE]
  /\ faults' = faults + 1
  /\ UNCHANGED <<size, cl, h, disk, alive, shorts>>

(* Bytes that come to a closed socket are answered by a reset. *)
Bounce(c) ==
  /\ conn[c].sfin /\ conn[c].up # << >> /\ ~conn[c].reset
  /\ conn' = [conn EXCEPT ![c].reset = TRUE]
  /\ UNCHANGED <<size, cl, h, disk, alive, shorts, faults>>

(* close of a connection by the server: a reset if bytes have come that it  *)
(* did not read, else an end of file.                                       *)
Closed(k) ==
  (IF k.up = << >> THEN {} ELSE {[k EXCEPT !.reset = TRUE]})
    \cup {[k EXCEPT !.sfin = TRUE]}

-----------------------------------------------------------------------------
(* The server's thread for one connection.                                 *)

Accept(c) ==
  /\ alive /\ conn[c].open /\ h[c].stage = "none"
  /\ h' = [h EXCEPT ![c].stage = "header"]
  /\ UNCHANGED <<size, cl, conn, disk, alive, shorts, faults>>

(* recv returns n items; fails. *)
Recv(c, n) ==
  /\ n \in 1 .. Len(conn[c].up)
  /\ conn' = [conn EXCEPT ![c].up = SubSeq(@, n + 1, Len(@))]

RecvFails(c) == conn[c].reset \/ (conn[c].fin /\ conn[c].up = << >>)

RecvHeader(c) ==
  /\ alive /\ h[c].stage = "header" /\ Recv(c, 1)
  /\ h' = [h EXCEPT ![c].stage = "open"]
  /\ UNCHANGED <<size, cl, disk, alive, shorts, faults>>

GiveUp(c) ==
  /\ \E k \in Closed(conn[c]) : conn' = [conn EXCEPT ![c] = k]
  /\ h' = [h EXCEPT ![c].stage = "done"]
  /\ UNCHANGED <<size, cl, disk, alive, shorts, faults>>

RecvHeaderFails(c) ==
  /\ alive /\ h[c].stage = "header" /\ RecvFails(c)
  /\ GiveUp(c)

Truncated(f) == << >>

(* The name is received without its terminating zero: what is behind it in   *)
(* the uninitialized buffer, which may come from an earlier connection, can  *)
(* make any other name of it.                                                *)
OpenFile(c) ==
  /\ alive /\ h[c].stage = "open"
  /\ \E p \in Path :
       /\ h' = [h EXCEPT ![c].stage = IF size[c] = 0 THEN "answer" ELSE "body",
                         ![c].file = p]
       /\ disk' = [disk EXCEPT ![p] = Truncated(@)]
  /\ UNCHANGED <<size, cl, conn, alive, shorts, faults>>

OpenFails(c) == alive /\ h[c].stage = "open" /\ GiveUp(c)

(* Mutant: the loop goes on until the peer ends. *)
UntilEnd(c, n) == FALSE

Complete(c, n) == n >= size[c]

RecvBlock(c) ==
  /\ alive /\ h[c].stage = "body"
  /\ \E n \in 1 .. Buffer :
       /\ Recv(c, n)
       /\ LET got == h[c].got \o SubSeq(conn[c].up, 1, n)
          IN h' = [h EXCEPT ![c].got = got,
                            ![c].stage = IF Complete(c, Len(got)) THEN "answer" ELSE @]
  /\ UNCHANGED <<size, cl, disk, alive, shorts, faults>>

RecvBlockFails(c) ==
  /\ alive /\ h[c].stage = "body" /\ RecvFails(c)
  /\ h' = [h EXCEPT ![c].stage = "answer"]
  /\ UNCHANGED <<size, cl, conn, disk, alive, shorts, faults>>

(* Mutant: the answer only says that the transfer has ended. *)
AlwaysRight(c) == "right"

Verdict(c) == IF Len(h[c].got) = size[c] THEN "right" ELSE "bad"

(* send of the answer; a connection that has just been reset is an error     *)
(* that is caught.                                                           *)
AnswerClient(c) ==
  /\ alive /\ h[c].stage = "answer"
  /\ ~conn[c].reset \/ (Verdict(c) = "right" /\ ~conn[c].fin)
  /\ conn' = [conn EXCEPT ![c].down = IF conn[c].reset THEN @ ELSE Verdict(c)]
  /\ h' = [h EXCEPT ![c].stage = "close"]
  /\ UNCHANGED <<size, cl, disk, alive, shorts, faults>>

(* send on a connection whose reset, or whose end before the reset, has been *)
(* reported already: SIGPIPE ends the server and all its connections.        *)
SigPipe(c) ==
  /\ alive /\ h[c].stage = "answer"
  /\ conn[c].reset /\ (Verdict(c) = "bad" \/ conn[c].fin)
  /\ alive' = FALSE
  /\ \E reset \in SUBSET {d \in Client : conn[d].up # << >>} :
       conn' = [d \in Client |->
                  IF ~conn[d].open \/ conn[d].sfin THEN conn[d]
                  ELSE IF d \in reset THEN [conn[d] EXCEPT !.reset = TRUE]
                       ELSE [conn[d] EXCEPT !.sfin = TRUE]]
  /\ UNCHANGED <<size, cl, h, disk, shorts, faults>>

(* Mutant: the stream was opened with std::ios::app. *)
Appended(f, from, bytes) == f \o bytes

(* A write at an offset, behind the end too. *)
WrittenAt(f, from, bytes) ==
  LET end == from + Len(bytes)
  IN [i \in 1 .. (IF Len(f) > end THEN Len(f) ELSE end) |->
        IF i > from /\ i <= end THEN bytes[i - from]
        ELSE IF i <= Len(f) THEN f[i] ELSE Hole]

(* What the stream has buffered goes to the disk up to its n-th byte.       *)
Flushed(c, n) ==
  [disk EXCEPT ![h[c].file] =
     WrittenAt(@, h[c].flushed,
               [i \in 1 .. n - h[c].flushed |-> <<c, h[c].got[h[c].flushed + i]>>])]

Flush(c) ==
  /\ alive /\ h[c].stage \in {"body", "answer", "close"}
  /\ h[c].flushed < Len(h[c].got)
  /\ disk' = Flushed(c, Len(h[c].got))
  /\ h' = [h EXCEPT ![c].flushed = Len(h[c].got)]
  /\ UNCHANGED <<size, cl, conn, alive, shorts, faults>>

CloseBoth(c) ==
  /\ alive /\ h[c].stage = "close"
  /\ disk' = Flushed(c, Len(h[c].got))
  /\ \E k \in Closed(conn[c]) : conn' = [conn EXCEPT ![c] = k]
  /\ h' = [h EXCEPT ![c].stage = "done", ![c].flushed = Len(h[c].got)]
  /\ UNCHANGED <<size, cl, alive, shorts, faults>>

HandlerStep(c) ==
  \/ Accept(c) \/ RecvHeader(c) \/ RecvHeaderFails(c) \/ OpenFile(c) \/ OpenFails(c)
  \/ RecvBlock(c) \/ RecvBlockFails(c) \/ AnswerClient(c) \/ SigPipe(c) \/ CloseBoth(c)

-----------------------------------------------------------------------------
Init ==
  /\ size \in {f \in [Client -> 0 .. MaxSize] : FoldFunction(+, 0, f) <= MaxTotal}
  /\ cl = [c \in Client |-> [stage |-> "start", pos |-> 0, sent |-> 0]]
  /\ conn = [c \in Client |-> [open |-> FALSE, up |-> << >>, fin |-> FALSE,
                               down |-> "none", sfin |-> FALSE, reset |-> FALSE]]
  /\ h = [c \in Client |-> [stage |-> "none", file |-> NoPath, got |-> << >>,
                            flushed |-> 0]]
  /\ disk = [p \in Path |-> [i \in 1 .. MaxSize + 1 |-> <<Old, i>>]]
  /\ alive = TRUE /\ shorts = 0 /\ faults = 0

Next ==
  \E c \in Client :
    ClientStep(c) \/ Kill(c) \/ Cut(c) \/ Bounce(c) \/ HandlerStep(c) \/ Flush(c)

Spec == Init /\ [][Next]_vars
(* Programs run until they block; the disk and the network answer.  A bounce *)
(* is the kernel's.                                                          *)
LiveSpec ==
  /\ Spec
  /\ \A c \in Client :
       WF_vars(ClientStep(c)) /\ WF_vars(HandlerStep(c)) /\ WF_vars(Bounce(c))

-----------------------------------------------------------------------------
TypeOK ==
  /\ size \in [Client -> 0 .. MaxSize]
  /\ cl \in [Client -> [stage : {"start", "header", "body", "wait",
                                 "ok", "failed", "killed"},
                        pos : 0 .. MaxSize, sent : 0 .. MaxSize]]
  /\ conn \in [Client -> [open : BOOLEAN, up : Seq(0 .. MaxSize), fin : BOOLEAN,
                          down : {"none", "right", "bad"}, sfin : BOOLEAN,
                          reset : BOOLEAN]]
  /\ h \in [Client -> [stage : {"none", "header", "open", "body", "answer", "close",
                               "done"},
                       file : Path \cup {NoPath}, got : Seq(1 .. MaxSize),
                       flushed : 0 .. MaxSize]]
  /\ \A c \in Client : /\ cl[c].sent <= cl[c].pos /\ cl[c].pos <= size[c]
                       /\ h[c].flushed <= Len(h[c].got)
  /\ disk \in [Path -> Seq((Client \cup {Old}) \X (0 .. MaxSize + 1))]
  /\ alive \in BOOLEAN /\ shorts \in 0 .. MaxShort /\ faults \in 0 .. MaxFaults

File(c) == [i \in 1 .. size[c] |-> <<c, i>>]

(* The server answers "all right" only when it has the client's file, byte   *)
(* for byte, whatever the pieces it came in and the sends that fell short;   *)
(* and "all bad" is an answer for nobody: a client that ends without an      *)
(* error and was answered at all has its whole file received.  One that was  *)
(* never answered ends without an error too: its recv takes the end of the   *)
(* stream for the answer.                                                    *)
RightMeansAll ==
  \A c \in Client :
    /\ conn[c].down = "right" => h[c].got = [i \in 1 .. size[c] |-> i]
    /\ cl[c].stage = "ok" /\ conn[c].down # "none" => Len(h[c].got) = size[c]

(* An upload that was answered "all right" and closed is on the disk as it   *)
(* was sent, nothing of an older file behind it, unless another connection   *)
(* opened the same name.  Then the two do not shift each other's bytes: at   *)
(* every offset is the byte that one of the clients has there, or nothing;   *)
(* only a client whose send fell short has its bytes at other offsets.       *)
Stored ==
  /\ \A c \in Client :
       /\ h[c].stage = "done" /\ conn[c].down = "right"
       /\ \A d \in Client \ {c} : h[d].file # h[c].file
       => disk[h[c].file] = File(c)
  /\ shorts = 0 =>
       \A p \in Path : \A i \in DOMAIN disk[p] :
         disk[p][i] = Hole \/ disk[p][i][2] = i

(* The rest of a file after a send that fell short is the one thing the two  *)
(* ends wait for without an end: otherwise every client and every thread of  *)
(* a server that is alive ends.                                              *)
UploadEnds ==
  \A c \in Client :
    /\ cl[c].stage # "start" ~> Gone(c) \/ Skipped(c)
    /\ h[c].stage # "none" ~> h[c].stage = "done" \/ Skipped(c) \/ ~alive

=============================================================================
