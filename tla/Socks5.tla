------------------------------- MODULE Socks5 -------------------------------
(***************************************************************************)
(* One connection of the SOCKS5 proxy of lab5: the greeting, the request,  *)
(* the connection to the target and the two goroutines that copy.          *)
(* A byte is its number in its sender's stream.  A peer's bytes come in    *)
(* pieces of any size, as TCP brings them; it may send ahead, close its    *)
(* direction (eof) or break the connection (reset) at any time.            *)
(***************************************************************************)
EXTENDS Integers, Sequences

CONSTANTS
  MaxMethods,   \* bound: authentication methods in a greeting
  MaxName,      \* bound: length of a domain name
  MaxUp,        \* bound: bytes of the client after its request
  MaxDown       \* bound: bytes of the target

ASSUME SizesAssumption ==
  MaxMethods \in Nat /\ MaxName \in Nat /\ MaxUp \in Nat /\ MaxDown \in Nat

VARIABLES
  req,      \* what the client sends first
  in,       \* peer -> how much it has sent, and whether it has ended
  stage,    \* what the goroutine of handleClient does next
  used,     \* bytes of the client's stream that have been read for it
  target,   \* where in the stream the address and the port were read
  answers,  \* the codes sent by connected_send
  copy      \* peer -> the goroutine that copies what it sends to the other

vars == <<req, in, stage, used, target, answers, copy>>

Peer == {"client", "target"}

Other(p) == IF p = "client" THEN "target" ELSE "client"

(* greeting, header: TRUE when the version (and the command) are the right ones. *)
Request ==
  {r \in [greeting : BOOLEAN, methods : 0 .. MaxMethods, header : BOOLEAN,
          kind : {"ip4", "domain", "other"}, name : 0 .. MaxName] :
     r.kind = "domain" \/ r.name = 0}

IP4 == 4

(* Where the address of a request starts, and its length; where its port is. *)
AddressAt(r) == 2 + r.methods + 4 + (IF r.kind = "domain" THEN 1 ELSE 0)

AddressLength(r) ==
  CASE r.kind = "ip4" -> IP4 [] r.kind = "domain" -> r.name [] OTHER -> 0

PortAt(r) == AddressAt(r) + AddressLength(r)

RequestLength(r) == PortAt(r) + 2

Asked(r) == [at |-> AddressAt(r), length |-> AddressLength(r), port |-> PortAt(r)]

NoTarget == [at |-> 0, length |-> 0, port |-> 0]

Idle == [stage |-> "idle", first |-> -1, pos |-> 0, held |-> 0, sent |-> 0,
         told |-> FALSE]

-----------------------------------------------------------------------------
(* The peers.                                                              *)

Limit(p) == IF p = "client" THEN RequestLength(req) + MaxUp ELSE MaxDown

Present(p) == IF p = "client" THEN stage # "done" ELSE stage = "relay"

Arrive(p, n) ==
  /\ Present(p) /\ in[p].st = "open"
  /\ n > 0 /\ in[p].arr + n <= Limit(p)
  /\ in' = [in EXCEPT ![p].arr = @ + n]
  /\ UNCHANGED <<req, stage, used, target, answers, copy>>

HalfClose(p) ==
  /\ Present(p) /\ in[p].st = "open"
  /\ in' = [in EXCEPT ![p].st = "eof"]
  /\ UNCHANGED <<req, stage, used, target, answers, copy>>

Reset(p) ==
  /\ Present(p) /\ in[p].st # "reset"
  /\ in' = [in EXCEPT ![p].st = "reset"]
  /\ UNCHANGED <<req, stage, used, target, answers, copy>>

-----------------------------------------------------------------------------
(* The goroutine of handleClient.                                          *)

Ready == in["client"].arr - used

(* io.ReadFull(conn, buf) with a buffer of n bytes returns without an error. *)
ReadFull(n) == Ready >= n

(* A read of n bytes, of at least one, fails: the stream ends before them,  *)
(* or is broken.                                                            *)
ReadFails(n) ==
  /\ n > 0
  /\ \/ in["client"].st = "eof" /\ Ready < n
     \/ in["client"].st = "reset"

(* Mutant: the failure of a dial or of a read is not answered. *)
AnswerUnless1(code) ==
  answers' = IF in["client"].st = "reset" \/ code = 1 THEN answers
             ELSE Append(answers, code)

(* connected_send: that the client is gone is only logged. *)
Answer(code) ==
  answers' = IF in["client"].st = "reset" THEN answers ELSE Append(answers, code)

Refuse(code) ==
  /\ Answer(code)
  /\ stage' = "done"
  /\ UNCHANGED <<req, in, used, target, copy>>

ReadGreeting ==
  /\ stage = "greeting" /\ ReadFull(2)
  /\ used' = used + 2
  /\ stage' = IF req.greeting THEN "methods" ELSE "done"
  /\ UNCHANGED <<req, in, target, answers, copy>>

(* The methods are not looked at; the reply can fail to be written. *)
ReadMethods ==
  /\ stage = "methods" /\ ReadFull(req.methods)
  /\ used' = used + req.methods
  /\ stage' = IF in["client"].st = "reset" THEN "done" ELSE "header"
  /\ UNCHANGED <<req, in, target, answers, copy>>

HandshakeFails ==
  /\ \/ stage = "greeting" /\ ReadFails(2)
     \/ stage = "methods" /\ ReadFails(req.methods)
  /\ stage' = "done"
  /\ UNCHANGED <<req, in, used, target, answers, copy>>

ReadHeader ==
  /\ stage = "header" /\ ReadFull(4)
  /\ req.header /\ req.kind # "other"
  /\ used' = used + 4
  /\ stage' = IF req.kind = "ip4" THEN "address" ELSE "length"
  /\ UNCHANGED <<req, in, target, answers, copy>>

RefuseHeader ==
  /\ stage = "header" /\ ReadFull(4)
  /\ ~req.header \/ req.kind = "other"
  /\ Refuse(IF ~req.header THEN 7 ELSE 8)

(* One conn.Read of the four bytes of an IPv4 address: it returns what has  *)
(* come, which may be less.                                                 *)
ReadAddress ==
  /\ stage = "address" /\ Ready > 0
  /\ LET n == IF Ready < IP4 THEN Ready ELSE IP4
     IN /\ used' = used + n
        /\ target' = [target EXCEPT !.at = used, !.length = n]
  /\ stage' = "port"
  /\ UNCHANGED <<req, in, answers, copy>>

ReadLength ==
  /\ stage = "length" /\ Ready > 0
  /\ used' = used + 1
  /\ stage' = "name"
  /\ UNCHANGED <<req, in, target, answers, copy>>

(* Mutant: the name is read like the IPv4 address. *)
ReadNameAtOnce ==
  /\ stage = "name" /\ Ready > 0
  /\ LET n == IF Ready < req.name THEN Ready ELSE req.name
     IN /\ used' = used + n
        /\ target' = [target EXCEPT !.at = used, !.length = n]
  /\ stage' = "port"
  /\ UNCHANGED <<req, in, answers, copy>>

ReadName ==
  /\ stage = "name" /\ ReadFull(req.name)
  /\ used' = used + req.name
  /\ target' = [target EXCEPT !.at = used, !.length = req.name]
  /\ stage' = "port"
  /\ UNCHANGED <<req, in, answers, copy>>

ReadPort ==
  /\ stage = "port" /\ ReadFull(2)
  /\ used' = used + 2
  /\ target' = [target EXCEPT !.port = used]
  /\ stage' = "dial"
  /\ UNCHANGED <<req, in, answers, copy>>

RequestFails ==
  /\ \/ stage = "header" /\ ReadFails(4)
     \/ stage \in {"address", "length"} /\ ReadFails(1)
     \/ stage = "name" /\ ReadFails(req.name)
     \/ stage = "port" /\ ReadFails(2)
  /\ Refuse(1)

DialFails == stage = "dial" /\ Refuse(1)

(* The target is there: the client is told, and the copying starts with     *)
(* what the client may have sent ahead.                                     *)
Dial ==
  /\ stage = "dial"
  /\ Answer(0)
  /\ stage' = "relay"
  /\ copy' = [p \in Peer |->
                LET at == IF p = "client" THEN used ELSE 0
                IN [Idle EXCEPT !.stage = "copy", !.first = at, !.pos = at]]
  /\ UNCHANGED <<req, in, used, target>>

(* wg.Wait returns; both connections are closed. *)
Close ==
  /\ stage = "relay"
  /\ \A p \in Peer : copy[p].stage = "done"
  /\ stage' = "done"
  /\ UNCHANGED <<req, in, used, target, answers, copy>>

-----------------------------------------------------------------------------
(* io.Copy and the deferred CloseWrite of the goroutine that copies from p. *)

CopyRead(p) ==
  /\ copy[p].stage = "copy" /\ copy[p].held = 0
  /\ \E n \in 1 .. in[p].arr - copy[p].pos :
       copy' = [copy EXCEPT ![p].pos = @ + n, ![p].held = n]
  /\ UNCHANGED <<req, in, stage, used, target, answers>>

CopyWrite(p) ==
  /\ copy[p].stage = "copy" /\ copy[p].held > 0
  /\ in[Other(p)].st # "reset"
  /\ copy' = [copy EXCEPT ![p].sent = @ + copy[p].held, ![p].held = 0]
  /\ UNCHANGED <<req, in, stage, used, target, answers>>

(* Mutants: the goroutine stops reading as soon as the other end has ended  *)
(* its own direction; it retries when a read fails; it does not close the   *)
(* direction it wrote to.                                                   *)
CopyEndsWithOther(p) ==
  \/ copy[p].held = 0 /\ in[p].st = "eof" /\ copy[p].pos = in[p].arr
  \/ copy[p].held = 0 /\ in[p].st = "reset"
  \/ in[Other(p)].st # "open"

CopyEndsButOnError(p) ==
  \/ copy[p].held = 0 /\ in[p].st = "eof" /\ copy[p].pos = in[p].arr
  \/ copy[p].held > 0 /\ in[Other(p)].st = "reset"

WithoutCloseWrite(c) == [c EXCEPT !.stage = "done", !.held = 0]

(* The end of the stream, a broken source, a broken sink.  *)
CopyEnds(p) ==
  \/ copy[p].held = 0 /\ in[p].st = "eof" /\ copy[p].pos = in[p].arr
  \/ copy[p].held = 0 /\ in[p].st = "reset"
  \/ copy[p].held > 0 /\ in[Other(p)].st = "reset"

Ended(c) == [c EXCEPT !.stage = "done", !.held = 0, !.told = TRUE]

CopyEnd(p) ==
  /\ copy[p].stage = "copy"
  /\ CopyEnds(p)
  /\ copy' = [copy EXCEPT ![p] = Ended(@)]
  /\ UNCHANGED <<req, in, stage, used, target, answers>>

-----------------------------------------------------------------------------
Init ==
  /\ req \in Request
  /\ in = [p \in Peer |-> [arr |-> 0, st |-> "open"]]
  /\ stage = "greeting" /\ used = 0
  /\ target = NoTarget /\ answers = << >>
  /\ copy = [p \in Peer |-> Idle]

Network ==
  \E p \in Peer :
    \/ \E n \in 1 .. Limit(p) : Arrive(p, n)
    \/ HalfClose(p)
    \/ Reset(p)

HandleClient ==
  \/ ReadGreeting \/ ReadMethods \/ HandshakeFails
  \/ ReadHeader \/ RefuseHeader \/ ReadAddress \/ ReadLength \/ ReadName \/ ReadPort
  \/ RequestFails \/ Dial \/ DialFails \/ Close

Copier(p) == CopyRead(p) \/ CopyWrite(p) \/ CopyEnd(p)

Next == Network \/ HandleClient \/ \E p \in Peer : Copier(p)

Spec == Init /\ [][Next]_vars

(* The goroutines run, a dial ends, and a write to a peer that is there is  *)
(* taken at last.  Nothing is assumed of the peers.                         *)
LiveSpec ==
  Spec /\ WF_vars(HandleClient) /\ \A p \in Peer : WF_vars(Copier(p))

-----------------------------------------------------------------------------
TypeOK ==
  /\ req \in Request
  /\ in \in [Peer -> [arr : Nat, st : {"open", "eof", "reset"}]]
  /\ stage \in {"greeting", "methods", "header", "address", "length", "name",
                "port", "dial", "relay", "done"}
  /\ used \in Nat /\ used <= in["client"].arr
  /\ target \in [at : Nat, length : Nat, port : Nat]
  /\ answers \in Seq({0, 1, 7, 8})
  /\ copy \in [Peer -> [stage : {"idle", "copy", "done"}, first : Nat \cup {-1},
                        pos : Nat, held : Nat, sent : Nat, told : BOOLEAN]]

(* However the bytes of a request come, the target that is dialled is the   *)
(* one it names and copying starts with the byte after it, except in one    *)
(* case: the single conn.Read of an IPv4 address (server.go:68) returned    *)
(* less than its four bytes.                                                *)
Short == req.kind = "ip4" /\ target.length < IP4

RightTarget ==
  /\ stage \in {"dial", "relay"} => target = Asked(req) \/ Short
  /\ copy["client"].stage # "idle" => copy["client"].first = RequestLength(req) \/ Short

(* Each direction keeps the promise of ByteStream: the two goroutines, the   *)
(* parser before them and the closing after them lose, repeat and reorder    *)
(* nothing, and a half-close is passed on after the bytes before it.         *)
Up == INSTANCE ByteStream WITH
  source <- in["client"].st,       given  <- in["client"].arr,
  first  <- copy["client"].first,  passed <- copy["client"].sent,
  told   <- copy["client"].told,   broken <- in["target"].st = "reset"

Down == INSTANCE ByteStream WITH
  source <- in["target"].st,       given  <- in["target"].arr,
  first  <- copy["target"].first,  passed <- copy["target"].sent,
  told   <- copy["target"].told,   broken <- in["client"].st = "reset"

Relays == Up!Spec /\ Down!Spec

(* A client that sends a whole request with the right version gets an answer,  *)
(* and only one, unless it breaks the connection.                              *)
AnsweredOnce ==
  /\ (in["client"].arr >= RequestLength(req) /\ req.greeting)
       ~> (Len(answers) = 1 \/ in["client"].st = "reset")
  /\ [](Len(answers) <= 1)

(* A half-close reaches the other side, after everything sent before it, if  *)
(* neither side breaks the connection: nobody has to close both directions   *)
(* to get rid of the rest.                                                   *)
HalfClosePassed ==
  \A p \in Peer :
    (stage = "relay" /\ in[p].st = "eof")
      ~> \/ copy[p].told /\ copy[p].first + copy[p].sent = in[p].arr
         \/ \E q \in Peer : in[q].st = "reset"

(* When both sides have ended, in whatever way and order, so does the        *)
(* connection: no goroutine is left behind.                                  *)
ConnectionEnds == (\A p \in Peer : in[p].st # "open") ~> stage = "done"
=============================================================================
