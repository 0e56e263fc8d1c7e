---------------------------- MODULE Socks5Proofs ----------------------------
(***************************************************************************)
(* Proofs about the proxy of module Socks5, for every bound on methods,    *)
(* names and bytes: the types, the target that is dialled, that nobody is  *)
(* answered twice, and that each direction of the relay implements         *)
(* ByteStream.                                                             *)
(***************************************************************************)
EXTENDS Socks5, SequenceTheorems, TLAPS

(* Where the parser is in the client's stream, stage by stage; the target   *)
(* it has read is the one asked for unless the one Read fell short.         *)
Parsing ==
  /\ stage = "greeting" => used = 0
  /\ stage = "methods"  => used = 2
  /\ stage = "header"   => used = 2 + req.methods
  /\ stage = "address"  => used = AddressAt(req) /\ req.kind = "ip4"
  /\ stage = "length"   => used + 1 = AddressAt(req) /\ req.kind = "domain"
  /\ stage = "name"     => used = AddressAt(req) /\ req.kind = "domain"
  /\ stage = "port"     => \/ Short
                           \/ /\ target.at = AddressAt(req)
                              /\ target.length = AddressLength(req)
                              /\ used = PortAt(req)
  /\ stage = "dial"     => (target = Asked(req) /\ used = RequestLength(req)) \/ Short
  /\ stage = "relay"    => target = Asked(req) \/ Short

(* What the goroutine that copies from p has read is what it has written    *)
(* and what it holds; it has not told anyone of an end before it ends.      *)
Copying(p) ==
  /\ copy[p].stage = "idle" => copy[p] = Idle
  /\ copy[p].stage = "copy" =>
       /\ copy[p].first \in Nat /\ ~copy[p].told
       /\ copy[p].first + copy[p].sent + copy[p].held = copy[p].pos
       /\ copy[p].pos <= in[p].arr

Opened ==
  copy["client"].stage # "idle" => copy["client"].first = RequestLength(req) \/ Short

Inv ==
  /\ TypeOK
  /\ Parsing /\ Opened
  /\ \A p \in Peer : Copying(p)
  /\ stage \notin {"relay", "done"} => \A p \in Peer : copy[p].stage = "idle"

Reading == ReadGreeting \/ ReadMethods \/ ReadHeader \/ ReadAddress \/ ReadLength
             \/ ReadName \/ ReadPort

Ending == HandshakeFails \/ RefuseHeader \/ RequestFails \/ DialFails \/ Close

-----------------------------------------------------------------------------
LEMMA RequestFields ==
  ASSUME req \in Request
  PROVE  /\ req.methods \in Nat /\ req.name \in Nat
         /\ req.greeting \in BOOLEAN /\ req.header \in BOOLEAN
         /\ req.kind \in {"ip4", "domain", "other"}
  BY SizesAssumption DEF Request

LEMMA InitInv == Init => Inv
<1> SUFFICES ASSUME Init PROVE Inv
  OBVIOUS
<1>1. in = [p \in Peer |-> [arr |-> 0, st |-> "open"]] /\ copy = [p \in Peer |-> Idle]
      /\ req \in Request /\ stage = "greeting" /\ used = 0 /\ target = NoTarget
      /\ answers = << >>
  BY DEF Init
<1>2. Idle \in [stage : {"idle", "copy", "done"}, first : Nat \cup {-1},
                pos : Nat, held : Nat, sent : Nat, told : BOOLEAN]
  BY DEF Idle
<1>3. TypeOK
  BY <1>1, <1>2 DEF TypeOK, NoTarget, Peer
<1>4. Idle.stage = "idle"
  BY DEF Idle
<1>5. \A p \in Peer : copy[p] = Idle
  BY <1>1
<1>6. Opened
  BY <1>4, <1>5 DEF Opened, Peer
<1>7. \A p \in Peer : Copying(p)
  BY <1>4, <1>5 DEF Copying
<1> QED
  BY <1>1, <1>3, <1>4, <1>5, <1>6, <1>7 DEF Inv, Parsing

(* The peers only add to what there is to read. *)
LEMMA NetworkInv == Inv /\ Network => Inv'
<1> SUFFICES ASSUME Inv, Network PROVE Inv'
  OBVIOUS
<1>0. TypeOK
  BY DEF Inv
<1>1. UNCHANGED <<req, stage, used, target, answers, copy>>
  BY DEF Network, Arrive, HalfClose, Reset
<1> DEFINE More == /\ in' \in [Peer -> [arr : Nat, st : {"open", "eof", "reset"}]]
                   /\ \A p \in Peer : in'[p].arr >= in[p].arr
<1>2. More
  <2>1. ASSUME NEW p \in Peer, NEW n \in 1 .. Limit(p), Arrive(p, n)
        PROVE  More
    <3>1. n \in Nat /\ in' = [in EXCEPT ![p] = [in[p] EXCEPT !.arr = @ + n]]
      BY <2>1 DEF Arrive
    <3>2. in[p] \in [arr : Nat, st : {"open", "eof", "reset"}]
      BY <1>0 DEF TypeOK
    <3>3. [in[p] EXCEPT !.arr = @ + n] \in [arr : Nat, st : {"open", "eof", "reset"}]
          /\ [in[p] EXCEPT !.arr = @ + n].arr >= in[p].arr
      BY <3>1, <3>2
    <3>4. in' \in [Peer -> [arr : Nat, st : {"open", "eof", "reset"}]]
      BY <1>0, <3>1, <3>2, <3>3 DEF TypeOK
    <3>5. ASSUME NEW q \in Peer PROVE in'[q].arr >= in[q].arr
      <4>1. CASE q = p
        BY <1>0, <4>1, <3>1, <3>3 DEF TypeOK
      <4>2. CASE q # p
        <5>1. in'[q] = in[q] /\ in[q].arr \in Nat
          BY <1>0, <4>2, <3>1 DEF TypeOK
        <5> QED
          BY <5>1
      <4> QED
        BY <4>1, <4>2
    <3> QED
      BY <3>4, <3>5
  <2>2. ASSUME NEW p \in Peer, HalfClose(p) \/ Reset(p)
        PROVE  More
    <3>1. \E s \in {"eof", "reset"} : in' = [in EXCEPT ![p] = [in[p] EXCEPT !.st = s]]
      BY <2>2 DEF HalfClose, Reset
    <3>2. in[p] \in [arr : Nat, st : {"open", "eof", "reset"}]
      BY <1>0 DEF TypeOK
    <3>3. \A s \in {"eof", "reset"} :
            /\ [in[p] EXCEPT !.st = s] \in [arr : Nat, st : {"open", "eof", "reset"}]
            /\ [in[p] EXCEPT !.st = s].arr >= in[p].arr
      BY <3>2
    <3>4. in' \in [Peer -> [arr : Nat, st : {"open", "eof", "reset"}]]
      BY <1>0, <3>1, <3>2, <3>3 DEF TypeOK
    <3>5. ASSUME NEW q \in Peer PROVE in'[q].arr >= in[q].arr
      <4>1. CASE q = p
        BY <1>0, <4>1, <3>1, <3>3 DEF TypeOK
      <4>2. CASE q # p
        <5>1. in'[q] = in[q] /\ in[q].arr \in Nat
          BY <1>0, <4>2, <3>1 DEF TypeOK
        <5> QED
          BY <5>1
      <4> QED
        BY <4>1, <4>2
    <3> QED
      BY <3>4, <3>5
  <2> QED
    BY <2>1, <2>2 DEF Network
<1>3. used' \in Nat /\ used' <= in'["client"].arr
  BY <1>0, <1>1, <1>2 DEF TypeOK, Peer
<1>4. TypeOK'
  BY <1>0, <1>1, <1>2, <1>3 DEF TypeOK
<1>5. \A p \in Peer : Copying(p)'
  <2> SUFFICES ASSUME NEW p \in Peer PROVE Copying(p)'
    OBVIOUS
  <2>1. copy'[p] = copy[p] /\ Copying(p) /\ copy[p].pos \in Nat
        /\ in[p].arr \in Nat /\ in'[p].arr \in Nat /\ in'[p].arr >= in[p].arr
    BY <1>0, <1>1, <1>2 DEF Inv, TypeOK
  <2>2. copy[p].pos <= in[p].arr => copy[p].pos <= in'[p].arr
    BY <2>1
  <2> QED
    BY <2>1, <2>2 DEF Copying
<1>6. Parsing' /\ Opened'
  BY <1>1 DEF Inv, Parsing, Opened, Short
<1> QED
  BY <1>1, <1>4, <1>5, <1>6 DEF Inv

(* While the request is read nothing is copied. *)
LEMMA QuietInv ==
  ASSUME Inv, UNCHANGED <<req, in, copy>>,
         stage \notin {"relay", "done"}
  PROVE  (\A p \in Peer : Copying(p)') /\ Opened' /\ (\A p \in Peer : copy'[p].stage = "idle")
<1>1. \A p \in Peer : copy'[p] = copy[p] /\ Copying(p) /\ copy'[p].stage = "idle"
  BY DEF Inv
<1>2. \A p \in Peer : Copying(p)'
  BY <1>1 DEF Copying
<1>3. Opened'
  BY <1>1 DEF Opened, Peer
<1> QED
  BY <1>1, <1>2, <1>3

Stage == {"greeting", "methods", "header", "address", "length", "name",
          "port", "dial", "relay", "done"}

(* What an action of the parser has to show of itself. *)
LEMMA ParserInv ==
  ASSUME Inv, UNCHANGED <<req, in, copy>>, stage \notin {"relay", "done"},
         used' \in Nat, used' <= in["client"].arr,
         target' \in [at : Nat, length : Nat, port : Nat],
         stage' \in Stage, answers' \in Seq({0, 1, 7, 8}), Parsing'
  PROVE  Inv'
<1>1. TypeOK'
  BY DEF Inv, TypeOK, Stage
<1> QED
  BY <1>1, QuietInv DEF Inv

LEMMA ReadingInv == Inv /\ Reading => Inv'
<1> SUFFICES ASSUME Inv, Reading PROVE Inv'
  OBVIOUS
<1>0. TypeOK /\ Parsing
  BY DEF Inv
<1>1. UNCHANGED <<req, in, answers, copy>> /\ stage \notin {"relay", "done"}
      /\ answers' \in Seq({0, 1, 7, 8})
  BY <1>0 DEF Reading, ReadGreeting, ReadMethods, ReadHeader, ReadAddress, ReadLength,
         ReadName, ReadPort, TypeOK
<1>2. /\ req.methods \in Nat /\ req.name \in Nat
      /\ req.kind \in {"ip4", "domain", "other"}
  BY <1>0, RequestFields DEF TypeOK
<1>3. used \in Nat /\ in["client"].arr \in Nat /\ used <= in["client"].arr
      /\ target \in [at : Nat, length : Nat, port : Nat]
  BY <1>0 DEF TypeOK, Peer
<1>4. CASE ReadGreeting
  <2>1. stage = "greeting" /\ used = 0 /\ used' = used + 2 /\ stage' \in {"methods", "done"}
        /\ target' = target /\ Ready >= 2
    BY <1>0, <1>4 DEF ReadGreeting, ReadFull, Parsing
  <2>2. used' = 2 /\ used' <= in["client"].arr
    BY <1>3, <2>1 DEF Ready
  <2>3. Parsing'
    BY <2>1, <2>2 DEF Parsing
  <2> QED
    BY <1>1, <1>3, <2>1, <2>2, <2>3, ParserInv DEF Stage
<1>5. CASE ReadMethods
  <2>1. stage = "methods" /\ used = 2 /\ used' = used + req.methods
        /\ stage' \in {"header", "done"} /\ target' = target /\ Ready >= req.methods
    BY <1>0, <1>5 DEF ReadMethods, ReadFull, Parsing
  <2>2. used' = 2 + req.methods /\ used' \in Nat /\ used' <= in["client"].arr
    BY <1>2, <1>3, <2>1 DEF Ready
  <2>3. Parsing'
    BY <1>1, <2>1, <2>2 DEF Parsing
  <2> QED
    BY <1>1, <1>3, <2>1, <2>2, <2>3, ParserInv DEF Stage
<1>6. CASE ReadHeader
  <2>1. stage = "header" /\ used = 2 + req.methods /\ used' = used + 4
        /\ target' = target /\ Ready >= 4
        /\ \/ stage' = "address" /\ req.kind = "ip4"
           \/ stage' = "length" /\ req.kind = "domain"
    BY <1>0, <1>2, <1>6 DEF ReadHeader, ReadFull, Parsing
  <2>2. used' \in Nat /\ used' <= in["client"].arr
    BY <1>2, <1>3, <2>1 DEF Ready
  <2>3. req.kind = "ip4" => used' = AddressAt(req)
    BY <1>2, <2>1 DEF AddressAt
  <2>4. req.kind = "domain" => used' + 1 = AddressAt(req)
    BY <1>2, <2>1 DEF AddressAt
  <2>5. Parsing'
    BY <1>1, <2>1, <2>3, <2>4 DEF Parsing
  <2> QED
    BY <1>1, <1>3, <2>1, <2>2, <2>5, ParserInv DEF Stage
<1>7. CASE ReadAddress
  <2> DEFINE n == IF Ready < IP4 THEN Ready ELSE IP4
  <2>1. stage = "address" /\ stage' = "port" /\ Ready > 0 /\ used' = used + n
        /\ target' = [target EXCEPT !.at = used, !.length = n]
        /\ used = AddressAt(req) /\ req.kind = "ip4"
    BY <1>0, <1>7 DEF ReadAddress, Parsing
  <2>2. n \in Nat /\ n <= Ready /\ n <= IP4
    BY <1>3, <2>1 DEF Ready, IP4
  <2> HIDE DEF n
  <2>3. used' \in Nat /\ used' <= in["client"].arr
    BY <1>3, <2>1, <2>2 DEF Ready
  <2>4. target' \in [at : Nat, length : Nat, port : Nat]
        /\ target'.at = used /\ target'.length = n
    BY <1>3, <2>1, <2>2
  <2>5. n # IP4 => Short'
    <3>1. n # IP4 => n < IP4
      BY <2>2 DEF IP4
    <3> QED
      BY <1>1, <2>1, <2>4, <3>1 DEF Short
  <2>6. n = IP4 => n = AddressLength(req) /\ used' = PortAt(req)
    BY <2>1 DEF AddressLength, PortAt
  <2>7. Parsing'
    BY <1>1, <2>1, <2>4, <2>5, <2>6 DEF Parsing
  <2> QED
    BY <1>1, <1>3, <2>1, <2>3, <2>4, <2>7, ParserInv DEF Stage
<1>8. CASE ReadLength
  <2>1. stage = "length" /\ stage' = "name" /\ Ready > 0 /\ used' = used + 1
        /\ target' = target /\ used + 1 = AddressAt(req) /\ req.kind = "domain"
    BY <1>0, <1>8 DEF ReadLength, Parsing
  <2>2. used' \in Nat /\ used' <= in["client"].arr
    BY <1>3, <2>1 DEF Ready
  <2>3. Parsing'
    BY <1>1, <2>1 DEF Parsing
  <2> QED
    BY <1>1, <1>3, <2>1, <2>2, <2>3, ParserInv DEF Stage
<1>9. CASE ReadName
  <2>1. stage = "name" /\ stage' = "port" /\ Ready >= req.name /\ used' = used + req.name
        /\ target' = [target EXCEPT !.at = used, !.length = req.name]
        /\ used = AddressAt(req) /\ req.kind = "domain"
    BY <1>0, <1>9 DEF ReadName, ReadFull, Parsing
  <2>2. used' \in Nat /\ used' <= in["client"].arr
    BY <1>2, <1>3, <2>1 DEF Ready
  <2>3. target' \in [at : Nat, length : Nat, port : Nat]
        /\ target'.at = used /\ target'.length = req.name
    BY <1>2, <1>3, <2>1
  <2>4. req.name = AddressLength(req) /\ used' = PortAt(req)
    BY <2>1 DEF AddressLength, PortAt
  <2>5. Parsing'
    BY <1>1, <2>1, <2>3, <2>4 DEF Parsing
  <2> QED
    BY <1>1, <1>3, <2>1, <2>2, <2>3, <2>5, ParserInv DEF Stage
<1>10. CASE ReadPort
  <2>1. stage = "port" /\ stage' = "dial" /\ Ready >= 2 /\ used' = used + 2
        /\ target' = [target EXCEPT !.port = used]
        /\ \/ Short
           \/ /\ target.at = AddressAt(req) /\ target.length = AddressLength(req)
              /\ used = PortAt(req)
    BY <1>0, <1>10 DEF ReadPort, ReadFull, Parsing
  <2>2. used' \in Nat /\ used' <= in["client"].arr
    BY <1>3, <2>1 DEF Ready
  <2>3. target' \in [at : Nat, length : Nat, port : Nat]
        /\ target' = [at |-> target.at, length |-> target.length, port |-> used]
    BY <1>3, <2>1
  <2>4. Short => Short'
    BY <1>1, <2>3 DEF Short
  <2>5. ~Short => target' = Asked(req) /\ used' = RequestLength(req)
    BY <2>1, <2>3 DEF Asked, RequestLength
  <2>6. Parsing'
    BY <1>1, <2>1, <2>4, <2>5 DEF Parsing
  <2> QED
    BY <1>1, <1>3, <2>1, <2>2, <2>3, <2>6, ParserInv DEF Stage
<1> QED
  BY <1>4, <1>5, <1>6, <1>7, <1>8, <1>9, <1>10 DEF Reading

LEMMA Answers ==
  ASSUME NEW S, NEW code \in S, answers \in Seq(S), Answer(code)
  PROVE  answers' \in Seq(S)
<1>1. Append(answers, code) \in Seq(S)
  BY AppendProperties
<1> QED
  BY <1>1 DEF Answer

LEMMA EndingInv == Inv /\ Ending => Inv'
<1> SUFFICES ASSUME Inv, Ending PROVE Inv'
  OBVIOUS
<1>0. TypeOK
  BY DEF Inv
<1>1. UNCHANGED <<req, in, used, target, copy>> /\ stage' = "done"
  BY DEF Ending, HandshakeFails, RefuseHeader, RequestFails, DialFails, Close, Refuse
<1>2. answers' = answers \/ \E code \in {0, 1, 7, 8} : Answer(code)
  BY DEF Ending, HandshakeFails, RefuseHeader, RequestFails, DialFails, Close, Refuse
<1>3. answers' \in Seq({0, 1, 7, 8})
  BY <1>0, <1>2, Answers DEF TypeOK
<1>4. TypeOK'
  BY <1>0, <1>1, <1>3 DEF TypeOK
<1>5. \A p \in Peer : Copying(p)'
  BY <1>1 DEF Inv, Copying
<1>6. Opened' /\ Parsing'
  BY <1>1 DEF Inv, Opened, Parsing, Short
<1> QED
  BY <1>1, <1>4, <1>5, <1>6 DEF Inv

LEMMA DialInv == Inv /\ Dial => Inv'
<1> SUFFICES ASSUME Inv, Dial PROVE Inv'
  OBVIOUS
<1>0. TypeOK /\ stage = "dial" /\ stage' = "relay" /\ UNCHANGED <<req, in, used, target>>
  BY DEF Inv, Dial
<1>1. answers' \in Seq({0, 1, 7, 8})
  BY <1>0, Answers DEF Dial, TypeOK
<1>2. used \in Nat /\ used <= in["client"].arr /\ in["target"].arr \in Nat
  BY <1>0 DEF TypeOK, Peer
<1> DEFINE at(p) == IF p = "client" THEN used ELSE 0
<1>3. copy' = [p \in Peer |-> [Idle EXCEPT !.stage = "copy", !.first = at(p), !.pos = at(p)]]
  BY DEF Dial
<1>4. \A p \in Peer : at(p) \in Nat /\ at(p) <= in[p].arr
  BY <1>2 DEF Peer
<1>9. at("client") = used
  OBVIOUS
<1> HIDE DEF at
<1> DEFINE C == [stage : {"idle", "copy", "done"}, first : Nat \cup {-1},
                 pos : Nat, held : Nat, sent : Nat, told : BOOLEAN]
           Fresh(p, c) == /\ c.stage = "copy" /\ c.first = at(p) /\ c.pos = at(p)
                          /\ c.held = 0 /\ c.sent = 0 /\ c.told = FALSE
<1>11. \A p \in Peer : copy'[p] \in C /\ Fresh(p, copy'[p])
  <2> TAKE p \in Peer
  <2>1. copy'[p] = [Idle EXCEPT !.stage = "copy", !.first = at(p), !.pos = at(p)]
    BY <1>3
  <2>2. at(p) \in Nat
    BY <1>4
  <2> DEFINE n == at(p)
             c == copy'[p]
  <2> HIDE DEF n, c
  <2>3. c = [Idle EXCEPT !.stage = "copy", !.first = n, !.pos = n]
    BY <2>1 DEF n, c
  <2>4. c \in C
    BY <2>2, <2>3 DEF Idle, n
  <2>5. c.stage = "copy" /\ c.first = n /\ c.pos = n /\ c.held = 0 /\ c.sent = 0
        /\ c.told = FALSE
    BY <2>3 DEF Idle
  <2> QED
    BY <2>4, <2>5 DEF n, c
<1>5. copy' \in [Peer -> C]
  BY <1>3, <1>11
<1>6. TypeOK'
  BY <1>0, <1>1, <1>5 DEF TypeOK
<1>7. ASSUME NEW p \in Peer PROVE Copying(p)'
  <2>1. Fresh(p, copy'[p])
    BY <1>11
  <2>2. at(p) + 0 + 0 = at(p)
    BY <1>4
  <2>3. in'[p].arr = in[p].arr
    BY <1>0
  <2> QED
    BY <1>4, <2>1, <2>2, <2>3 DEF Copying
<1>8. (target = Asked(req) /\ used = RequestLength(req)) \/ Short
  BY <1>0 DEF Inv, Parsing
<1>12. copy'["client"].first = used
  BY <1>9, <1>11 DEF Peer
<1>10. Opened' /\ Parsing'
  BY <1>0, <1>8, <1>12 DEF Opened, Parsing, Short
<1> QED
  BY <1>0, <1>6, <1>7, <1>10 DEF Inv

(* The three steps of io.Copy, seen from the one goroutine. *)
LEMMA CopierInv == ASSUME NEW p \in Peer, Inv, Copier(p) PROVE Inv'
<1>0. TypeOK /\ Copying(p)
  BY DEF Inv
<1>1. UNCHANGED <<req, in, stage, used, target, answers>> /\ copy[p].stage = "copy"
  BY DEF Copier, CopyRead, CopyWrite, CopyEnd
<1> DEFINE C == [stage : {"idle", "copy", "done"}, first : Nat \cup {-1},
                 pos : Nat, held : Nat, sent : Nat, told : BOOLEAN]
<1>2. copy[p] \in C /\ in[p].arr \in Nat
  BY <1>0 DEF TypeOK
<1>3. /\ copy[p].first \in Nat /\ ~copy[p].told
      /\ copy[p].first + copy[p].sent + copy[p].held = copy[p].pos
      /\ copy[p].pos <= in[p].arr
  BY <1>0, <1>1 DEF Copying
<1> DEFINE Good(c) == /\ c \in C /\ c.first = copy[p].first /\ c.stage # "idle"
                      /\ c.stage = "copy" =>
                           /\ ~c.told /\ c.first + c.sent + c.held = c.pos
                           /\ c.pos <= in[p].arr
<1>4. \E c : copy' = [copy EXCEPT ![p] = c] /\ Good(c)
  <2>1. CASE CopyRead(p)
    <3>1. PICK n \in 1 .. in[p].arr - copy[p].pos :
            copy' = [copy EXCEPT ![p] = [copy[p] EXCEPT !.pos = @ + n, !.held = n]]
      BY <2>1 DEF CopyRead
    <3>2. copy[p].held = 0
      BY <2>1 DEF CopyRead
    <3> DEFINE c == [copy[p] EXCEPT !.pos = @ + n, !.held = n]
    <3>3. n \in Nat /\ n <= in[p].arr - copy[p].pos /\ copy[p].pos \in Nat
          /\ copy[p].sent \in Nat
      BY <1>2, <3>1
    <3>4. c.pos = copy[p].pos + n /\ c.held = n /\ c.sent = copy[p].sent
          /\ c.first = copy[p].first /\ c.stage = copy[p].stage /\ c.told = copy[p].told
      BY <1>2
    <3>5. c \in C
      <4>1. \A x, y \in Nat : [copy[p] EXCEPT !.pos = x, !.held = y] \in C
        BY <1>2
      <4>2. copy[p].pos + n \in Nat
        BY <3>3
      <4> QED
        BY <3>3, <4>1, <4>2
    <3>6. c.first + c.sent + c.held = c.pos /\ c.pos <= in[p].arr
      BY <1>2, <1>3, <3>2, <3>3, <3>4
    <3>7. Good(c)
      BY <1>1, <1>3, <3>4, <3>5, <3>6
    <3> QED
      BY <3>1, <3>7
  <2>2. CASE CopyWrite(p)
    <3>1. copy' = [copy EXCEPT ![p] = [copy[p] EXCEPT !.sent = @ + copy[p].held, !.held = 0]]
      BY <2>2 DEF CopyWrite
    <3> DEFINE c == [copy[p] EXCEPT !.sent = @ + copy[p].held, !.held = 0]
    <3>2. copy[p].held \in Nat /\ copy[p].sent \in Nat
      BY <1>2
    <3>3. c.sent = copy[p].sent + copy[p].held /\ c.held = 0 /\ c.pos = copy[p].pos
          /\ c.first = copy[p].first /\ c.stage = copy[p].stage /\ c.told = copy[p].told
      BY <1>2
    <3>4. c \in C
      <4>1. \A x, y \in Nat : [copy[p] EXCEPT !.sent = x, !.held = y] \in C
        BY <1>2
      <4>2. copy[p].sent + copy[p].held \in Nat /\ 0 \in Nat
        BY <3>2
      <4> QED
        BY <4>1, <4>2
    <3>5. c.first + c.sent + c.held = c.pos
      BY <1>3, <3>2, <3>3
    <3>6. Good(c)
      BY <1>1, <1>3, <3>3, <3>4, <3>5
    <3> QED
      BY <3>1, <3>6
  <2>3. CASE CopyEnd(p)
    <3>1. copy' = [copy EXCEPT ![p] = Ended(copy[p])]
      BY <2>3 DEF CopyEnd
    <3>2. Good(Ended(copy[p]))
      BY <1>1, <1>2, <1>3 DEF Ended
    <3> QED
      BY <3>1, <3>2
  <2> QED
    BY <2>1, <2>2, <2>3 DEF Copier
<1>5. PICK c : copy' = [copy EXCEPT ![p] = c] /\ Good(c)
  BY <1>4
<1>6. copy \in [Peer -> C]
  BY <1>0 DEF TypeOK
<1>7. copy' \in [Peer -> C] /\ copy'[p] = c /\ \A q \in Peer : q # p => copy'[q] = copy[q]
  BY <1>5, <1>6
<1>8. TypeOK'
  BY <1>0, <1>1, <1>7 DEF TypeOK
<1>9. ASSUME NEW q \in Peer PROVE Copying(q)'
  <2>1. CASE q = p
    BY <1>1, <1>3, <1>5, <1>7, <2>1 DEF Copying
  <2>2. CASE q # p
    BY <1>1, <1>7, <2>2 DEF Inv, Copying
  <2> QED
    BY <2>1, <2>2
<1>10. \A q \in Peer : copy'[q].first = copy[q].first
                      /\ (copy'[q].stage = "idle" => copy[q].stage = "idle")
                      /\ (copy[q].stage = "idle" => copy'[q].stage = "idle")
  BY <1>1, <1>5, <1>7
<1>11. Opened' /\ Parsing'
  BY <1>1, <1>10 DEF Inv, Opened, Parsing, Short, Peer
<1> QED
  BY <1>1, <1>8, <1>9, <1>10, <1>11 DEF Inv

LEMMA NextInv == Inv /\ [Next]_vars => Inv'
<1> SUFFICES ASSUME Inv, [Next]_vars PROVE Inv'
  OBVIOUS
<1>1. CASE Network
  BY <1>1, NetworkInv
<1>2. CASE Reading \/ Ending \/ Dial
  BY <1>2, ReadingInv, EndingInv, DialInv
<1>3. CASE \E p \in Peer : Copier(p)
  BY <1>3, CopierInv
<1>4. CASE UNCHANGED vars
  BY <1>4 DEF vars, Inv, TypeOK, Parsing, Opened, Copying, Short
<1> QED
  BY <1>1, <1>2, <1>3, <1>4 DEF Next, HandleClient, Reading, Ending

-----------------------------------------------------------------------------
(* The types of Socks5, and that the parser never reads past what has come. *)
THEOREM TypeCorrect == Spec => []TypeOK
<1>1. Inv => TypeOK
  BY DEF Inv
<1> QED
  BY <1>1, InitInv, NextInv, PTL DEF Spec

(* Whatever the pieces in which a request of any size comes, the proxy dials *)
(* what it names and copies from the byte after it, unless the one Read of   *)
(* an IPv4 address fell short.                                               *)
THEOREM TargetTheorem == Spec => []RightTarget
<1>1. Inv => RightTarget
  BY DEF Inv, RightTarget, Parsing, Opened
<1> QED
  BY <1>1, InitInv, NextInv, PTL DEF Spec

-----------------------------------------------------------------------------
(* Nothing is answered before the request has been read or refused, and     *)
(* what answers ends the parsing.                                           *)
Answered ==
  /\ answers \in Seq({0, 1, 7, 8}) /\ Len(answers) <= 1
  /\ stage \notin {"relay", "done"} => answers = << >>

LEMMA AnsweredNext == Answered /\ [Next]_vars => Answered'
<1> SUFFICES ASSUME Answered, [Next]_vars PROVE Answered'
  OBVIOUS
<1>1. CASE answers' = answers /\ (stage \in {"relay", "done"} => stage' \in {"relay", "done"})
  BY <1>1 DEF Answered
<1>2. ASSUME NEW code \in {0, 1, 7, 8}, Answer(code), stage \notin {"relay", "done"},
             stage' \in {"relay", "done"}
      PROVE  Answered'
  <2>1. answers = << >>
    BY <1>2 DEF Answered
  <2>2. answers' = << >> \/ answers' = <<code>>
    BY <1>2, <2>1 DEF Answer
  <2>3. Len(<< >>) <= 1 /\ << >> \in Seq({0, 1, 7, 8})
    OBVIOUS
  <2>4. Len(<<code>>) <= 1 /\ <<code>> \in Seq({0, 1, 7, 8})
    OBVIOUS
  <2>5. Len(answers') <= 1 /\ answers' \in Seq({0, 1, 7, 8})
    BY <2>2, <2>3, <2>4, Zenon
  <2> QED
    BY <1>2, <2>5 DEF Answered
<1>3. CASE Reading
  BY <1>1, <1>3 DEF Reading, ReadGreeting, ReadMethods, ReadHeader, ReadAddress, ReadLength, ReadName, ReadPort
<1>4. CASE HandshakeFails \/ Close
  BY <1>1, <1>4 DEF HandshakeFails, Close
<1>5. CASE RefuseHeader
  BY <1>2, <1>5 DEF RefuseHeader, Refuse
<1>6. CASE RequestFails
  BY <1>2, <1>6 DEF RequestFails, Refuse
<1>7. CASE DialFails \/ Dial
  BY <1>2, <1>7 DEF DialFails, Dial, Refuse
<1>8. CASE UNCHANGED <<stage, answers>>
  BY <1>1, <1>8
<1> QED
  BY <1>3, <1>4, <1>5, <1>6, <1>7, <1>8
     DEF Next, vars, Network, HandleClient, Copier, Reading, Arrive, HalfClose, Reset, CopyRead, CopyWrite, CopyEnd

(* Whatever comes in whatever pieces, and however the dial and the relay    *)
(* go, a client gets no answer before its request was refused or relaying   *)
(* began, and never a second one: the second half of AnsweredOnce.          *)
THEOREM NoSecondAnswer ==
  Spec => []( /\ Len(answers) <= 1
              /\ stage \notin {"relay", "done"} => answers = << >> )
<1>1. Init => Answered
  BY DEF Init, Answered
<1>2. Answered => /\ Len(answers) <= 1
                  /\ stage \notin {"relay", "done"} => answers = << >>
  BY DEF Answered
<1> QED
  BY <1>1, <1>2, AnsweredNext, PTL DEF Spec

-----------------------------------------------------------------------------
(* The direction from p as a ByteStream: Up for the client, Down for the    *)
(* target.                                                                  *)
Stream(p) == INSTANCE ByteStream WITH
  source <- in[p].st,       given  <- in[p].arr,
  first  <- copy[p].first,  passed <- copy[p].sent,
  told   <- copy[p].told,   broken <- in[Other(p)].st = "reset"

LEMMA StreamInit == ASSUME NEW p \in Peer, Init PROVE Stream(p)!Init
<1>1. in[p] = [arr |-> 0, st |-> "open"] /\ in[Other(p)] = [arr |-> 0, st |-> "open"]
      /\ copy[p] = Idle
  BY DEF Init, Peer, Other
<1> QED
  BY <1>1 DEF Stream!Init, Stream!NotOpen, Idle

(* The peers' steps: the source's own, the sink's, or those of neither. *)
LEMMA StreamNetwork ==
  ASSUME NEW p \in Peer, Inv, Network
  PROVE  [Stream(p)!Next]_(Stream(p)!vars)
<1>0. TypeOK /\ in \in [Peer -> [arr : Nat, st : {"open", "eof", "reset"}]]
  BY DEF Inv, TypeOK
<1>1. UNCHANGED copy /\ Other(p) \in Peer /\ Other(p) # p
      /\ \A q \in Peer : q = p \/ q = Other(p)
  BY DEF Network, Arrive, HalfClose, Reset, Other, Peer
<1>2. PICK q \in Peer : (\E n \in 1 .. Limit(q) : Arrive(q, n)) \/ HalfClose(q) \/ Reset(q)
  BY DEF Network
<1>3. CASE \E n \in 1 .. Limit(q) : Arrive(q, n)
  <2>0. PICK n \in 1 .. Limit(q) : Arrive(q, n)
    BY <1>3
  <2>1. n \in Nat /\ n > 0 /\ in[q].st = "open"
        /\ in' = [in EXCEPT ![q] = [in[q] EXCEPT !.arr = @ + n]]
    BY <2>0 DEF Arrive
  <2>2. CASE q = p
    <3>1. in'[p].arr = in[p].arr + n /\ in'[p].st = in[p].st /\ in'[Other(p)] = in[Other(p)]
      BY <1>0, <1>1, <2>1, <2>2
    <3>2. in'[p].arr \in Nat /\ in'[p].arr > in[p].arr
      BY <1>0, <2>1, <3>1
    <3>3. Stream(p)!Give
      BY <1>1, <2>1, <2>2, <3>1, <3>2 DEF Stream!Give
    <3> QED
      BY <3>3 DEF Stream!Next
  <2>3. CASE q = Other(p)
    BY <1>0, <1>1, <2>1, <2>3 DEF Stream!vars
  <2> QED
    BY <1>1, <2>2, <2>3
<1>4. CASE HalfClose(q) \/ Reset(q)
  <2> DEFINE s == IF HalfClose(q) THEN "eof" ELSE "reset"
  <2>0. /\ in' = [in EXCEPT ![q] = [in[q] EXCEPT !.st = s]]
        /\ in[q].st # "reset" /\ s \in {"eof", "reset"}
        /\ s = "eof" => in[q].st = "open"
    BY <1>4 DEF HalfClose, Reset
  <2> HIDE DEF s
  <2>1. /\ in'[q].st = s /\ in'[q].arr = in[q].arr
        /\ \A k \in Peer : k # q => in'[k] = in[k]
    BY <1>0, <2>0
  <2>2. CASE q = p
    <3>1. in'[p].st = s /\ in'[p].arr = in[p].arr /\ in'[Other(p)] = in[Other(p)]
      BY <1>1, <2>1, <2>2
    <3>2. in[p].st \in {"open", "eof"}
      BY <1>0, <2>0, <2>2
    <3>3. Stream(p)!End
      BY <1>1, <2>0, <2>2, <3>1, <3>2 DEF Stream!End
    <3> QED
      BY <3>3 DEF Stream!Next
  <2>3. CASE q = Other(p)
    <3>1. in'[Other(p)].st = s /\ in'[p] = in[p]
      BY <1>1, <2>1, <2>3
    <3>2. CASE s = "eof"
      BY <1>1, <2>0, <2>3, <3>1, <3>2 DEF Stream!vars
    <3>3. CASE s = "reset"
      <4>1. Stream(p)!Break
        BY <1>1, <2>0, <2>3, <3>1, <3>3 DEF Stream!Break
      <4> QED
        BY <4>1 DEF Stream!Next
    <3> QED
      BY <2>0, <3>2, <3>3
  <2> QED
    BY <1>1, <2>2, <2>3
<1> QED
  BY <1>2, <1>3, <1>4

(* The dial opens both streams: the client's where the parser stopped.      *)
LEMMA StreamHandler ==
  ASSUME NEW p \in Peer, Inv, HandleClient
  PROVE  [Stream(p)!Next]_(Stream(p)!vars)
<1>1. CASE Reading \/ Ending
  <2>1. UNCHANGED <<in, copy>>
    BY <1>1 DEF Reading, Ending, ReadGreeting, ReadMethods, ReadHeader, ReadAddress,
         ReadLength, ReadName, ReadPort, HandshakeFails, RefuseHeader, RequestFails,
         DialFails, Close, Refuse
  <2> QED
    BY <2>1 DEF Stream!vars
<1>2. CASE Dial
  <2>1. UNCHANGED in /\ copy[p] = Idle
    BY <1>2 DEF Dial, Inv, Copying
  <2> DEFINE at == IF p = "client" THEN used ELSE 0
  <2>2. copy'[p] = [Idle EXCEPT !.stage = "copy", !.first = at, !.pos = at]
    BY <1>2 DEF Dial
  <2>3. used \in Nat /\ used <= in["client"].arr /\ in[p].arr \in Nat
    BY DEF Inv, TypeOK
  <2>4. at \in 0 .. in[p].arr
    BY <2>3
  <2> HIDE DEF at
  <2>5. copy'[p].first = at /\ copy'[p].sent = 0 /\ copy'[p].told = FALSE
    BY <2>2 DEF Idle
  <2>6. copy[p].first = -1 /\ copy[p].sent = 0 /\ copy[p].told = FALSE
    BY <2>1 DEF Idle
  <2>7. Stream(p)!Open
    BY <2>1, <2>4, <2>5, <2>6 DEF Stream!Open, Stream!NotOpen
  <2> QED
    BY <2>7 DEF Stream!Next
<1> QED
  BY <1>1, <1>2 DEF HandleClient, Reading, Ending

(* A write passes on what was read; the end of the goroutine tells the sink. *)
LEMMA StreamCopier ==
  ASSUME NEW p \in Peer, Inv, \E q \in Peer : Copier(q)
  PROVE  [Stream(p)!Next]_(Stream(p)!vars)
<1>0. copy[p] \in [stage : {"idle", "copy", "done"}, first : Nat \cup {-1},
                  pos : Nat, held : Nat, sent : Nat, told : BOOLEAN]
      /\ in[p].arr \in Nat /\ Copying(p) /\ DOMAIN copy = Peer
  BY DEF Inv, TypeOK
<1>1. PICK q \in Peer : Copier(q)
  OBVIOUS
<1>2. UNCHANGED in
  BY <1>1 DEF Copier, CopyRead, CopyWrite, CopyEnd
<1>3. CASE q # p
  <2>1. copy'[p] = copy[p]
    BY <1>0, <1>1, <1>3 DEF Copier, CopyRead, CopyWrite, CopyEnd
  <2> QED
    BY <1>2, <2>1 DEF Stream!vars
<1>4. CASE q = p /\ CopyRead(p)
  <2>1. PICK n \in 1 .. in[p].arr - copy[p].pos :
          copy' = [copy EXCEPT ![p] = [copy[p] EXCEPT !.pos = @ + n, !.held = n]]
    BY <1>4 DEF CopyRead
  <2>2. copy'[p].first = copy[p].first /\ copy'[p].sent = copy[p].sent
        /\ copy'[p].told = copy[p].told
    BY <1>0, <2>1
  <2> QED
    BY <1>2, <2>2 DEF Stream!vars
<1>5. CASE q = p /\ CopyWrite(p)
  <2>1. copy[p].stage = "copy" /\ copy[p].held > 0 /\ in[Other(p)].st # "reset"
        /\ copy' = [copy EXCEPT ![p] = [copy[p] EXCEPT !.sent = @ + copy[p].held, !.held = 0]]
    BY <1>5 DEF CopyWrite
  <2>2. copy'[p].first = copy[p].first /\ copy'[p].sent = copy[p].sent + copy[p].held
        /\ copy'[p].told = copy[p].told
    BY <1>0, <2>1
  <2>3. copy[p].first \in Nat /\ ~copy[p].told
        /\ copy[p].first + copy[p].sent + copy[p].held = copy[p].pos
        /\ copy[p].pos <= in[p].arr
    BY <1>0, <2>1 DEF Copying
  <2>4. copy[p].first # -1 /\ copy'[p].sent \in Nat /\ copy'[p].sent > copy[p].sent
        /\ copy[p].first + copy'[p].sent <= in[p].arr
    BY <1>0, <2>1, <2>2, <2>3
  <2>5. Stream(p)!Pass
    BY <1>2, <2>1, <2>2, <2>3, <2>4 DEF Stream!Pass, Stream!NotOpen
  <2> QED
    BY <2>5 DEF Stream!Next
<1>6. CASE q = p /\ CopyEnd(p)
  <2>1. copy[p].stage = "copy" /\ CopyEnds(p)
        /\ copy' = [copy EXCEPT ![p] = Ended(copy[p])]
    BY <1>6 DEF CopyEnd
  <2>2. copy'[p].first = copy[p].first /\ copy'[p].sent = copy[p].sent /\ copy'[p].told = TRUE
    BY <1>0, <2>1 DEF Ended
  <2>3. copy[p].first \in Nat /\ ~copy[p].told
        /\ copy[p].first + copy[p].sent + copy[p].held = copy[p].pos
    BY <1>0, <2>1 DEF Copying
  <2>4. copy[p].held = 0 /\ copy[p].pos = in[p].arr => copy[p].first + copy[p].sent = in[p].arr
    BY <1>0, <2>3
  <2>5. copy[p].first # -1
    BY <2>3
  <2>6. \/ in[p].st = "eof" /\ copy[p].first + copy[p].sent = in[p].arr
        \/ in[p].st = "reset" \/ in[Other(p)].st = "reset"
    BY <2>1, <2>4 DEF CopyEnds
  <2>7. Stream(p)!Tell
    BY <1>2, <2>2, <2>3, <2>5, <2>6 DEF Stream!Tell, Stream!NotOpen
  <2> QED
    BY <2>7 DEF Stream!Next
<1> QED
  BY <1>1, <1>3, <1>4, <1>5, <1>6 DEF Copier

LEMMA StreamNext ==
  ASSUME NEW p \in Peer, Inv, [Next]_vars
  PROVE  [Stream(p)!Next]_(Stream(p)!vars)
<1>1. CASE UNCHANGED vars
  BY <1>1 DEF vars, Stream!vars
<1> QED
  BY <1>1, StreamNetwork, StreamHandler, StreamCopier DEF Next

(* The proxy implements a ByteStream in either direction, for requests and   *)
(* data of any size: nothing is lost, repeated or reordered, and an end is   *)
(* passed on after the bytes before it.                                      *)
THEOREM RelayTheorem == Spec => Relays
<1>1. Init => Up!Init /\ Down!Init
  <2>1. Init => Stream("client")!Init /\ Stream("target")!Init
    BY StreamInit DEF Peer
  <2> QED
    BY <2>1 DEF Stream!Init, Up!Init, Down!Init, Stream!NotOpen, Up!NotOpen, Down!NotOpen, Other
<1>2. Inv /\ [Next]_vars => [Up!Next]_Up!vars
  <2> SUFFICES ASSUME Inv, [Next]_vars PROVE [Up!Next]_Up!vars
    OBVIOUS
  <2>1. [Stream("client")!Next]_(Stream("client")!vars)
    BY StreamNext DEF Peer
  <2>2. Other("client") = "target"
    BY DEF Other
  <2> QED
    BY <2>1, <2>2 DEF Stream!Next, Stream!vars, Stream!Give, Stream!End, Stream!Open,
      Stream!Pass, Stream!Tell, Stream!Break, Stream!NotOpen, Up!Next, Up!vars, Up!Give,
      Up!End, Up!Open, Up!Pass, Up!Tell, Up!Break, Up!NotOpen
<1>3. Inv /\ [Next]_vars => [Down!Next]_Down!vars
  <2> SUFFICES ASSUME Inv, [Next]_vars PROVE [Down!Next]_Down!vars
    OBVIOUS
  <2>1. [Stream("target")!Next]_(Stream("target")!vars)
    BY StreamNext DEF Peer
  <2>2. Other("target") = "client"
    BY DEF Other
  <2> QED
    BY <2>1, <2>2 DEF Stream!Next, Stream!vars, Stream!Give, Stream!End, Stream!Open,
      Stream!Pass, Stream!Tell, Stream!Break, Stream!NotOpen, Down!Next, Down!vars, Down!Give,
      Down!End, Down!Open, Down!Pass, Down!Tell, Down!Break, Down!NotOpen
<1> QED
  BY <1>1, <1>2, <1>3, InitInv, NextInv, PTL DEF Spec, Relays, Up!Spec, Down!Spec
=============================================================================
