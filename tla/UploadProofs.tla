--------------------------- MODULE UploadProofs ---------------------------
(***************************************************************************)
(* Proofs about lab2, for any number of clients and names, buffers and     *)
(* files of any size, and any number of short sends, cuts and kills: the   *)
(* types, what an answer means, and what is on the disk.                   *)
(***************************************************************************)
EXTENDS Upload, SequenceTheorems, TLAPS

(* The bytes of a client that a thread has (s) and has still to read (t).   *)
Total(s, t) == Len(s) + Len(t)
At(s, t, k) == IF k <= Len(s) THEN s[k] ELSE t[k - Len(s)]

(* Both after n more were read, and the second after k were sent from pos on. *)
Read(s, t, n)   == s \o SubSeq(t, 1, n)
Rest(t, n)      == SubSeq(t, n + 1, Len(t))
Sent(t, pos, k) == t \o [i \in 1 .. k |-> pos + i]

(* They come from the file in order, up to pos: none twice.                 *)
Rising(s, t, pos) ==
  /\ \A k \in 1 .. Total(s, t) : At(s, t, k) <= pos
  /\ \A j, k \in 1 .. Total(s, t) : j <= k => At(s, t, k) - At(s, t, j) >= k - j

(* None is missing either.                                                  *)
Gapless(s, t, pos) ==
  \A k \in 1 .. Total(s, t) : At(s, t, k) = pos - (Total(s, t) - k)

Fresh == {"none", "header"}
Past  == {"open", "body", "answer", "close"}

Bytes(c) ==
  /\ cl[c].sent <= cl[c].pos /\ cl[c].pos <= size[c]
  /\ Rising(h[c].got, conn[c].up, cl[c].pos)
  /\ cl[c].stage \in {"start", "header"} =>
       cl[c].pos = 0 /\ conn[c].up = << >> /\ h[c].got = << >> /\ h[c].stage \notin Past
  /\ h[c].stage \in Fresh =>
       h[c].got = << >> /\ (cl[c].stage = "body" => conn[c].up # << >>)
  /\ h[c].stage \in Past => \A i \in 1 .. Len(conn[c].up) : conn[c].up[i] >= 1

NoGap(c) ==
  shorts = 0 =>
    /\ Gapless(h[c].got, conn[c].up, cl[c].pos)
    /\ h[c].stage \in Fresh /\ conn[c].up # << >> =>
         Total(h[c].got, conn[c].up) = cl[c].pos + 1
    /\ h[c].stage \in Past => Total(h[c].got, conn[c].up) = cl[c].pos

(* Who has ended, and what was said before.                                 *)
Protocol(c) ==
  /\ conn[c].fin => Gone(c)
  /\ cl[c].stage = "ok" => conn[c].down # "none" \/ conn[c].sfin
  /\ conn[c].sfin => h[c].stage = "done" \/ ~alive
  /\ h[c].stage = "answer" => Len(h[c].got) >= size[c] \/ conn[c].reset \/ conn[c].fin
  /\ conn[c].down # "none" => h[c].stage \in {"close", "done"}
  /\ conn[c].down = "bad" => cl[c].stage \in {"failed", "killed"}
  /\ conn[c].down = "right" => h[c].got = [i \in 1 .. size[c] |-> i]

Alone(c) == \A d \in Client \ {c} : h[d].file # h[c].file

(* A name is opened once by a connection; the file of one that nobody else  *)
(* has opened holds what was flushed.                                       *)
Writing(c) ==
  /\ h[c].stage \in Fresh \cup {"open"} => h[c].file = NoPath /\ h[c].flushed = 0
  /\ h[c].stage \in {"body", "answer", "close"} => h[c].file \in Path
  /\ conn[c].down # "none" => h[c].file \in Path
  /\ conn[c].down # "none" /\ h[c].stage = "done" => h[c].flushed = Len(h[c].got)
  /\ h[c].file # NoPath /\ Alone(c) =>
       disk[h[c].file] = [i \in 1 .. h[c].flushed |-> <<c, h[c].got[i]>>]

Offsets ==
  shorts = 0 =>
    \A p \in Path : \A i \in DOMAIN disk[p] : disk[p][i] = Hole \/ disk[p][i][2] = i

Mine(c) == Bytes(c) /\ NoGap(c) /\ Protocol(c)

Stages   == {"start", "header", "body", "wait", "ok", "failed", "killed"}
ClSet    == [stage : Stages, pos : 0 .. MaxSize, sent : 0 .. MaxSize]
ConnSet  == [open : BOOLEAN, up : Seq(0 .. MaxSize), fin : BOOLEAN,
             down : {"none", "right", "bad"}, sfin : BOOLEAN, reset : BOOLEAN]
HSet     == [stage : {"none", "header", "open", "body", "answer", "close", "done"},
             file : Path \cup {NoPath}, got : Seq(1 .. MaxSize), flushed : 0 .. MaxSize]
Contents == Seq((Client \cup {Old}) \X (0 .. MaxSize + 1))

(* The type invariant but for what one count bounds of another.             *)
Types ==
  /\ size \in [Client -> 0 .. MaxSize]
  /\ cl \in [Client -> ClSet] /\ conn \in [Client -> ConnSet]
  /\ h \in [Client -> HSet]
  /\ \A c \in Client : h[c].flushed <= Len(h[c].got)
  /\ disk \in [Path -> Contents]
  /\ alive \in BOOLEAN /\ shorts \in 0 .. MaxShort /\ faults \in 0 .. MaxFaults

Inv ==
  /\ Types
  /\ \A c \in Client : Mine(c) /\ Writing(c)
  /\ Offsets

-----------------------------------------------------------------------------
(* The stream between a client and its thread                              *)

(* Reading moves bytes from t to s and changes nothing of the whole.        *)
LEMMA ReadBytes ==
  ASSUME NEW s \in Seq(0 .. MaxSize), NEW t \in Seq(0 .. MaxSize), NEW n \in 1 .. Len(t)
  PROVE  LET u == Read(s, t, n)
             v == Rest(t, n)
         IN /\ Total(u, v) = Total(s, t)
            /\ \A k \in 1 .. Total(s, t) : At(u, v, k) = At(s, t, k)
            /\ \A i \in 1 .. Len(v) : v[i] = t[n + i]
            /\ Len(u) = Len(s) + n /\ v \in Seq(0 .. MaxSize)
            /\ \A i \in 1 .. Len(u) : u[i] = IF i <= Len(s) THEN s[i] ELSE t[i - Len(s)]
<1> DEFINE x == SubSeq(t, 1, n)
           u == Read(s, t, n)
           v == Rest(t, n)
<1>1. Len(s) \in Nat /\ Len(t) \in Nat /\ n \in Nat /\ 1 <= n /\ n <= Len(t)
  OBVIOUS
<1>2. x \in Seq(0 .. MaxSize) /\ Len(x) = n /\ \A i \in 1 .. n : x[i] = t[i]
  <2>1. x = [i \in 1 .. n |-> t[i]]
    <3>1. x = [i \in 1 .. n - 1 + 1 |-> t[1 + i - 1]]
      BY <1>1
    <3>2. n - 1 + 1 = n /\ \A i \in 1 .. n : 1 + i - 1 = i
      BY <1>1
    <3> HIDE DEF x
    <3> QED
      BY <3>1, <3>2
  <2>2. ASSUME NEW i \in 1 .. n PROVE t[i] \in 0 .. MaxSize
    <3>1. i \in 1 .. Len(t)
      BY <1>1
    <3> QED
      BY <3>1, ElementOfSeq
  <2> HIDE DEF x
  <2> QED
    BY <1>1, <2>1, <2>2
<1>3. v \in Seq(0 .. MaxSize) /\ Len(v) = Len(t) - n /\ \A i \in 1 .. Len(v) : v[i] = t[n + i]
  <2>1. v = [i \in 1 .. Len(t) - n |-> t[n + i]]
    BY <1>1 DEF Rest
  <2>2. ASSUME NEW i \in 1 .. Len(t) - n PROVE t[n + i] \in 0 .. MaxSize
    <3>1. n + i \in 1 .. Len(t)
      BY <1>1
    <3> QED
      BY <3>1, ElementOfSeq
  <2>3. Len(t) - n \in Nat
    BY <1>1
  <2> HIDE DEF v
  <2> QED
    BY <2>1, <2>2, <2>3
<1> HIDE DEF x, v
<1>4. Len(u) = Len(s) + n
      /\ \A i \in 1 .. Len(u) : u[i] = IF i <= Len(s) THEN s[i] ELSE t[i - Len(s)]
  <2>1. u \in Seq(0 .. MaxSize) /\ Len(u) = Len(s) + Len(x)
        /\ \A i \in 1 .. Len(s) + Len(x) : u[i] = IF i <= Len(s) THEN s[i] ELSE x[i - Len(s)]
    BY <1>2, ConcatProperties DEF x, Read
  <2>2. ASSUME NEW i \in 1 .. Len(u) PROVE u[i] = IF i <= Len(s) THEN s[i] ELSE t[i - Len(s)]
    <3>1. ~(i <= Len(s)) => i - Len(s) \in 1 .. n
      BY <1>1, <1>2, <2>1
    <3> QED
      BY <1>1, <1>2, <2>1, <3>1
  <2> QED
    BY <1>2, <2>1, <2>2
<1> HIDE DEF u
<1>5. Total(u, v) = Total(s, t)
  BY <1>1, <1>3, <1>4 DEF Total
<1>6. ASSUME NEW k \in 1 .. Total(s, t) PROVE At(u, v, k) = At(s, t, k)
  <2>1. CASE k <= Len(s) + n
    BY <1>1, <1>4, <2>1 DEF At, Total
  <2>2. CASE ~(k <= Len(s) + n)
    <3>1. k \in 1 .. Len(s) + Len(t) /\ Len(v) = Len(t) - n /\ Len(u) = Len(s) + n
      BY <1>3, <1>4 DEF Total
    <3>2. k - (Len(s) + n) \in 1 .. Len(v) /\ ~(k <= Len(s)) /\ n + (k - (Len(s) + n)) = k - Len(s)
      BY <1>1, <2>2, <3>1
    <3>3. v[k - (Len(s) + n)] = t[k - Len(s)]
      BY <1>3, <3>2
    <3> QED
      BY <2>2, <3>1, <3>2, <3>3 DEF At
  <2> QED
    BY <2>1, <2>2
<1> QED
  BY <1>3, <1>4, <1>5, <1>6 DEF u, v

LEMMA ReadRising ==
  ASSUME NEW s \in Seq(0 .. MaxSize), NEW t \in Seq(0 .. MaxSize), NEW n \in 1 .. Len(t),
         NEW pos \in Nat
  PROVE  /\ Rising(s, t, pos) => Rising(Read(s, t, n), Rest(t, n), pos)
         /\ Gapless(s, t, pos) => Gapless(Read(s, t, n), Rest(t, n), pos)
<1>1. /\ Total(Read(s, t, n), Rest(t, n)) = Total(s, t)
      /\ \A k \in 1 .. Total(s, t) : At(Read(s, t, n), Rest(t, n), k) = At(s, t, k)
  BY ReadBytes
<1> QED
  BY <1>1 DEF Rising, Gapless

LEMMA AfterFirst ==
  ASSUME NEW S, NEW t \in Seq(S), 1 \in 1 .. Len(t)
  PROVE  LET v == SubSeq(t, 2, Len(t))
         IN /\ v \in Seq(S) /\ Len(v) = Len(t) - 1 /\ Len(t) \in Nat /\ Len(t) >= 1
            /\ \A i \in 1 .. Len(v) : v[i] = t[i + 1]
<1> DEFINE v == SubSeq(t, 2, Len(t))
<1>1. Len(t) \in Nat /\ Len(t) >= 1 /\ \A i \in 2 .. Len(t) : t[i] \in S
  BY LenProperties
<1>2. v \in Seq(S) /\ Len(v) = (IF 2 <= Len(t) THEN Len(t) - 2 + 1 ELSE 0)
      /\ \A i \in 1 .. Len(t) - 2 + 1 : v[i] = t[2 + i - 1]
  BY <1>1, SubSeqProperties
<1> HIDE DEF v
<1>3. Len(v) = Len(t) - 1
  <2>1. \A n \in Nat : n >= 1 => (IF 2 <= n THEN n - 2 + 1 ELSE 0) = n - 1
    OBVIOUS
  <2> QED
    BY <1>1, <1>2, <2>1, Zenon
<1>4. ASSUME NEW i \in 1 .. Len(v) PROVE v[i] = t[i + 1]
  <2>1. i \in 1 .. Len(t) - 2 + 1 /\ 2 + i - 1 = i + 1
    BY <1>1, <1>3
  <2> QED
    BY <1>2, <2>1
<1> QED
  BY <1>1, <1>2, <1>3, <1>4 DEF v

(* What the thread reads as the header is the header: bytes are behind it.  *)
LEMMA DropHeader ==
  ASSUME NEW t \in Seq(0 .. MaxSize), 1 \in 1 .. Len(t), NEW pos \in Nat,
         Rising(<< >>, t, pos)
  PROVE  LET v == SubSeq(t, 2, Len(t))
         IN /\ Rising(<< >>, v, pos)
            /\ \A i \in 1 .. Len(v) : v[i] >= 1
            /\ Total(<< >>, v) = Total(<< >>, t) - 1
            /\ Gapless(<< >>, t, pos) => Gapless(<< >>, v, pos)
<1> DEFINE v == SubSeq(t, 2, Len(t))
<1>1. v \in Seq(0 .. MaxSize) /\ Len(v) = Len(t) - 1 /\ Len(t) \in Nat /\ Len(t) >= 1
      /\ \A i \in 1 .. Len(v) : v[i] = t[i + 1]
  BY AfterFirst
<1> HIDE DEF v
<1>2. Total(<< >>, t) = Len(t) /\ Total(<< >>, v) = Len(v) /\ Len(v) = Len(t) - 1
  BY <1>1 DEF Total
<1>3. \A k \in Nat : k >= 1 => At(<< >>, t, k) = t[k] /\ At(<< >>, v, k) = v[k]
  BY DEF At
<1>4. \A k \in 1 .. Len(t) : t[k] \in Int /\ t[k] >= 0 /\ t[k] <= pos
  <2> SUFFICES ASSUME NEW k \in 1 .. Len(t) PROVE t[k] \in Int /\ t[k] >= 0 /\ t[k] <= pos
    OBVIOUS
  <2>1. k \in Nat /\ k >= 1 /\ k \in 1 .. Total(<< >>, t)
    BY <1>1, <1>2
  <2>2. At(<< >>, t, k) <= pos
    BY <2>1 DEF Rising
  <2>3. t[k] \in 0 .. MaxSize
    BY ElementOfSeq
  <2> QED
    BY <1>3, <2>1, <2>2, <2>3
<1>5. \A j, k \in 1 .. Len(t) : j <= k => t[k] - t[j] >= k - j
  <2> SUFFICES ASSUME NEW j \in 1 .. Len(t), NEW k \in 1 .. Len(t), j <= k
               PROVE  t[k] - t[j] >= k - j
    OBVIOUS
  <2>1. /\ k \in Nat /\ k >= 1 /\ k \in 1 .. Total(<< >>, t)
        /\ j \in Nat /\ j >= 1 /\ j \in 1 .. Total(<< >>, t)
    BY <1>1, <1>2
  <2>2. At(<< >>, t, k) - At(<< >>, t, j) >= k - j
    BY <2>1 DEF Rising
  <2> QED
    BY <1>3, <2>1, <2>2
<1>6. \A k \in 1 .. Len(v) : v[k] \in Int /\ v[k] <= pos /\ v[k] >= 1
  <2> SUFFICES ASSUME NEW k \in 1 .. Len(v) PROVE v[k] \in Int /\ v[k] <= pos /\ v[k] >= 1
    OBVIOUS
  <2>1. k + 1 \in 1 .. Len(t) /\ 1 \in 1 .. Len(t) /\ 1 <= k + 1 /\ k \in Nat /\ k >= 1
    BY <1>1
  <2>2. t[k + 1] - t[1] >= (k + 1) - 1
    BY <1>5, <2>1
  <2>3. v[k] = t[k + 1] /\ t[k + 1] \in Int /\ t[k + 1] <= pos /\ t[1] \in Int /\ t[1] >= 0
    BY <1>1, <1>4, <2>1
  <2> QED
    BY <2>1, <2>2, <2>3
<1>7. \A j, k \in 1 .. Len(v) : j <= k => v[k] - v[j] >= k - j
  <2> SUFFICES ASSUME NEW j \in 1 .. Len(v), NEW k \in 1 .. Len(v), j <= k
               PROVE  v[k] - v[j] >= k - j
    OBVIOUS
  <2>1. j + 1 \in 1 .. Len(t) /\ k + 1 \in 1 .. Len(t) /\ j + 1 <= k + 1
    BY <1>1
  <2>2. t[k + 1] - t[j + 1] >= (k + 1) - (j + 1)
    BY <1>5, <2>1
  <2> QED
    BY <1>1, <2>2
<1>8. Rising(<< >>, v, pos)
  <2>1. \A k \in 1 .. Len(v) : At(<< >>, v, k) = v[k]
    BY <1>3
  <2> QED
    BY <1>2, <1>6, <1>7, <2>1 DEF Rising
<1>9. Gapless(<< >>, t, pos) => Gapless(<< >>, v, pos)
  <2> SUFFICES ASSUME Gapless(<< >>, t, pos), NEW k \in 1 .. Total(<< >>, v)
               PROVE  At(<< >>, v, k) = pos - (Total(<< >>, v) - k)
    BY DEF Gapless
  <2>1. k + 1 \in 1 .. Total(<< >>, t) /\ k + 1 \in Nat /\ k + 1 >= 1 /\ k \in Nat /\ k >= 1
        /\ k \in 1 .. Len(v)
    <3>1. k \in 1 .. Len(v)
      BY <1>2
    <3> QED
      BY <1>1, <1>2, <3>1
  <2>2. At(<< >>, t, k + 1) = pos - (Total(<< >>, t) - (k + 1))
    BY <2>1 DEF Gapless
  <2>3. At(<< >>, t, k + 1) = t[k + 1] /\ At(<< >>, v, k) = v[k] /\ v[k] = t[k + 1]
    BY <1>1, <1>3, <2>1
  <2> QED
    BY <1>1, <1>2, <2>1, <2>2, <2>3
<1> QED
  BY <1>2, <1>6, <1>8, <1>9 DEF v

(* A block of n bytes is read from the file and k of them are sent.         *)
LEMMA SendBytes ==
  ASSUME NEW s \in Seq(0 .. MaxSize), NEW t \in Seq(0 .. MaxSize), NEW pos \in Nat,
         NEW n \in Nat, NEW k \in 0 .. n, Rising(s, t, pos), pos + n <= MaxSize
  PROVE  LET v == Sent(t, pos, k)
         IN /\ Rising(s, v, pos + n)
            /\ v \in Seq(0 .. MaxSize) /\ Len(v) = Len(t) + k
            /\ \A i \in 1 .. Len(v) : v[i] = IF i <= Len(t) THEN t[i] ELSE pos + (i - Len(t))
            /\ k = n /\ Gapless(s, t, pos) => Gapless(s, v, pos + n)
<1> DEFINE x == [i \in 1 .. k |-> pos + i]
           v == Sent(t, pos, k)
<1>1. x \in Seq(0 .. MaxSize) /\ Len(x) = k /\ \A i \in 1 .. k : x[i] = pos + i
  BY BoundsAssumption
<1> HIDE DEF x
<1>2. v \in Seq(0 .. MaxSize) /\ Len(v) = Len(t) + k /\ Len(t) \in Nat /\ Len(s) \in Nat
      /\ \A i \in 1 .. Len(v) : v[i] = IF i <= Len(t) THEN t[i] ELSE pos + (i - Len(t))
  <2>0. Len(t) \in Nat /\ Len(s) \in Nat
    OBVIOUS
  <2>1. v \in Seq(0 .. MaxSize) /\ Len(v) = Len(t) + Len(x)
        /\ \A i \in 1 .. Len(t) + Len(x) : v[i] = IF i <= Len(t) THEN t[i] ELSE x[i - Len(t)]
    BY <1>1, ConcatProperties DEF x, Sent
  <2>2. ASSUME NEW i \in 1 .. Len(v)
        PROVE  v[i] = IF i <= Len(t) THEN t[i] ELSE pos + (i - Len(t))
    <3>1. ~(i <= Len(t)) => i - Len(t) \in 1 .. k
      BY <1>1, <2>0, <2>1
    <3> QED
      BY <1>1, <2>0, <2>1, <3>1
  <2> QED
    BY <1>1, <2>0, <2>1, <2>2
<1> HIDE DEF v
<1> DEFINE T == Total(s, t)
<1>3. Total(s, v) = T + k /\ T \in Nat
  BY <1>2 DEF Total
<1>4. \A j \in 1 .. T + k : At(s, v, j) = IF j <= T THEN At(s, t, j) ELSE pos + (j - T)
  <2> SUFFICES ASSUME NEW j \in 1 .. T + k
               PROVE  At(s, v, j) = IF j <= T THEN At(s, t, j) ELSE pos + (j - T)
    OBVIOUS
  <2>1. CASE j <= Len(s)
    BY <1>2, <2>1 DEF At, Total
  <2>2. CASE ~(j <= Len(s))
    <3>1. j - Len(s) \in 1 .. Len(v) /\ T = Len(s) + Len(t)
      BY <1>2, <2>2 DEF Total
    <3>2. v[j - Len(s)] = IF j - Len(s) <= Len(t) THEN t[j - Len(s)]
                          ELSE pos + ((j - Len(s)) - Len(t))
      BY <1>2, <3>1
    <3>3. j - Len(s) <= Len(t) <=> j <= T
      BY <1>2, <3>1
    <3>4. (j - Len(s)) - Len(t) = j - T
      BY <1>2, <3>1
    <3> HIDE DEF T
    <3> QED
      BY <2>2, <3>2, <3>3, <3>4 DEF At
  <2> QED
    BY <2>1, <2>2
<1>5. \A j \in 1 .. T : At(s, t, j) \in Int /\ At(s, t, j) <= pos - (T - j)
  <2> SUFFICES ASSUME NEW j \in 1 .. T
               PROVE  At(s, t, j) \in Int /\ At(s, t, j) <= pos - (T - j)
    OBVIOUS
  <2>0. ASSUME NEW i \in 1 .. T PROVE At(s, t, i) \in Int
    <3>1. CASE i <= Len(s)
      <4>1. i \in 1 .. Len(s)
        BY <1>2, <3>1
      <4>2. s[i] \in 0 .. MaxSize
        BY <4>1, ElementOfSeq
      <4> QED
        BY <3>1, <4>2 DEF At
    <3>2. CASE ~(i <= Len(s))
      <4>1. i - Len(s) \in 1 .. Len(t)
        BY <1>2, <3>2 DEF Total
      <4>2. t[i - Len(s)] \in 0 .. MaxSize
        BY <4>1, ElementOfSeq
      <4> QED
        BY <3>2, <4>2 DEF At
    <3> QED
      BY <3>1, <3>2
  <2>1. T \in 1 .. T /\ j <= T
    BY <1>3
  <2>2. At(s, t, T) - At(s, t, j) >= T - j /\ At(s, t, T) <= pos
    BY <2>1 DEF Rising
  <2> QED
    BY <1>3, <2>0, <2>1, <2>2
<1> HIDE DEF T
<1>6. \A j \in 1 .. T + k : At(s, v, j) <= pos + n
  <2> SUFFICES ASSUME NEW j \in 1 .. T + k PROVE At(s, v, j) <= pos + n
    OBVIOUS
  <2>1. CASE j <= T
    <3>1. At(s, v, j) = At(s, t, j) /\ At(s, t, j) \in Int /\ At(s, t, j) <= pos - (T - j)
      BY <1>3, <1>4, <1>5, <2>1
    <3> QED
      BY <1>3, <2>1, <3>1
  <2>2. CASE ~(j <= T)
    <3>1. At(s, v, j) = pos + (j - T) /\ j - T <= n
      BY <1>3, <1>4, <2>2
    <3> QED
      BY <1>3, <2>2, <3>1
  <2> QED
    BY <2>1, <2>2
<1>7. \A i, j \in 1 .. T + k : i <= j => At(s, v, j) - At(s, v, i) >= j - i
  <2> SUFFICES ASSUME NEW i \in 1 .. T + k, NEW j \in 1 .. T + k, i <= j
               PROVE  At(s, v, j) - At(s, v, i) >= j - i
    OBVIOUS
  <2>1. CASE j <= T
    <3>1. i \in 1 .. T /\ j \in 1 .. T
      BY <1>3, <2>1
    <3> QED
      <4>1. At(s, t, j) - At(s, t, i) >= j - i
        BY <3>1 DEF Rising, T
      <4>2. i \in 1 .. T + k /\ j \in 1 .. T + k /\ i <= T
        BY <1>3, <2>1, <3>1
      <4> QED
        BY <1>4, <2>1, <4>1, <4>2
  <2>2. CASE ~(j <= T)
    <3>1. At(s, v, j) = pos + (j - T)
      BY <1>3, <1>4, <2>2
    <3>2. CASE i <= T
      <4>1. At(s, v, i) = At(s, t, i) /\ At(s, t, i) \in Int /\ At(s, t, i) <= pos - (T - i)
        BY <1>3, <1>4, <1>5, <3>2
      <4> QED
        BY <1>3, <3>1, <4>1
    <3>3. CASE ~(i <= T)
      <4>1. At(s, v, i) = pos + (i - T)
        BY <1>3, <1>4, <3>3
      <4> QED
        BY <1>3, <3>1, <4>1
    <3> QED
      BY <3>2, <3>3
  <2> QED
    BY <2>1, <2>2
<1>8. Rising(s, v, pos + n)
  BY <1>3, <1>6, <1>7 DEF Rising
<1>9. k = n /\ Gapless(s, t, pos) => Gapless(s, v, pos + n)
  <2> SUFFICES ASSUME k = n, Gapless(s, t, pos), NEW j \in 1 .. T + k
               PROVE  At(s, v, j) = pos + n - (T + k - j)
    BY <1>3 DEF Gapless
  <2>1. CASE j <= T
    BY <1>3, <1>4, <2>1 DEF Gapless, T
  <2>2. CASE ~(j <= T)
    BY <1>3, <1>4, <2>2
  <2> QED
    BY <2>1, <2>2
<1> QED
  BY <1>2, <1>8, <1>9 DEF v

-----------------------------------------------------------------------------
(* The invariant                                                           *)

LEMMA Fields ==
  ASSUME Types, NEW c \in Client
  PROVE  /\ size[c] \in 0 .. MaxSize /\ cl[c].pos \in 0 .. MaxSize /\ cl[c].sent \in 0 .. MaxSize
         /\ conn[c].up \in Seq(0 .. MaxSize) /\ h[c].got \in Seq(1 .. MaxSize)
         /\ h[c].got \in Seq(0 .. MaxSize) /\ Len(h[c].got) \in Nat /\ Len(conn[c].up) \in Nat
         /\ h[c].flushed \in 0 .. Len(h[c].got)
         /\ conn[c].down \in {"none", "right", "bad"}
<1>1. size[c] \in 0 .. MaxSize /\ cl[c].pos \in 0 .. MaxSize /\ cl[c].sent \in 0 .. MaxSize
      /\ conn[c].up \in Seq(0 .. MaxSize) /\ h[c].got \in Seq(1 .. MaxSize)
      /\ h[c].flushed \in 0 .. MaxSize /\ h[c].flushed <= Len(h[c].got)
      /\ conn[c].down \in {"none", "right", "bad"}
  BY DEF Types, ClSet, Stages, ConnSet, HSet, Contents
<1>2. \A t \in Seq(1 .. MaxSize) : t \in Seq(0 .. MaxSize) /\ Len(t) \in Nat
  BY BoundsAssumption
<1>3. \A t \in Seq(0 .. MaxSize) : Len(t) \in Nat
  OBVIOUS
<1> QED
  BY <1>1, <1>2, <1>3, BoundsAssumption

LEMMA InitInv == Init => Inv
<1> SUFFICES ASSUME Init PROVE Inv
  OBVIOUS
<1>0. /\ cl = [c \in Client |-> [stage |-> "start", pos |-> 0, sent |-> 0]]
      /\ conn = [c \in Client |-> [open |-> FALSE, up |-> << >>, fin |-> FALSE,
                                   down |-> "none", sfin |-> FALSE, reset |-> FALSE]]
      /\ h = [c \in Client |-> [stage |-> "none", file |-> NoPath, got |-> << >>,
                                flushed |-> 0]]
      /\ disk = [p \in Path |-> [i \in 1 .. MaxSize + 1 |-> <<Old, i>>]]
      /\ alive = TRUE /\ shorts = 0 /\ faults = 0
  BY Zenon DEF Init
<1>1. size \in [Client -> 0 .. MaxSize]
  BY DEF Init
<1>2. Types
  <2>1. << >> \in Seq(0 .. MaxSize) /\ << >> \in Seq(1 .. MaxSize) /\ Len(<< >>) = 0
    OBVIOUS
  <2>2. [i \in 1 .. MaxSize + 1 |-> <<Old, i>>] \in Seq((Client \cup {Old}) \X (0 .. MaxSize + 1))
    BY BoundsAssumption
  <2>3. cl \in [Client -> ClSet]
    BY <1>0, BoundsAssumption DEF ClSet, Stages
  <2>4. conn \in [Client -> ConnSet]
    BY <1>0, <2>1 DEF ConnSet
  <2>5. h \in [Client -> HSet]
    BY <1>0, <2>1, BoundsAssumption DEF HSet
  <2>6. \A c \in Client : h[c].flushed <= Len(h[c].got)
    BY <1>0, <2>1
  <2>7. disk \in [Path -> Contents]
    BY <1>0, <2>2 DEF Contents
  <2>8. alive \in BOOLEAN /\ shorts \in 0 .. MaxShort /\ faults \in 0 .. MaxFaults
    BY <1>0, BoundsAssumption
  <2> QED
    BY <1>1, <2>3, <2>4, <2>5, <2>6, <2>7, <2>8 DEF Types
<1>3. ASSUME NEW c \in Client PROVE Mine(c) /\ Writing(c)
  <2>1. cl[c] = [stage |-> "start", pos |-> 0, sent |-> 0] /\ h[c].stage = "none"
        /\ h[c].got = << >> /\ conn[c].up = << >> /\ h[c].file = NoPath /\ h[c].flushed = 0
        /\ conn[c].down = "none" /\ ~conn[c].fin /\ ~conn[c].sfin /\ size[c] \in 0 .. MaxSize
    BY <1>0, <1>1
  <2>2. Total(<< >>, << >>) = 0
    BY DEF Total
  <2>3. Rising(<< >>, << >>, 0) /\ Gapless(<< >>, << >>, 0)
    BY <2>2 DEF Rising, Gapless
  <2> QED
    BY <2>1, <2>3, BoundsAssumption DEF Mine, Bytes, NoGap, Protocol, Writing, Gone, Fresh, Past
<1>4. Offsets
  BY <1>0 DEF Offsets
<1> QED
  BY <1>2, <1>3, <1>4 DEF Inv

(* What others do to a client: they end its connection, at most.            *)
LEMMA Unmoved ==
  ASSUME Inv, NEW d \in Client, size' = size, cl'[d] = cl[d], h'[d] = h[d],
         conn'[d].up = conn[d].up, conn'[d].fin = conn[d].fin, conn'[d].down = conn[d].down,
         conn[d].reset => conn'[d].reset, conn[d].sfin => conn'[d].sfin,
         conn'[d].sfin => conn[d].sfin \/ ~alive', alive' => alive, shorts' = 0 => shorts = 0
  PROVE  Mine(d)'
<1>1. Mine(d)
  BY DEF Inv
<1>2. Bytes(d)'
  BY <1>1 DEF Mine, Bytes
<1>3. NoGap(d)'
  BY <1>1 DEF Mine, NoGap
<1>4. Protocol(d)'
  BY <1>1 DEF Mine, Protocol, Gone
<1> QED
  BY <1>2, <1>3, <1>4 DEF Mine

LEMMA FilesKept ==
  ASSUME Inv, h' = h, disk' = disk, \A d \in Client : conn'[d].down = conn[d].down,
         shorts' = 0 => shorts = 0
  PROVE  (\A d \in Client : Writing(d)') /\ Offsets'
BY DEF Inv, Writing, Offsets, Alone

(* The client's steps and what befalls a connection: the server stands still. *)
LEMMA ClientInv ==
  ASSUME Inv, NEW c \in Client,
         Connect(c) \/ SendFails(c) \/ Response(c) \/ Kill(c) \/ Cut(c) \/ Bounce(c)
  PROVE  Inv'
<1>1. Types /\ Mine(c)
  BY DEF Inv
<1>2. cl \in [Client -> ClSet] /\ conn \in [Client -> ConnSet] /\ alive \in BOOLEAN
      /\ faults \in 0 .. MaxFaults
  BY <1>1 DEF Types
<1>3. size' = size /\ h' = h /\ disk' = disk /\ alive' = alive /\ shorts' = shorts
  BY DEF Connect, SendFails, Response, Kill, Cut, Bounce
<1> DEFINE Ends(s, k) ==
      /\ cl' = [cl EXCEPT ![c].stage = s] /\ conn' = [conn EXCEPT ![c] = k]
      /\ k.up = conn[c].up /\ k.down = conn[c].down /\ k.sfin = conn[c].sfin
      /\ conn[c].reset => k.reset
      /\ conn[c].fin => k.fin
      /\ s \in {"start", "header"} => cl[c].stage \in {"start", "header"}
      /\ s = "body" => cl[c].stage = "body"
      /\ Gone(c) => s = cl[c].stage
      /\ k.fin /\ ~conn[c].fin => s \in {"ok", "failed", "killed"}
      /\ s = "ok" /\ cl[c].stage # "ok" => conn[c].down # "none" \/ conn[c].sfin
<1>4. PICK s \in Stages, k \in ConnSet : Ends(s, k)
  <2>1. CASE Connect(c)
    <3> DEFINE s == IF alive THEN "header" ELSE "failed"
               k == [conn[c] EXCEPT !.open = alive]
    <3>1. s \in Stages /\ k \in ConnSet
      BY <1>2 DEF Stages, ConnSet
    <3>2. Ends(s, k)
      BY <1>2, <2>1 DEF Connect, Gone, ConnSet
    <3> QED
      BY <3>1, <3>2
  <2>2. CASE SendFails(c)
    <3> DEFINE k == [conn[c] EXCEPT !.fin = TRUE]
    <3>1. "failed" \in Stages /\ k \in ConnSet
      BY <1>2 DEF Stages, ConnSet
    <3>2. Ends("failed", k)
      BY <1>2, <2>2 DEF SendFails, Gone, ConnSet
    <3> QED
      BY <3>1, <3>2
  <2>3. CASE Response(c)
    <3> DEFINE k == [conn[c] EXCEPT !.fin = TRUE]
    <3>1. {"ok", "failed"} \subseteq Stages /\ k \in ConnSet
      BY <1>2 DEF Stages, ConnSet
    <3>2. Ends("ok", k) \/ Ends("failed", k)
      BY <1>2, <2>3 DEF Response, Gone, ConnSet
    <3> QED
      BY <3>1, <3>2
  <2>4. CASE Kill(c)
    <3> DEFINE k == [conn[c] EXCEPT !.fin = TRUE]
    <3>1. "killed" \in Stages /\ k \in ConnSet
      BY <1>2 DEF Stages, ConnSet
    <3>2. Ends("killed", k)
      BY <1>2, <2>4 DEF Kill, Gone, ConnSet
    <3> QED
      BY <3>1, <3>2
  <2>5. CASE Cut(c) \/ Bounce(c)
    <3> DEFINE k == [conn[c] EXCEPT !.reset = TRUE]
    <3>1. cl[c].stage \in Stages /\ k \in ConnSet
      BY <1>2 DEF ClSet, ConnSet
    <3>2. cl' = [cl EXCEPT ![c].stage = cl[c].stage]
      BY <1>2, <2>5 DEF Cut, Bounce, ClSet
    <3>3. Ends(cl[c].stage, k)
      BY <1>2, <2>5, <3>2 DEF Cut, Bounce, ConnSet
    <3> QED
      BY <3>1, <3>3
  <2> QED
    BY <2>1, <2>2, <2>3, <2>4, <2>5
<1>5. cl' \in [Client -> ClSet] /\ conn' \in [Client -> ConnSet]
  BY <1>2, <1>4 DEF ClSet
<1>6. /\ cl'[c].stage = s /\ cl'[c].pos = cl[c].pos /\ cl'[c].sent = cl[c].sent /\ conn'[c] = k
      /\ \A d \in Client \ {c} : cl'[d] = cl[d] /\ conn'[d] = conn[d]
  BY <1>2, <1>4 DEF ClSet
<1>7. Types'
  <2>1. faults' \in 0 .. MaxFaults
    BY <1>2, BoundsAssumption DEF Connect, SendFails, Response, Kill, Cut, Bounce
  <2>2. /\ size' \in [Client -> 0 .. MaxSize] /\ h' \in [Client -> HSet]
        /\ \A d \in Client : h'[d].flushed <= Len(h'[d].got)
        /\ disk' \in [Path -> Contents] /\ alive' \in BOOLEAN /\ shorts' \in 0 .. MaxShort
    BY <1>1, <1>3 DEF Types
  <2> QED
    BY <1>5, <2>1, <2>2 DEF Types, ClSet, Stages, ConnSet, HSet, Contents
<1>8. Mine(c)'
  <2>1. Bytes(c)'
    BY <1>1, <1>3, <1>4, <1>6 DEF Mine, Bytes
  <2>2. NoGap(c)'
    BY <1>1, <1>3, <1>4, <1>6 DEF Mine, NoGap
  <2>3. Protocol(c)'
    BY <1>1, <1>3, <1>4, <1>6 DEF Mine, Protocol, Gone
  <2> QED
    BY <2>1, <2>2, <2>3 DEF Mine
<1>9. \A d \in Client : Mine(d)'
  BY <1>3, <1>6, <1>8, Unmoved
<1>10. (\A d \in Client : Writing(d)') /\ Offsets'
  BY <1>3, <1>4, <1>6, FilesKept
<1> QED
  BY <1>7, <1>9, <1>10 DEF Inv

LEMMA SendHeaderInv ==
  ASSUME Inv, NEW c \in Client, SendHeader(c)
  PROVE  Inv'
<1>1. Types /\ Mine(c)
  BY DEF Inv
<1>2. conn[c].up = << >> /\ h[c].got = << >> /\ h[c].stage \notin Past
      /\ cl[c].pos = 0 /\ cl[c].stage = "header"
  BY <1>1 DEF SendHeader, Mine, Bytes
<1>3. << >> \o <<Header>> = <<0>> /\ <<0>> \in Seq(0 .. MaxSize)
  BY BoundsAssumption DEF Header
<1>4. Types'
  <2>1. cl \in [Client -> ClSet] /\ conn \in [Client -> ConnSet]
    BY <1>1 DEF Types
  <2>2. cl' \in [Client -> ClSet]
    BY <2>1 DEF SendHeader, ClSet, Stages
  <2>3. conn' = [conn EXCEPT ![c].up = <<0>>]
    BY <1>2, <1>3, <2>1 DEF SendHeader, Send
  <2>4. conn' \in [Client -> ConnSet]
    BY <1>3, <2>1, <2>3 DEF ConnSet
  <2> QED
    BY <1>1, <2>2, <2>4 DEF Types, ClSet, Stages, ConnSet, HSet, Contents, SendHeader
<1>5. size' = size /\ h' = h /\ disk' = disk /\ alive' = alive /\ shorts' = shorts
  BY DEF SendHeader
<1>6. \A d \in Client \ {c} : cl'[d] = cl[d] /\ conn'[d] = conn[d]
  BY <1>1 DEF Types, ClSet, Stages, ConnSet, HSet, Contents, SendHeader, Send
<1>7. /\ conn'[c].up = <<0>> /\ conn'[c].down = conn[c].down /\ conn'[c].sfin = conn[c].sfin
      /\ conn'[c].reset = conn[c].reset /\ conn'[c].fin = conn[c].fin
      /\ cl'[c].pos = 0 /\ cl'[c].sent = cl[c].sent /\ cl'[c].stage \in {"body", "wait"}
  BY <1>1, <1>2, <1>3 DEF Types, ClSet, Stages, ConnSet, HSet, Contents, SendHeader, Send
<1>8. Total(<< >>, <<0>>) = 1 /\ At(<< >>, <<0>>, 1) = 0
  BY DEF Total, At
<1>9. Rising(<< >>, <<0>>, 0) /\ Gapless(<< >>, <<0>>, 0)
  BY <1>8 DEF Rising, Gapless
<1>10. Bytes(c)'
  BY <1>1, <1>2, <1>5, <1>7, <1>9 DEF Mine, Bytes
<1>11. NoGap(c)'
  BY <1>2, <1>5, <1>7, <1>8, <1>9 DEF NoGap
<1>12. Protocol(c)'
  BY <1>1, <1>2, <1>5, <1>7 DEF Mine, Protocol, Gone
<1>13. \A d \in Client : Mine(d)'
  BY <1>5, <1>6, <1>10, <1>11, <1>12, Unmoved DEF Mine
<1>14. (\A d \in Client : Writing(d)') /\ Offsets'
  BY <1>5, <1>6, <1>7, FilesKept
<1> QED
  BY <1>4, <1>13, <1>14 DEF Inv

LEMMA SendBlockInv ==
  ASSUME Inv, NEW c \in Client, SendBlock(c)
  PROVE  Inv'
<1>1. Types /\ Mine(c)
  BY DEF Inv
<1> DEFINE left == size[c] - cl[c].pos
           n    == IF left < Buffer THEN left ELSE Buffer
<1>2. PICK k \in (IF n = 0 THEN {0} ELSE 1 .. n) :
        /\ shorts' = IF k < n THEN shorts + 1 ELSE shorts
        /\ k < n => shorts < MaxShort
        /\ Send(c, [i \in 1 .. k |-> cl[c].pos + i])
        /\ cl' = [cl EXCEPT ![c] =
                    [stage |-> IF left < Buffer \/ cl[c].sent + Counts(n, k) >= size[c]
                               THEN "wait" ELSE "body",
                     pos |-> @.pos + n, sent |-> cl[c].sent + Counts(n, k)]]
  BY DEF SendBlock
<1>3. cl[c].stage = "body" /\ size' = size /\ h' = h /\ disk' = disk /\ alive' = alive
      /\ faults' = faults
  BY DEF SendBlock
<1>4. size[c] \in 0 .. MaxSize /\ cl[c].pos \in Nat /\ cl[c].pos <= size[c]
      /\ cl[c].sent \in Nat /\ cl[c].sent <= cl[c].pos
  BY <1>1, Fields DEF Mine, Bytes
<1>5. n \in Nat /\ n <= left /\ k \in 0 .. n
  BY <1>4, BoundsAssumption
<1>6. cl[c].pos + n <= size[c] /\ cl[c].pos + n <= MaxSize
      /\ cl[c].sent + k <= cl[c].pos + n /\ cl[c].sent + k \in 0 .. MaxSize
      /\ cl[c].pos + n \in 0 .. MaxSize
  <2>1. left = size[c] - cl[c].pos
    OBVIOUS
  <2> HIDE DEF n, left
  <2> QED
    BY <1>4, <1>5, <2>1, BoundsAssumption
<1> HIDE DEF n, left
<1>7. cl' = [cl EXCEPT ![c] = [stage |-> IF left < Buffer \/ cl[c].sent + k >= size[c]
                                         THEN "wait" ELSE "body",
                               pos |-> cl[c].pos + n, sent |-> cl[c].sent + k]]
  BY <1>2 DEF Counts
<1> DEFINE t == conn[c].up
           v == Sent(t, cl[c].pos, k)
<1>8. t \in Seq(0 .. MaxSize) /\ h[c].got \in Seq(0 .. MaxSize) /\ Len(t) \in Nat
      /\ Len(h[c].got) \in Nat
  BY <1>1, Fields
<1>9. Rising(h[c].got, t, cl[c].pos)
  BY <1>1 DEF Mine, Bytes
<1>10. /\ Rising(h[c].got, v, cl[c].pos + n)
       /\ v \in Seq(0 .. MaxSize) /\ Len(v) = Len(t) + k
       /\ \A i \in 1 .. Len(v) : v[i] = IF i <= Len(t) THEN t[i] ELSE cl[c].pos + (i - Len(t))
       /\ k = n /\ Gapless(h[c].got, t, cl[c].pos) => Gapless(h[c].got, v, cl[c].pos + n)
  <2> HIDE DEF t
  <2> QED
    BY <1>4, <1>5, <1>6, <1>8, <1>9, SendBytes
<1>11. conn' = [conn EXCEPT ![c].up = v]
  BY <1>2 DEF Send, Sent
<1> HIDE DEF v, t
<1>12. /\ conn'[c].up = v /\ conn'[c].down = conn[c].down /\ conn'[c].sfin = conn[c].sfin
       /\ conn'[c].reset = conn[c].reset /\ conn'[c].fin = conn[c].fin
       /\ \A d \in Client \ {c} : cl'[d] = cl[d] /\ conn'[d] = conn[d]
  BY <1>1, <1>7, <1>11 DEF Types, ClSet, Stages, ConnSet, HSet, Contents
<1>13. /\ cl'[c].pos = cl[c].pos + n /\ cl'[c].sent = cl[c].sent + k
       /\ cl'[c].stage \in {"body", "wait"}
  BY <1>1, <1>7 DEF Types, ClSet, Stages, ConnSet, HSet, Contents
<1>14. Types'
  <2>1. cl \in [Client -> ClSet] /\ conn \in [Client -> ConnSet] /\ shorts \in 0 .. MaxShort
    BY <1>1 DEF Types
  <2>2. cl' \in [Client -> ClSet]
    <3> DEFINE e == [stage |-> IF left < Buffer \/ cl[c].sent + k >= size[c]
                               THEN "wait" ELSE "body",
                     pos |-> cl[c].pos + n, sent |-> cl[c].sent + k]
    <3>1. e \in ClSet
      BY <1>6 DEF ClSet, Stages
    <3>2. cl' = [cl EXCEPT ![c] = e]
      BY <1>7
    <3> HIDE DEF e
    <3>3. c \in Client /\ cl \in [Client -> ClSet]
      BY <2>1
    <3> QED
      BY <3>1, <3>2, <3>3
  <2>3. conn' \in [Client -> ConnSet]
    <3> DEFINE e == [conn[c] EXCEPT !.up = v]
    <3>1. e \in ConnSet
      BY <1>10, <2>1 DEF ConnSet
    <3>2. conn' = [conn EXCEPT ![c] = e]
      BY <1>11, <2>1
    <3> HIDE DEF e
    <3> QED
      BY <2>1, <3>1, <3>2
  <2>4. shorts' \in 0 .. MaxShort
    BY <1>2, <2>1, BoundsAssumption
  <2> QED
    BY <1>1, <1>3, <2>2, <2>3, <2>4 DEF Types, ClSet, Stages, ConnSet, HSet, Contents
<1>15. shorts' = 0 => shorts = 0 /\ k = n
  BY <1>1, <1>2, <1>5 DEF Types, ClSet, Stages, ConnSet, HSet, Contents
<1>16. Bytes(c)'
  <2>1. h[c].stage \in Past => \A i \in 1 .. Len(v) : v[i] >= 1
    <3> SUFFICES ASSUME h[c].stage \in Past, NEW i \in 1 .. Len(v) PROVE v[i] >= 1
      OBVIOUS
    <3>1. CASE i <= Len(t)
      <4>1. i \in 1 .. Len(t) /\ v[i] = t[i]
        BY <1>8, <1>10, <3>1
      <4> QED
        BY <1>1, <4>1 DEF Mine, Bytes, t
    <3>2. CASE ~(i <= Len(t))
      BY <1>4, <1>8, <1>10, <3>2
    <3> QED
      BY <3>1, <3>2
  <2>2. h[c].stage \in Fresh => h[c].got = << >> /\ v # << >>
    <3>1. h[c].stage \in Fresh => t # << >> /\ h[c].got = << >>
      BY <1>1, <1>3 DEF Mine, Bytes, t
    <3>2. t # << >> => Len(t) > 0
      BY <1>8
    <3>3. v = << >> => Len(v) = 0
      OBVIOUS
    <3> QED
      BY <1>5, <1>8, <1>10, <3>1, <3>2, <3>3
  <2>3. cl'[c].sent <= cl'[c].pos /\ cl'[c].pos <= size[c]
    BY <1>6, <1>13
  <2> QED
    BY <1>3, <1>10, <1>12, <1>13, <2>1, <2>2, <2>3 DEF Bytes
<1>17. NoGap(c)'
  <2> SUFFICES ASSUME shorts = 0, k = n
               PROVE  /\ Gapless(h[c].got, v, cl[c].pos + n)
                      /\ h[c].stage \in Fresh => Total(h[c].got, v) = cl[c].pos + n + 1
                      /\ h[c].stage \in Past => Total(h[c].got, v) = cl[c].pos + n
    BY <1>3, <1>12, <1>13, <1>15 DEF NoGap
  <2>1. /\ Gapless(h[c].got, t, cl[c].pos)
        /\ h[c].stage \in Fresh => Total(h[c].got, t) = cl[c].pos + 1
        /\ h[c].stage \in Past => Total(h[c].got, t) = cl[c].pos
    BY <1>1, <1>3 DEF Mine, Bytes, NoGap, t
  <2>2. Total(h[c].got, v) = Total(h[c].got, t) + n /\ Total(h[c].got, t) \in Nat
    <3>1. n \in Nat /\ Len(v) = Len(t) + n
      BY <1>5, <1>10
    <3>2. \A x, y, w \in Nat : w = y + n => x + w = (x + y) + n /\ x + y \in Nat
      BY <3>1
    <3>3. Len(v) \in Nat
      BY <1>8, <3>1
    <3> QED
      BY <1>8, <3>1, <3>2, <3>3, Zenon DEF Total
  <2> QED
    BY <1>4, <1>5, <1>10, <2>1, <2>2
<1>18. Protocol(c)'
  BY <1>1, <1>3, <1>12, <1>13 DEF Mine, Protocol, Gone
<1>19. \A d \in Client : Mine(d)'
  BY <1>3, <1>12, <1>15, <1>16, <1>17, <1>18, Unmoved DEF Mine
<1>20. (\A d \in Client : Writing(d)') /\ Offsets'
  BY <1>3, <1>12, <1>15, FilesKept
<1> QED
  BY <1>14, <1>19, <1>20 DEF Inv

-----------------------------------------------------------------------------
(* The thread's steps                                                       *)

(* A step of one thread that leaves the disk alone and keeps what it has     *)
(* flushed: what is left to show of it is the client's own part.             *)
LEMMA Handled ==
  ASSUME Inv, NEW c \in Client, NEW r \in HSet, NEW k \in ConnSet,
         UNCHANGED <<size, cl, disk, alive, shorts, faults>>,
         h' = [h EXCEPT ![c] = r], conn' = [conn EXCEPT ![c] = k],
         r.file = h[c].file, r.flushed = h[c].flushed, h[c].flushed <= Len(r.got),
         \A i \in 1 .. h[c].flushed : r.got[i] = h[c].got[i],
         r.stage \in Fresh \cup {"open"} => h[c].stage \in Fresh \cup {"open"},
         r.stage \in {"body", "answer", "close"} => h[c].stage \in {"body", "answer", "close"},
         k.down # "none" => r.stage = "close",
         Mine(c)'
  PROVE  Inv'
<1>1. Types /\ \A d \in Client : Mine(d) /\ Writing(d)
  BY DEF Inv
<1>2. h \in [Client -> HSet] /\ conn \in [Client -> ConnSet]
  BY <1>1 DEF Types
<1>3. h'[c] = r /\ conn'[c] = k /\ \A d \in Client \ {c} : h'[d] = h[d] /\ conn'[d] = conn[d]
  BY <1>2
<1>4. Types'
  <2>1. h' \in [Client -> HSet] /\ conn' \in [Client -> ConnSet]
    BY <1>2
  <2>2. \A d \in Client : h'[d].flushed <= Len(h'[d].got)
    BY <1>1, <1>3 DEF Types
  <2> QED
    BY <1>1, <2>1, <2>2 DEF Types, ClSet, Stages, ConnSet, HSet, Contents
<1>5. \A d \in Client : Mine(d)'
  BY <1>3, Unmoved
<1>6. \A d \in Client : h'[d].file = h[d].file /\ h'[d].flushed = h[d].flushed
  BY <1>3
<1>7. \A d \in Client : Alone(d)' => Alone(d)
  BY <1>6 DEF Alone
<1>8. \A d \in Client : Writing(d)'
  <2>1. \A d \in Client \ {c} : Writing(d)'
    BY <1>1, <1>3, <1>7 DEF Writing
  <2>2. Writing(c)'
    <3>1. h'[c].file # NoPath /\ Alone(c)' =>
            disk'[h'[c].file] = [i \in 1 .. h'[c].flushed |-> <<c, h'[c].got[i]>>]
      <4>0. [i \in 1 .. r.flushed |-> <<c, r.got[i]>>]
              = [i \in 1 .. h[c].flushed |-> <<c, h[c].got[i]>>]
        OBVIOUS
      <4>1. [i \in 1 .. h'[c].flushed |-> <<c, h'[c].got[i]>>]
              = [i \in 1 .. h[c].flushed |-> <<c, h[c].got[i]>>]
        <5>1. h'[c] = r
          BY <1>3
        <5> QED
          BY <4>0, <5>1, Zenon
      <4>2. h[c].file # NoPath /\ Alone(c) =>
              disk[h[c].file] = [i \in 1 .. h[c].flushed |-> <<c, h[c].got[i]>>]
        BY <1>1 DEF Writing
      <4>3. h'[c].file = h[c].file /\ (Alone(c)' => Alone(c)) /\ disk' = disk
        BY <1>3, <1>7
      <4> QED
        BY <4>1, <4>2, <4>3, Zenon
    <3> QED
      BY <1>1, <1>3, <3>1 DEF Writing
  <2> QED
    BY <2>1, <2>2
<1>9. Offsets'
  BY DEF Inv, Offsets
<1> QED
  BY <1>4, <1>5, <1>8, <1>9 DEF Inv

LEMMA AcceptInv ==
  ASSUME Inv, NEW c \in Client, Accept(c)
  PROVE  Inv'
<1>1. Mine(c) /\ Writing(c) /\ h \in [Client -> HSet] /\ conn \in [Client -> ConnSet]
  BY DEF Types, Inv
<1> DEFINE r == [h[c] EXCEPT !.stage = "header"]
<1>2. r \in HSet /\ conn[c] \in ConnSet /\ h' = [h EXCEPT ![c] = r]
      /\ conn' = [conn EXCEPT ![c] = conn[c]] /\ h'[c] = r /\ conn'[c] = conn[c]
  BY <1>1 DEF Accept, HSet
<1>3. r.stage = "header" /\ r.file = h[c].file /\ r.flushed = h[c].flushed /\ r.got = h[c].got
      /\ h[c].stage = "none"
  BY <1>1 DEF HSet, Accept
<1>4. Mine(c)'
  BY <1>1, <1>2, <1>3 DEF Accept, Mine, Bytes, NoGap, Protocol, Gone, Fresh, Past
<1>5. h[c].flushed <= Len(h[c].got)
  BY DEF Types, Inv
<1>6. conn[c].down = "none"
  BY <1>1, <1>3 DEF Mine, Protocol
<1> HIDE DEF r
<1> QED
  <2>1. UNCHANGED <<size, cl, disk, alive, shorts, faults>>
    BY DEF Accept
  <2> QED
    BY <1>2, <1>3, <1>4, <1>5, <1>6, <2>1, Handled DEF Fresh

(* A close ends a connection, or resets it, and changes nothing else of it.  *)
LEMMA ClosedIs ==
  ASSUME NEW e \in ConnSet, NEW k \in Closed(e)
  PROVE  /\ k \in ConnSet /\ k.up = e.up /\ k.fin = e.fin /\ k.down = e.down
         /\ e.sfin => k.sfin
         /\ e.reset => k.reset
<1>1. k = [e EXCEPT !.reset = TRUE] \/ k = [e EXCEPT !.sfin = TRUE]
  BY DEF Closed
<1>2. CASE k = [e EXCEPT !.reset = TRUE]
  BY <1>2 DEF ConnSet
<1>3. CASE k = [e EXCEPT !.sfin = TRUE]
  BY <1>3 DEF ConnSet
<1> QED
  BY <1>1, <1>2, <1>3

LEMMA GiveUpInv ==
  ASSUME Inv, NEW c \in Client, h[c].stage \in {"header", "open"}, GiveUp(c)
  PROVE  Inv'
<1>1. Mine(c) /\ Writing(c) /\ h \in [Client -> HSet] /\ conn \in [Client -> ConnSet]
  BY DEF Types, Inv
<1>2. PICK k \in Closed(conn[c]) : conn' = [conn EXCEPT ![c] = k]
  BY DEF GiveUp
<1>3. /\ k \in ConnSet /\ k.up = conn[c].up /\ k.fin = conn[c].fin /\ k.down = conn[c].down
      /\ conn[c].sfin => k.sfin
      /\ conn[c].reset => k.reset
  BY <1>1, ClosedIs
<1> DEFINE r == [h[c] EXCEPT !.stage = "done"]
<1>4. r \in HSet /\ h' = [h EXCEPT ![c] = r] /\ h'[c] = r /\ conn'[c] = k
  <2>1. r \in HSet
    BY <1>1 DEF HSet
  <2>2. h' = [h EXCEPT ![c] = r]
    BY DEF GiveUp
  <2> HIDE DEF r
  <2> QED
    BY <1>1, <1>2, <2>1, <2>2
<1>5. r.stage = "done" /\ r.file = h[c].file /\ r.flushed = h[c].flushed /\ r.got = h[c].got
  BY <1>1 DEF HSet
<1>6. conn[c].down = "none"
  BY <1>1 DEF Mine, Protocol
<1>7. Mine(c)'
  <2>1. Bytes(c)' /\ NoGap(c)'
    BY <1>1, <1>3, <1>4, <1>5 DEF GiveUp, Mine, Bytes, NoGap, Fresh, Past
  <2>2. Protocol(c)'
    BY <1>1, <1>3, <1>4, <1>5, <1>6 DEF GiveUp, Mine, Protocol, Gone
  <2> QED
    BY <2>1, <2>2 DEF Mine
<1>8. h[c].flushed <= Len(h[c].got)
  BY DEF Types, Inv
<1> HIDE DEF r
<1> QED
  <2>1. UNCHANGED <<size, cl, disk, alive, shorts, faults>>
    BY DEF GiveUp
  <2> QED
    BY <1>2, <1>3, <1>4, <1>5, <1>6, <1>7, <1>8, <2>1, Handled DEF Fresh

LEMMA RecvHeaderInv ==
  ASSUME Inv, NEW c \in Client, RecvHeader(c)
  PROVE  Inv'
<1>1. Mine(c) /\ Writing(c) /\ h \in [Client -> HSet] /\ conn \in [Client -> ConnSet]
      /\ cl[c].pos \in Nat /\ conn[c].up \in Seq(0 .. MaxSize)
  BY Fields DEF Types, Inv
<1> DEFINE t == conn[c].up
           v == SubSeq(t, 2, Len(t))
           r == [h[c] EXCEPT !.stage = "open"]
           k == [conn[c] EXCEPT !.up = v]
<1>2. 1 \in 1 .. Len(t) /\ conn' = [conn EXCEPT ![c] = k] /\ h' = [h EXCEPT ![c] = r]
      /\ h[c].stage = "header"
  BY <1>1 DEF RecvHeader, Recv, ConnSet, HSet
<1>3. h[c].got = << >> /\ Rising(<< >>, t, cl[c].pos) /\ t # << >>
  BY <1>1, <1>2 DEF Mine, Bytes, Fresh
<1>4. /\ Rising(<< >>, v, cl[c].pos)
      /\ \A i \in 1 .. Len(v) : v[i] >= 1
      /\ Total(<< >>, v) = Total(<< >>, t) - 1
      /\ Gapless(<< >>, t, cl[c].pos) => Gapless(<< >>, v, cl[c].pos)
  BY <1>1, <1>2, <1>3, BoundsAssumption, DropHeader
<1>5. v \in Seq(0 .. MaxSize)
  BY <1>1, <1>2, AfterFirst
<1> HIDE DEF v
<1>6. r \in HSet /\ k \in ConnSet /\ h'[c] = r /\ conn'[c] = k
      /\ k.up = v /\ k.fin = conn[c].fin /\ k.down = conn[c].down /\ k.sfin = conn[c].sfin
      /\ k.reset = conn[c].reset
      /\ r.stage = "open" /\ r.file = h[c].file /\ r.flushed = h[c].flushed /\ r.got = h[c].got
  BY <1>1, <1>2, <1>5 DEF ConnSet, HSet
<1> HIDE DEF r, k
<1>7. Bytes(c)'
  BY <1>1, <1>2, <1>3, <1>4, <1>6 DEF RecvHeader, Mine, Bytes, Fresh, Past
<1>8. NoGap(c)'
  <2>1. shorts = 0 => Gapless(<< >>, v, cl[c].pos) /\ Total(<< >>, v) = cl[c].pos
    BY <1>1, <1>2, <1>3, <1>4 DEF Mine, NoGap, Fresh
  <2> QED
    BY <1>3, <1>6, <2>1 DEF RecvHeader, NoGap, Fresh, Past
<1>9. Protocol(c)' /\ conn[c].down = "none"
  BY <1>1, <1>2, <1>6 DEF RecvHeader, Mine, Protocol, Gone
<1>10. h[c].flushed <= Len(h[c].got)
  BY DEF Types, Inv
<1> HIDE DEF t
<1> QED
  BY <1>2, <1>6, <1>7, <1>8, <1>9, <1>10, Handled DEF RecvHeader, Fresh, Mine

LEMMA RecvBlockInv ==
  ASSUME Inv, NEW c \in Client, RecvBlock(c)
  PROVE  Inv'
<1>1. Mine(c) /\ Writing(c) /\ h \in [Client -> HSet] /\ conn \in [Client -> ConnSet]
      /\ cl[c].pos \in Nat /\ conn[c].up \in Seq(0 .. MaxSize)
      /\ h[c].got \in Seq(0 .. MaxSize) /\ h[c].got \in Seq(1 .. MaxSize)
      /\ Len(h[c].got) \in Nat /\ Len(conn[c].up) \in Nat
  BY Fields DEF Types, Inv
<1>2. PICK n \in 1 .. Buffer :
        /\ Recv(c, n)
        /\ LET got == h[c].got \o SubSeq(conn[c].up, 1, n)
           IN h' = [h EXCEPT ![c].got = got,
                             ![c].stage = IF Complete(c, Len(got)) THEN "answer" ELSE @]
  BY DEF RecvBlock
<1> DEFINE s == h[c].got
           t == conn[c].up
           u == Read(s, t, n)
           v == Rest(t, n)
           r == [h[c] EXCEPT !.got = u,
                             !.stage = IF Complete(c, Len(u)) THEN "answer" ELSE h[c].stage]
           k == [conn[c] EXCEPT !.up = v]
<1>3. n \in 1 .. Len(t) /\ conn' = [conn EXCEPT ![c] = k] /\ h' = [h EXCEPT ![c] = r]
      /\ h[c].stage = "body"
  BY <1>1, <1>2 DEF RecvBlock, Recv, Read, Rest, ConnSet, HSet
<1>4. /\ Total(u, v) = Total(s, t)
      /\ \A i \in 1 .. Len(v) : v[i] = t[n + i]
      /\ Len(u) = Len(s) + n /\ v \in Seq(0 .. MaxSize)
      /\ \A i \in 1 .. Len(u) : u[i] = IF i <= Len(s) THEN s[i] ELSE t[i - Len(s)]
  <2>1. s \in Seq(0 .. MaxSize) /\ t \in Seq(0 .. MaxSize) /\ n \in 1 .. Len(t)
    BY <1>1, <1>3
  <2> HIDE DEF s, t
  <2>2. Total(u, v) = Total(s, t) /\ Len(u) = Len(s) + n
    BY <2>1, ReadBytes
  <2>3. v \in Seq(0 .. MaxSize) /\ \A i \in 1 .. Len(v) : v[i] = t[n + i]
    BY <2>1, ReadBytes
  <2>4. \A i \in 1 .. Len(u) : u[i] = IF i <= Len(s) THEN s[i] ELSE t[i - Len(s)]
    BY <2>1, ReadBytes
  <2> HIDE DEF u, v
  <2> QED
    BY <2>2, <2>3, <2>4
<1>5. /\ Rising(s, t, cl[c].pos) => Rising(u, v, cl[c].pos)
      /\ Gapless(s, t, cl[c].pos) => Gapless(u, v, cl[c].pos)
  <2>1. /\ s \in Seq(0 .. MaxSize) /\ t \in Seq(0 .. MaxSize) /\ n \in 1 .. Len(t)
        /\ cl[c].pos \in Nat
    BY <1>1, <1>3
  <2> HIDE DEF s, t
  <2> QED
    BY <2>1, ReadRising
<1>6. \A i \in 1 .. Len(t) : t[i] >= 1 /\ t[i] \in 0 .. MaxSize
  <2>1. \A i \in 1 .. Len(t) : t[i] >= 1
    BY <1>1, <1>3, Zenon DEF Mine, Bytes, Past
  <2>2. \A i \in 1 .. Len(t) : t[i] \in 0 .. MaxSize
    BY <1>1, ElementOfSeq
  <2> QED
    BY <2>1, <2>2
<1>7. \A i \in 1 .. Len(v) : v[i] >= 1
  <2> SUFFICES ASSUME NEW i \in 1 .. Len(v) PROVE v[i] >= 1
    OBVIOUS
  <2>1. Len(v) = Len(t) - n
    BY <1>1, <1>3 DEF Rest
  <2>2. n + i \in 1 .. Len(t)
    <3> HIDE DEF v, t
    <3> QED
      BY <1>1, <1>3, <2>1 DEF t
  <2> HIDE DEF v
  <2> QED
    BY <1>4, <1>6, <2>2
<1>8. u \in Seq(1 .. MaxSize)
  <2>1. SubSeq(t, 1, n) \in Seq(1 .. MaxSize)
    <3>1. SubSeq(t, 1, n) = [i \in 1 .. n |-> t[i]]
      <4>1. t \in Seq(0 .. MaxSize) /\ n \in 1 .. Len(t)
        BY <1>1, <1>3
      <4> HIDE DEF t
      <4> QED
        BY <4>1
    <3>2. \A i \in 1 .. n : t[i] \in 1 .. MaxSize
      <4>1. Len(t) \in Nat /\ n \in 1 .. Len(t) /\ MaxSize \in Nat
        BY <1>1, <1>3, BoundsAssumption
      <4> HIDE DEF t
      <4> QED
        BY <1>6, <4>1
    <3> QED
      BY <1>3, <3>1, <3>2
  <2> QED
    BY <1>1, <2>1 DEF Read
<1> HIDE DEF u, v
<1>9. /\ r \in HSet /\ k \in ConnSet /\ h'[c] = r /\ conn'[c] = k
      /\ k.up = v /\ k.fin = conn[c].fin /\ k.down = conn[c].down /\ k.sfin = conn[c].sfin
      /\ k.reset = conn[c].reset
      /\ r.stage = (IF Complete(c, Len(u)) THEN "answer" ELSE "body")
      /\ r.file = h[c].file /\ r.flushed = h[c].flushed /\ r.got = u
  <2>1. conn[c] \in ConnSet /\ h[c] \in HSet
    BY <1>1
  <2>2. k \in ConnSet
    BY <1>4, <2>1 DEF ConnSet
  <2>3. k.up = v /\ k.fin = conn[c].fin /\ k.down = conn[c].down /\ k.sfin = conn[c].sfin
        /\ k.reset = conn[c].reset
    BY <2>1 DEF ConnSet
  <2>4. r \in HSet
    BY <1>8, <2>1 DEF HSet
  <2>5. r.stage = (IF Complete(c, Len(u)) THEN "answer" ELSE "body")
        /\ r.file = h[c].file /\ r.flushed = h[c].flushed /\ r.got = u
    BY <1>3, <2>1 DEF HSet
  <2> HIDE DEF r, k
  <2>6. h'[c] = r /\ conn'[c] = k
    BY <1>1, <1>3
  <2> QED
    BY <2>2, <2>3, <2>4, <2>5, <2>6
<1> HIDE DEF r, k
<1>10. UNCHANGED <<size, cl, disk, alive, shorts, faults>>
  BY DEF RecvBlock
<1>11. r.stage \in {"answer", "body"} /\ (r.stage = "answer" => Len(u) >= size[c])
  BY <1>9 DEF Complete
<1>12. Bytes(c)'
  BY <1>1, <1>3, <1>5, <1>7, <1>9, <1>10, <1>11 DEF Mine, Bytes, Fresh, Past
<1>13. NoGap(c)'
  BY <1>1, <1>3, <1>4, <1>5, <1>9, <1>10, <1>11 DEF Mine, NoGap, Fresh, Past
<1>14. Protocol(c)' /\ conn[c].down = "none"
  BY <1>1, <1>3, <1>9, <1>10, <1>11 DEF Mine, Protocol, Gone
<1>15. h[c].flushed <= Len(u) /\ \A i \in 1 .. h[c].flushed : u[i] = h[c].got[i]
  <2>1. h[c].flushed \in 0 .. Len(s)
    BY Fields DEF Inv
  <2>2. Len(u) = Len(s) + n /\ Len(s) \in Nat /\ n \in Nat
    BY <1>1, <1>4
  <2>3. \A i \in 1 .. h[c].flushed : i \in 1 .. Len(u) /\ i <= Len(s)
    <3> HIDE DEF s
    <3> QED
      BY <2>1, <2>2
  <2> HIDE DEF s
  <2>4. h[c].flushed <= Len(u)
    BY <2>1, <2>2
  <2> QED
    BY <1>4, <2>3, <2>4 DEF s
<1> HIDE DEF s, t
<1> QED
  <2>1. Mine(c)'
    BY <1>12, <1>13, <1>14 DEF Mine
  <2>2. /\ r.stage \notin Fresh \cup {"open"} /\ h[c].stage \in {"body", "answer", "close"}
        /\ k.down = "none"
    BY <1>3, <1>9, <1>11, <1>14 DEF Fresh
  <2> QED
    BY <1>3, <1>9, <1>10, <1>15, <2>1, <2>2, Handled

LEMMA RecvBlockFailsInv ==
  ASSUME Inv, NEW c \in Client, RecvBlockFails(c)
  PROVE  Inv'
<1>1. Mine(c) /\ Writing(c) /\ h \in [Client -> HSet] /\ conn \in [Client -> ConnSet]
  BY DEF Types, Inv
<1> DEFINE r == [h[c] EXCEPT !.stage = "answer"]
<1>2. r \in HSet /\ conn[c] \in ConnSet /\ h' = [h EXCEPT ![c] = r]
      /\ conn' = [conn EXCEPT ![c] = conn[c]] /\ h'[c] = r /\ conn'[c] = conn[c]
  BY <1>1 DEF RecvBlockFails, HSet
<1>3. r.stage = "answer" /\ r.file = h[c].file /\ r.flushed = h[c].flushed /\ r.got = h[c].got
      /\ h[c].stage = "body"
  BY <1>1 DEF HSet, RecvBlockFails
<1>4. conn[c].reset \/ conn[c].fin
  BY DEF RecvBlockFails, RecvFails
<1> HIDE DEF r
<1>5. UNCHANGED <<size, cl, disk, alive, shorts, faults>>
  BY DEF RecvBlockFails
<1>6. Mine(c)' /\ conn[c].down = "none"
  BY <1>1, <1>2, <1>3, <1>4, <1>5 DEF Mine, Bytes, NoGap, Protocol, Gone, Fresh, Past
<1>7. h[c].flushed <= Len(h[c].got)
  BY DEF Types, Inv
<1> QED
  BY <1>2, <1>3, <1>5, <1>6, <1>7, Handled DEF Fresh

(* As many bytes as the file has are the file; never are there more.        *)
LEMMA Received ==
  ASSUME Inv, NEW c \in Client, h[c].stage \in Past
  PROVE  /\ Len(h[c].got) <= size[c]
         /\ Len(h[c].got) = size[c] => h[c].got = [i \in 1 .. size[c] |-> i]
<1> DEFINE s == h[c].got
           t == conn[c].up
           n == Len(s)
<1>1. /\ s \in Seq(1 .. MaxSize) /\ n \in Nat /\ Len(t) \in Nat /\ size[c] \in Nat
      /\ cl[c].pos \in Nat /\ cl[c].pos <= size[c]
  BY Fields, BoundsAssumption DEF Inv, Mine, Bytes
<1>2. Rising(s, t, cl[c].pos)
  BY DEF Inv, Mine, Bytes
<1>3. \A i \in 1 .. n : i \in 1 .. Total(s, t) /\ At(s, t, i) = s[i]
  <2> HIDE DEF s, t
  <2> QED
    BY <1>1 DEF Total, At
<1> HIDE DEF s, t
<1>4. \A i \in 1 .. n : s[i] \in Nat /\ s[i] >= 1 /\ s[i] <= cl[c].pos
  <2>1. \A i \in 1 .. n : s[i] \in 1 .. MaxSize
    BY <1>1, ElementOfSeq
  <2> QED
    BY <1>2, <1>3, <2>1, BoundsAssumption DEF Rising
<1>5. \A i, j \in 1 .. n : i <= j => s[j] - s[i] >= j - i
  BY <1>2, <1>3 DEF Rising
<1>6. \A i \in 1 .. n : s[i] >= i /\ s[i] <= size[c] - (n - i)
  <2> SUFFICES ASSUME NEW i \in 1 .. n PROVE s[i] >= i /\ s[i] <= size[c] - (n - i)
    OBVIOUS
  <2>1. 1 \in 1 .. n /\ n \in 1 .. n /\ 1 <= i /\ i <= n
    BY <1>1
  <2>2. s[i] - s[1] >= i - 1 /\ s[n] - s[i] >= n - i
    BY <1>5, <2>1
  <2>3. /\ s[i] \in Nat /\ s[1] \in Nat /\ s[1] >= 1 /\ s[n] \in Nat /\ s[n] <= cl[c].pos
        /\ i \in Nat /\ n \in Nat
    BY <1>1, <1>4, <2>1
  <2>4. \A x, y, z, w, g \in Nat :
          /\ x - y >= i - 1 /\ y >= 1 /\ z - x >= n - i /\ z <= w /\ w <= g
          => x >= i /\ x <= g - (n - i)
    BY <2>3
  <2> HIDE DEF n
  <2> QED
    BY <1>1, <2>2, <2>3, <2>4
<1>7. n <= size[c]
  <2>1. CASE n = 0
    BY <1>1, <2>1
  <2>2. CASE n # 0
    <3>1. n \in 1 .. n
      BY <1>1, <2>2
    <3> HIDE DEF n
    <3> QED
      BY <1>1, <1>4, <1>6, <3>1
  <2> QED
    BY <2>1, <2>2
<1>8. n = size[c] => s = [i \in 1 .. size[c] |-> i]
  <2> SUFFICES ASSUME n = size[c] PROVE s = [i \in 1 .. size[c] |-> i]
    OBVIOUS
  <2>1. \A i \in 1 .. n : s[i] = i
    <3> HIDE DEF n
    <3> QED
      BY <1>1, <1>4, <1>6
  <2>2. s = [i \in 1 .. n |-> s[i]]
    BY <1>1
  <2> QED
    BY <2>1, <2>2
<1> QED
  BY <1>7, <1>8 DEF s

LEMMA AnswerInv ==
  ASSUME Inv, NEW c \in Client, AnswerClient(c)
  PROVE  Inv'
<1>1. Mine(c) /\ Writing(c) /\ h \in [Client -> HSet] /\ conn \in [Client -> ConnSet]
      /\ Len(h[c].got) \in Nat /\ size[c] \in Nat
  BY Fields, BoundsAssumption DEF Types, Inv
<1> DEFINE r == [h[c] EXCEPT !.stage = "close"]
           k == [conn[c] EXCEPT !.down = IF conn[c].reset THEN conn[c].down ELSE Verdict(c)]
<1>2. r \in HSet /\ h' = [h EXCEPT ![c] = r] /\ h'[c] = r
      /\ conn' = [conn EXCEPT ![c] = k] /\ conn'[c] = k
  BY <1>1 DEF AnswerClient, HSet
<1>3. r.stage = "close" /\ r.file = h[c].file /\ r.flushed = h[c].flushed /\ r.got = h[c].got
      /\ h[c].stage = "answer"
  BY <1>1 DEF HSet, AnswerClient
<1>4. /\ k \in ConnSet /\ k.up = conn[c].up /\ k.fin = conn[c].fin /\ k.sfin = conn[c].sfin
      /\ k.reset = conn[c].reset
      /\ k.down = IF conn[c].reset THEN conn[c].down ELSE Verdict(c)
  BY <1>1 DEF ConnSet, Verdict
<1> HIDE DEF r, k
<1>5. UNCHANGED <<size, cl, disk, alive, shorts, faults>> /\ alive
  BY DEF AnswerClient
<1>6. conn[c].down = "none" /\ ~conn[c].sfin
  BY <1>1, <1>3, <1>5 DEF Mine, Protocol
<1>7. k.down = "right" => h[c].got = [i \in 1 .. size[c] |-> i]
  BY <1>3, <1>4, <1>6, Received DEF Verdict, Past
<1>8. k.down = "bad" => cl[c].stage \in {"failed", "killed"}
  <2> SUFFICES ASSUME k.down = "bad" PROVE cl[c].stage \in {"failed", "killed"}
    OBVIOUS
  <2>1. ~conn[c].reset /\ Len(h[c].got) # size[c] /\ Len(h[c].got) <= size[c]
    BY <1>3, <1>4, <1>6, Received DEF Verdict, Past
  <2>2. ~(Len(h[c].got) >= size[c])
    BY <1>1, <2>1
  <2>3. conn[c].fin
    BY <1>1, <1>3, <2>1, <2>2 DEF Mine, Protocol
  <2> QED
    BY <1>1, <1>6, <2>3 DEF Mine, Protocol, Gone
<1>9. Bytes(c)' /\ NoGap(c)'
  BY <1>1, <1>2, <1>3, <1>4, <1>5 DEF Mine, Bytes, NoGap, Fresh, Past
<1>10. Protocol(c)'
  BY <1>1, <1>2, <1>3, <1>4, <1>5, <1>6, <1>7, <1>8 DEF Mine, Protocol, Gone
<1>11. h[c].flushed <= Len(h[c].got)
  BY DEF Types, Inv
<1> QED
  BY <1>2, <1>3, <1>4, <1>5, <1>9, <1>10, <1>11, Handled DEF Fresh, Mine

(* The end of the server ends connections and moves nothing.                *)
LEMMA SigPipeInv ==
  ASSUME Inv, NEW c \in Client, SigPipe(c)
  PROVE  Inv'
<1>1. Types /\ conn \in [Client -> ConnSet]
  BY DEF Types, Inv
<1>2. UNCHANGED <<size, cl, h, disk, shorts, faults>> /\ ~alive'
  BY DEF SigPipe
<1>3. PICK reset \in SUBSET {d \in Client : conn[d].up # << >>} :
        conn' = [d \in Client |->
                   IF ~conn[d].open \/ conn[d].sfin THEN conn[d]
                   ELSE IF d \in reset THEN [conn[d] EXCEPT !.reset = TRUE]
                        ELSE [conn[d] EXCEPT !.sfin = TRUE]]
  BY DEF SigPipe
<1>4. ASSUME NEW d \in Client
      PROVE  /\ conn'[d] \in ConnSet
             /\ conn'[d].up = conn[d].up /\ conn'[d].fin = conn[d].fin
             /\ conn'[d].down = conn[d].down
             /\ conn[d].reset => conn'[d].reset
             /\ conn[d].sfin => conn'[d].sfin
  BY <1>1, <1>3 DEF ConnSet
<1>5. Types'
  <2>1. conn' \in [Client -> ConnSet]
    BY <1>3, <1>4
  <2>2. alive' \in BOOLEAN
    BY DEF SigPipe
  <2> QED
    BY <1>1, <1>2, <2>1, <2>2 DEF Types, ClSet, Stages, ConnSet, HSet, Contents
<1>6. \A d \in Client : Mine(d)'
  BY <1>2, <1>4, Unmoved
<1>7. (\A d \in Client : Writing(d)') /\ Offsets'
  BY <1>2, <1>4, FilesKept
<1> QED
  BY <1>5, <1>6, <1>7 DEF Inv

LEMMA OpenFileInv ==
  ASSUME Inv, NEW c \in Client, OpenFile(c)
  PROVE  Inv'
<1>1. Types /\ Mine(c) /\ Writing(c) /\ h \in [Client -> HSet] /\ disk \in [Path -> Contents]
  BY DEF Types, Inv
<1>2. PICK p \in Path :
        /\ h' = [h EXCEPT ![c].stage = IF size[c] = 0 THEN "answer" ELSE "body", ![c].file = p]
        /\ disk' = [disk EXCEPT ![p] = << >>]
  BY DEF OpenFile, Truncated
<1>3. UNCHANGED <<size, cl, conn, alive, shorts, faults>> /\ h[c].stage = "open"
  BY DEF OpenFile
<1>4. /\ h'[c].file = p /\ h'[c].got = h[c].got /\ h'[c].flushed = h[c].flushed
      /\ h'[c].stage = IF size[c] = 0 THEN "answer" ELSE "body"
      /\ h' \in [Client -> HSet] /\ \A d \in Client \ {c} : h'[d] = h[d]
  BY <1>1, <1>2 DEF HSet
<1>5. h[c].file = NoPath /\ h[c].flushed = 0 /\ conn[c].down = "none" /\ p # NoPath
  BY <1>1, <1>3, PathAssumption DEF Writing, Mine, Protocol
<1>6. disk' \in [Path -> Contents] /\ disk'[p] = << >>
      /\ \A q \in Path \ {p} : disk'[q] = disk[q]
  BY <1>1, <1>2 DEF Contents
<1>7. Types'
  <2>1. \A d \in Client : h'[d].flushed <= Len(h'[d].got)
    BY <1>1, <1>4 DEF Types
  <2> QED
    BY <1>1, <1>3, <1>4, <1>6, <2>1 DEF Types, ClSet, Stages, ConnSet, HSet, Contents
<1>8. Mine(c)'
  <2>1. Bytes(c)' /\ NoGap(c)'
    BY <1>1, <1>3, <1>4 DEF Mine, Bytes, NoGap, Fresh, Past
  <2>2. Protocol(c)'
    <3>1. Len(h[c].got) \in Nat
      BY <1>1, Fields
    <3> QED
      BY <1>1, <1>3, <1>4, <1>5, <3>1 DEF Mine, Protocol, Gone
  <2> QED
    BY <2>1, <2>2 DEF Mine
<1>9. \A d \in Client : Mine(d)'
  BY <1>3, <1>4, <1>8, Unmoved
<1>10. ASSUME NEW d \in Client \ {c} PROVE Writing(d)'
  <2>1. Writing(d) /\ h'[d] = h[d] /\ h[d].file \in Path \cup {NoPath}
    BY <1>1, <1>4 DEF Inv, HSet
  <2>2. h[d].file # NoPath /\ Alone(d)' => Alone(d) /\ h[d].file # p
    BY <1>4, <1>5, <2>1 DEF Alone
  <2>3. h[d].file # NoPath /\ Alone(d)' => disk'[h[d].file] = disk[h[d].file]
    BY <1>6, <2>1, <2>2
  <2> QED
    BY <1>3, <2>1, <2>2, <2>3 DEF Writing
<1>11. Writing(c)'
  <2>1. [i \in 1 .. 0 |-> <<c, h[c].got[i]>>] = << >>
    OBVIOUS
  <2>2. disk'[h'[c].file] = [i \in 1 .. h'[c].flushed |-> <<c, h'[c].got[i]>>]
    BY <1>4, <1>5, <1>6, <2>1, Zenon
  <2> QED
    BY <1>3, <1>4, <1>5, <2>2 DEF Writing, Fresh
<1>12. Offsets'
  BY <1>3, <1>6 DEF Inv, Offsets
<1> QED
  BY <1>7, <1>9, <1>10, <1>11, <1>12 DEF Inv

(* A write at an offset is a write at that offset.                          *)
LEMMA WrittenIs ==
  ASSUME NEW S, Hole \in S, NEW f \in Seq(S), NEW from \in Nat, NEW bytes \in Seq(S)
  PROVE  LET w   == WrittenAt(f, from, bytes)
             end == from + Len(bytes)
         IN /\ w \in Seq(S) /\ DOMAIN w = 1 .. (IF Len(f) > end THEN Len(f) ELSE end)
            /\ \A i \in DOMAIN w : w[i] = IF i > from /\ i <= end THEN bytes[i - from]
                                         ELSE IF i <= Len(f) THEN f[i] ELSE Hole
<1> DEFINE end == from + Len(bytes)
           n == IF Len(f) > end THEN Len(f) ELSE end
           w == WrittenAt(f, from, bytes)
           at(i) == IF i > from /\ i <= end THEN bytes[i - from]
                    ELSE IF i <= Len(f) THEN f[i] ELSE Hole
<1>1. Len(f) \in Nat /\ Len(bytes) \in Nat /\ n \in Nat
  OBVIOUS
<1>2. w = [i \in 1 .. n |-> at(i)]
  BY DEF WrittenAt
<1>3. \A i \in 1 .. n : at(i) \in S
  <2> SUFFICES ASSUME NEW i \in 1 .. n PROVE at(i) \in S
    OBVIOUS
  <2>1. i > from /\ i <= end => i - from \in 1 .. Len(bytes)
    BY <1>1
  <2>2. i <= Len(f) => i \in 1 .. Len(f)
    BY <1>1
  <2> QED
    BY <2>1, <2>2, ElementOfSeq
<1> HIDE DEF n, w, at
<1>4. w \in Seq(S) /\ DOMAIN w = 1 .. n /\ \A i \in 1 .. n : w[i] = at(i)
  BY <1>1, <1>2, <1>3
<1> QED
  BY <1>4 DEF n, w, at

(* What a flush does to the disk, alone with the name or not.               *)
LEMMA FlushedDisk ==
  ASSUME Inv, NEW c \in Client, h[c].stage \in {"body", "answer", "close"},
         disk' = Flushed(c, Len(h[c].got))
  PROVE  /\ disk' \in [Path -> Contents]
         /\ \A q \in Path \ {h[c].file} : disk'[q] = disk[q]
         /\ Alone(c) => disk'[h[c].file] = [i \in 1 .. Len(h[c].got) |-> <<c, h[c].got[i]>>]
         /\ shorts = 0 =>
              \A i \in DOMAIN disk'[h[c].file] :
                disk'[h[c].file][i] = Hole \/ disk'[h[c].file][i][2] = i
<1> DEFINE S   == (Client \cup {Old}) \X (0 .. MaxSize + 1)
           q   == h[c].file
           f   == disk[q]
           got == h[c].got
           fl  == h[c].flushed
           n   == Len(got)
           x   == [i \in 1 .. n - fl |-> <<c, got[fl + i]>>]
           w   == WrittenAt(f, fl, x)
<1>1. /\ got \in Seq(1 .. MaxSize) /\ n \in Nat /\ fl \in 0 .. n /\ q \in Path
      /\ disk \in [Path -> Contents] /\ f \in Seq(S) /\ MaxSize \in Nat
  BY Fields, BoundsAssumption DEF Types, Inv, Writing, Contents
<1>2. disk' = [disk EXCEPT ![q] = w]
  BY DEF Flushed
<1> HIDE DEF q, f, got, fl, n
<1>3. \A i \in 1 .. n : got[i] \in 1 .. MaxSize
  BY <1>1, ElementOfSeq DEF n
<1>4. x \in Seq(S) /\ Len(x) = n - fl
  <2>1. \A i \in 1 .. n - fl : fl + i \in 1 .. n
    BY <1>1
  <2>2. \A i \in 1 .. n - fl : <<c, got[fl + i]>> \in S
    BY <1>1, <1>3, <2>1
  <2>3. n - fl \in Nat
    BY <1>1
  <2> HIDE DEF S
  <2> QED
    BY <2>2, <2>3
<1>5. Hole \in S /\ fl \in Nat /\ fl <= n /\ fl + Len(x) = n
  BY <1>1, <1>4 DEF Hole
<1>6. \A i \in 1 .. n - fl : x[i] = <<c, got[fl + i]>>
  OBVIOUS
<1> HIDE DEF S, x
<1> DEFINE m == IF Len(f) > n THEN Len(f) ELSE n
<1>7. /\ w \in Seq(S) /\ DOMAIN w = 1 .. m
      /\ \A i \in 1 .. m : w[i] = IF i > fl /\ i <= n THEN x[i - fl]
                                  ELSE IF i <= Len(f) THEN f[i] ELSE Hole
  <2>1. LET end == fl + Len(x)
        IN /\ w \in Seq(S) /\ DOMAIN w = 1 .. (IF Len(f) > end THEN Len(f) ELSE end)
           /\ \A i \in DOMAIN w : w[i] = IF i > fl /\ i <= end THEN x[i - fl]
                                        ELSE IF i <= Len(f) THEN f[i] ELSE Hole
    BY <1>1, <1>4, <1>5, WrittenIs
  <2> HIDE DEF w
  <2> QED
    BY <1>5, <2>1
<1> HIDE DEF w
<1>8. \A i \in 1 .. m : w[i] = IF i > fl /\ i <= n THEN <<c, got[i]>>
                              ELSE IF i <= Len(f) THEN f[i] ELSE Hole
  <2> SUFFICES ASSUME NEW i \in 1 .. m, i > fl, i <= n PROVE x[i - fl] = <<c, got[i]>>
    BY <1>7
  <2>0. m \in Nat
    BY <1>1
  <2> HIDE DEF m
  <2>1. i - fl \in 1 .. n - fl /\ fl + (i - fl) = i
    BY <1>1, <2>0
  <2> QED
    BY <1>6, <2>1
<1>9. disk' \in [Path -> Contents] /\ disk'[q] = w /\ \A p \in Path \ {q} : disk'[p] = disk[p]
  BY <1>1, <1>2, <1>7 DEF Contents, S
<1>10. Alone(c) => w = [i \in 1 .. n |-> <<c, got[i]>>]
  <2> SUFFICES ASSUME Alone(c) PROVE w = [i \in 1 .. n |-> <<c, got[i]>>]
    OBVIOUS
  <2>1. f = [i \in 1 .. fl |-> <<c, got[i]>>]
    <3>1. q # NoPath
      BY <1>1, PathAssumption
    <3> QED
      BY <3>1 DEF Inv, Writing, q, f, fl, got
  <2>2. Len(f) = fl /\ \A i \in 1 .. fl : f[i] = <<c, got[i]>>
    BY <1>5, <2>1
  <2>3. m = n
    BY <1>5, <1>1, <2>2
  <2>4. ASSUME NEW i \in 1 .. n PROVE w[i] = <<c, got[i]>>
    <3>1. w[i] = IF i > fl /\ i <= n THEN <<c, got[i]>> ELSE IF i <= Len(f) THEN f[i] ELSE Hole
      BY <1>8, <2>3, Zenon
    <3>2. i <= n /\ (~(i > fl) => i <= Len(f) /\ i \in 1 .. fl)
      BY <1>1, <1>5, <2>2
    <3> QED
      BY <2>2, <3>1, <3>2, Zenon
  <2>5. w = [i \in 1 .. n |-> w[i]]
    BY <1>7, <2>3
  <2> QED
    BY <2>4, <2>5
<1>11. shorts = 0 => \A i \in DOMAIN w : w[i] = Hole \/ w[i][2] = i
  <2> SUFFICES ASSUME shorts = 0, NEW i \in 1 .. m PROVE w[i] = Hole \/ w[i][2] = i
    BY <1>7
  <2>1. Len(f) \in Nat /\ DOMAIN f = 1 .. Len(f) /\ m \in Nat
    BY <1>1
  <2>2. CASE i > fl /\ i <= n
    <3> DEFINE t == conn[c].up
               T == Total(got, t)
    <3>1. Gapless(got, t, cl[c].pos) /\ T = cl[c].pos
      BY DEF Inv, Mine, NoGap, Past, got
    <3>2. Len(t) \in Nat /\ T = n + Len(t) /\ i \in 1 .. n
      <4>1. Len(t) \in Nat
        BY Fields DEF Inv
      <4>2. i \in 1 .. n
        <5> HIDE DEF m
        <5> QED
          BY <1>1, <2>1, <2>2
      <4> QED
        BY <4>1, <4>2 DEF Total, n
    <3>3. At(got, t, i) = got[i]
      BY <3>2 DEF At, n
    <3>4. At(got, t, i) = cl[c].pos - (T - i)
      <4> HIDE DEF t
      <4>1. i \in 1 .. T
        BY <1>1, <3>2
      <4> QED
        BY <3>1, <4>1 DEF Gapless
    <3>5. T \in Nat /\ i \in Nat
      BY <1>1, <3>2
    <3> HIDE DEF T, t
    <3>6. got[i] = i
      BY <3>1, <3>3, <3>4, <3>5
    <3>7. w[i] = <<c, got[i]>>
      BY <1>8, <2>2
    <3> QED
      BY <3>6, <3>7
  <2>3. CASE ~(i > fl /\ i <= n) /\ i <= Len(f)
    <3>1. w[i] = f[i]
      BY <1>8, <2>3
    <3>2. i \in DOMAIN f
      <4> HIDE DEF m
      <4> QED
        BY <2>1, <2>3
    <3> QED
      BY <1>1, <3>1, <3>2 DEF Inv, Offsets, f
  <2>4. CASE ~(i > fl /\ i <= n) /\ ~(i <= Len(f))
    BY <1>8, <2>4
  <2> QED
    BY <2>2, <2>3, <2>4
<1> QED
  BY <1>9, <1>10, <1>11, Zenon DEF q, got, n

LEMMA FlushInv ==
  ASSUME Inv, NEW c \in Client, Flush(c) \/ CloseBoth(c)
  PROVE  Inv'
<1>1. /\ Types /\ Mine(c) /\ Writing(c)
      /\ h \in [Client -> HSet] /\ conn \in [Client -> ConnSet]
      /\ Len(h[c].got) \in Nat
  BY Fields DEF Types, Inv
<1>2. /\ h[c].stage \in {"body", "answer", "close"} /\ disk' = Flushed(c, Len(h[c].got))
      /\ UNCHANGED <<size, cl, alive, shorts, faults>>
  BY DEF Flush, CloseBoth
<1>3. /\ disk' \in [Path -> Contents]
      /\ \A q \in Path \ {h[c].file} : disk'[q] = disk[q]
      /\ Alone(c) => disk'[h[c].file] = [i \in 1 .. Len(h[c].got) |-> <<c, h[c].got[i]>>]
      /\ shorts = 0 =>
           \A i \in DOMAIN disk'[h[c].file] :
             disk'[h[c].file][i] = Hole \/ disk'[h[c].file][i][2] = i
  BY <1>2, FlushedDisk
<1>4. Len(h[c].got) \in 0 .. MaxSize
  <2>1. Len(h[c].got) <= size[c] /\ size[c] \in 0 .. MaxSize
    BY <1>1, <1>2, Received, Fields DEF Past
  <2> QED
    BY <1>1, <2>1, BoundsAssumption
<1>5. PICK stage \in {h[c].stage, "done"}, k \in {conn[c]} \cup Closed(conn[c]) :
        /\ h' = [h EXCEPT ![c].stage = stage, ![c].flushed = Len(h[c].got)]
        /\ conn' = [conn EXCEPT ![c] = k]
        /\ k.sfin => conn[c].sfin \/ stage = "done"
        /\ stage = "done" => h[c].stage = "close"
  <2>1. CASE Flush(c)
    <3>1. /\ h' = [h EXCEPT ![c].stage = h[c].stage, ![c].flushed = Len(h[c].got)]
          /\ conn' = [conn EXCEPT ![c] = conn[c]]
      BY <1>1, <2>1 DEF Flush, HSet
    <3> QED
      BY <1>2, <3>1
  <2>2. CASE CloseBoth(c)
    BY <2>2 DEF CloseBoth
  <2> QED
    BY <2>1, <2>2
<1>6. /\ k \in ConnSet /\ k.up = conn[c].up /\ k.fin = conn[c].fin /\ k.down = conn[c].down
      /\ conn[c].sfin => k.sfin
      /\ conn[c].reset => k.reset
  <2>1. conn[c] \in ConnSet
    BY <1>1
  <2>2. CASE k = conn[c]
    BY <2>1, <2>2
  <2>3. CASE k \in Closed(conn[c])
    BY <2>1, <2>3, ClosedIs
  <2> QED
    BY <1>5, <2>2, <2>3
<1>7. /\ h'[c].stage = stage /\ h'[c].flushed = Len(h[c].got)
      /\ h'[c].file = h[c].file /\ h'[c].got = h[c].got /\ conn'[c] = k
      /\ h' \in [Client -> HSet] /\ conn' \in [Client -> ConnSet]
      /\ \A d \in Client \ {c} : h'[d] = h[d] /\ conn'[d] = conn[d]
  BY <1>1, <1>2, <1>4, <1>5, <1>6 DEF HSet
<1>8. Types'
  <2>1. \A d \in Client : h'[d].flushed <= Len(h'[d].got)
    <3>1. h'[c].flushed <= Len(h'[c].got)
      BY <1>1, <1>7
    <3>2. \A d \in Client \ {c} : h'[d].flushed <= Len(h'[d].got)
      BY <1>1, <1>7 DEF Types
    <3> QED
      BY <3>1, <3>2
  <2> QED
    BY <1>1, <1>2, <1>3, <1>7, <2>1 DEF Types, ClSet, Stages, ConnSet, HSet, Contents
<1>9. Mine(c)'
  <2>1. Bytes(c)' /\ NoGap(c)'
    BY <1>1, <1>2, <1>5, <1>6, <1>7 DEF Mine, Bytes, NoGap, Fresh, Past
  <2>2. Protocol(c)'
    BY <1>1, <1>2, <1>5, <1>6, <1>7 DEF Mine, Protocol, Gone
  <2> QED
    BY <2>1, <2>2 DEF Mine
<1>10. \A d \in Client : Mine(d)'
  BY <1>2, <1>7, <1>9, Unmoved
<1>11. \A d \in Client : h'[d].file = h[d].file /\ (Alone(d)' => Alone(d))
  BY <1>7 DEF Alone
<1>12. ASSUME NEW d \in Client \ {c} PROVE Writing(d)'
  <2>1. Writing(d) /\ h'[d] = h[d] /\ conn'[d] = conn[d] /\ h[d].file \in Path \cup {NoPath}
    BY <1>1, <1>7 DEF Inv, HSet
  <2>2. Alone(d)' => h[d].file # h[c].file
    BY <1>11 DEF Alone
  <2>3. h[d].file # NoPath /\ Alone(d)' => disk'[h[d].file] = disk[h[d].file]
    BY <1>3, <2>1, <2>2
  <2> QED
    BY <1>11, <2>1, <2>3 DEF Writing
<1>13. Writing(c)'
  <2>1. Alone(c)' => disk'[h'[c].file] = [i \in 1 .. h'[c].flushed |-> <<c, h'[c].got[i]>>]
    BY <1>3, <1>7, <1>11, Zenon
  <2> QED
    BY <1>1, <1>2, <1>5, <1>6, <1>7, <2>1 DEF Writing, Fresh
<1>14. Offsets'
  <2> SUFFICES ASSUME shorts = 0, NEW q \in Path, NEW i \in DOMAIN disk'[q]
               PROVE  disk'[q][i] = Hole \/ disk'[q][i][2] = i
    BY <1>2 DEF Offsets
  <2>1. CASE q = h[c].file
    BY <1>3, <2>1
  <2>2. CASE q # h[c].file
    BY <1>3, <2>2 DEF Inv, Offsets
  <2> QED
    BY <2>1, <2>2
<1> QED
  BY <1>8, <1>10, <1>12, <1>13, <1>14 DEF Inv

LEMMA NextInv == Inv /\ [Next]_vars => Inv'
<1> SUFFICES ASSUME Inv, [Next]_vars PROVE Inv'
  OBVIOUS
<1>1. CASE UNCHANGED vars
  <2>1. UNCHANGED <<size, cl, conn, h, disk, alive, shorts, faults>>
    BY <1>1 DEF vars
  <2>2. Types'
    BY <2>1 DEF Inv, ClSet, Stages, ConnSet, HSet, Contents, Types
  <2>3. \A d \in Client : Mine(d)'
    BY <2>1, Unmoved
  <2>4. (\A d \in Client : Writing(d)') /\ Offsets'
    BY <2>1, FilesKept
  <2> QED
    BY <2>2, <2>3, <2>4 DEF Inv
<1>2. CASE Next
  <2>1. PICK c \in Client :
          ClientStep(c) \/ Kill(c) \/ Cut(c) \/ Bounce(c) \/ HandlerStep(c) \/ Flush(c)
    BY <1>2 DEF Next
  <2>2. CASE ClientStep(c) \/ Kill(c) \/ Cut(c) \/ Bounce(c)
    BY <2>2, ClientInv, SendHeaderInv, SendBlockInv DEF ClientStep
  <2>3. CASE HandlerStep(c) \/ Flush(c)
    <3>1. RecvHeaderFails(c) \/ OpenFails(c) => GiveUp(c) /\ h[c].stage \in {"header", "open"}
      BY DEF RecvHeaderFails, OpenFails
    <3> QED
      BY <2>3, <3>1, AcceptInv, RecvHeaderInv, GiveUpInv, OpenFileInv, RecvBlockInv,
         RecvBlockFailsInv, AnswerInv, SigPipeInv, FlushInv
      DEF HandlerStep
  <2> QED
    BY <2>1, <2>2, <2>3
<1> QED
  BY <1>1, <1>2

LEMMA Invariant == Spec => []Inv
BY InitInv, NextInv, PTL DEF Spec

-----------------------------------------------------------------------------
(* The theorems                                                             *)

(* Every variable of both programs keeps its type: no thread flushes more    *)
(* than it received, and no client sends more than it has read of its file,  *)
(* nor reads behind the file's end.                                          *)
THEOREM TypeCorrect == Spec => []TypeOK
<1>1. Inv => TypeOK
  <2> SUFFICES ASSUME Inv PROVE TypeOK
    OBVIOUS
  <2>1. \A c \in Client : /\ cl[c].sent <= cl[c].pos /\ cl[c].pos <= size[c]
                          /\ h[c].flushed <= Len(h[c].got)
    BY DEF Inv, Types, Mine, Bytes
  <2> QED
    BY <2>1 DEF Inv, Types, TypeOK, ClSet, Stages, ConnSet, HSet, Contents
<1> QED
  BY <1>1, Invariant, PTL

(* What the answers of handle_client mean, whatever the pieces the bytes     *)
(* came in, the sends that fell short and the connections that were cut.     *)
THEOREM AnswerTheorem == Spec => []RightMeansAll
<1>1. Inv => RightMeansAll
  <2> SUFFICES ASSUME Inv, NEW c \in Client
               PROVE  /\ conn[c].down = "right" => h[c].got = [i \in 1 .. size[c] |-> i]
                      /\ cl[c].stage = "ok" /\ conn[c].down # "none"
                           => Len(h[c].got) = size[c]
    BY DEF RightMeansAll
  <2>1. Mine(c) /\ conn[c].down \in {"none", "right", "bad"} /\ size[c] \in Nat
    BY Fields, BoundsAssumption DEF Inv
  <2>2. Len([i \in 1 .. size[c] |-> i]) = size[c]
    BY <2>1
  <2> QED
    BY <2>1, <2>2 DEF Mine, Protocol
<1> QED
  BY <1>1, Invariant, PTL

(* A file that was answered "all right" is on the disk as it was sent unless *)
(* another connection opened its name, and connections that share a name do  *)
(* not shift each other's bytes.                                             *)
THEOREM StoredTheorem == Spec => []Stored
<1>1. Inv => Stored
  <2> SUFFICES ASSUME Inv PROVE Stored
    OBVIOUS
  <2>1. ASSUME NEW c \in Client, h[c].stage = "done", conn[c].down = "right",
               \A d \in Client \ {c} : h[d].file # h[c].file
        PROVE  disk[h[c].file] = File(c)
    <3>1. Mine(c) /\ Writing(c) /\ size[c] \in Nat
      BY Fields, BoundsAssumption DEF Inv
    <3>2. h[c].got = [i \in 1 .. size[c] |-> i] /\ h[c].file \in Path
          /\ h[c].flushed = Len(h[c].got)
      BY <2>1, <3>1 DEF Mine, Protocol, Writing
    <3>3. disk[h[c].file] = [i \in 1 .. h[c].flushed |-> <<c, h[c].got[i]>>]
      BY <2>1, <3>1, <3>2, PathAssumption DEF Writing, Alone
    <3>4. h[c].flushed = size[c] /\ \A i \in 1 .. size[c] : h[c].got[i] = i
      BY <3>1, <3>2
    <3> QED
      BY <3>3, <3>4 DEF File
  <2> QED
    BY <2>1 DEF Stored, Inv, Offsets
<1> QED
  BY <1>1, Invariant, PTL
=============================================================================
