-------------------------- MODULE PipeChannelProof --------------------------
(***************************************************************************)
(* Each pipe implements Channel, for any number of processes and pipes and *)
(* any size of a pipe: the bytes come out once and in order, although the  *)
(* counters nread and nwrite wrap.                                         *)
(***************************************************************************)
EXTENDS PipeProof

(* What the channel of page k holds, and which ends of it are open.        *)
Queue(k) == IF k \in Live THEN Bytestream(pipe[k]) ELSE <<>>
OpenEnds(k) == IF k \in Live THEN {e \in {"read", "write"} :
                IF e = "read" THEN pipe[k].readopen ELSE pipe[k].writeopen} ELSE {}

Stored == Bytes \cup {None}

-----------------------------------------------------------------------------
(* Places in the ring.                                                     *)
LEMMA Divide ==
    ASSUME NEW n \in Nat \ {0}, NEW a \in Nat
    PROVE  /\ a = n * (a \div n) + (a % n)
           /\ a \div n \in Nat /\ a % n \in 0 .. n - 1
BY SMT

LEMMA AtLeast ==
    ASSUME NEW n \in Nat \ {0}, NEW z \in Int, z >= 1
    PROVE  n * z >= n
BY SMT

LEMMA Distribute ==
    ASSUME NEW n \in Nat \ {0}, NEW x \in Int, NEW y \in Int
    PROVE  n * x - n * y = n * (x - y) /\ n * x + n * y = n * (x + y)
BY SMT

LEMMA Remainder ==
    ASSUME NEW n \in Nat \ {0}, NEW a \in Nat, NEW q \in Int, NEW r \in 0 .. n - 1,
           a = n * q + r
    PROVE  a % n = r
BY SMT

LEMMA ModDiffer ==
    ASSUME NEW n \in Nat \ {0}, NEW a \in Nat, NEW b \in Nat, a % n = b % n,
           a <= b, b < a + n
    PROVE  a = b
<1>1. PICK x \in Nat : a = n * x + (a % n)
  BY Divide
<1>2. PICK y \in Nat : b = n * y + (b % n)
  BY Divide
<1>3. b - a = n * (y - x)
  <2>1. n * y - n * x = n * (y - x)
    BY Distribute
  <2>2. n * x \in Int /\ n * y \in Int /\ a % n \in Int /\ b % n \in Int
    OBVIOUS
  <2> QED BY <1>1, <1>2, <2>1, <2>2
<1>4. y - x \in Int /\ y - x < 1 /\ x - y < 1
  <2>1. CASE y - x >= 1
    BY <1>3, <2>1, AtLeast
  <2>2. CASE x - y >= 1
    <3>1. n * (x - y) >= n
      BY <2>2, AtLeast
    <3>2. n * (x - y) = - (n * (y - x))
      BY <2>2, Distribute
    <3> QED BY <1>3, <3>1, <3>2
  <2> QED BY <2>1, <2>2
<1>5. y = x
  BY <1>4
<1> QED BY <1>1, <1>2, <1>5

LEMMA ModSame ==
    ASSUME NEW n \in Nat \ {0}, NEW c \in Nat, c % n = 0, NEW a \in Nat
    PROVE  (a + c) % n = a % n
<1>1. PICK x \in Nat : a = n * x + (a % n)
  BY Divide
<1>2. PICK y \in Nat : c = n * y + (c % n)
  BY Divide
<1> DEFINE r == a % n
           u == n * x
           v == n * y
<1>3. r \in 0 .. n - 1 /\ u \in Int /\ v \in Int
  BY Divide
<1>4. u + v = n * (x + y)
  BY Distribute
<1>5. a = u + r /\ c = v
  BY <1>1, <1>2, <1>3
<1> HIDE DEF r, u, v
<1>6. a + c = n * (x + y) + r
  <2>1. a + c = (u + v) + r
    BY <1>3, <1>5
  <2> QED BY <1>4, <2>1
<1>7. a + c \in Nat /\ x + y \in Int
  OBVIOUS
<1>8. (a + c) % n = r
  BY <1>3, <1>6, <1>7, Remainder
<1> QED BY <1>8 DEF r
LEMMA RingIs ==
    ASSUME NEW a \in Nat, a < 2 * Counts, NEW j \in Nat
    PROVE  ((a % Counts) + j) % PIPESIZE = (a + j) % PIPESIZE
<1>1. Counts \in Nat \ {0} /\ PIPESIZE \in Nat \ {0} /\ Counts % PIPESIZE = 0
  BY RingAssumption
<1>2. CASE a < Counts
  <2>1. a % Counts = a
    BY <1>1, <1>2
  <2> QED BY <2>1
<1>3. CASE a >= Counts
  <2>1. a % Counts = a - Counts
    BY <1>1, <1>3
  <2>2. ASSUME NEW b \in Nat PROVE (b + Counts) % PIPESIZE = b % PIPESIZE
    BY <1>1, ModSame
  <2>3. a - Counts + j \in Nat /\ (a - Counts + j) + Counts = a + j
    BY <1>1, <1>3
  <2>4. ((a - Counts + j) + Counts) % PIPESIZE = (a - Counts + j) % PIPESIZE
    BY <2>2, <2>3
  <2> QED BY <2>1, <2>3, <2>4
<1> QED BY <1>1, <1>2, <1>3

LEMMA PlaceIn ==
    ASSUME NEW a \in Nat
    PROVE  a % PIPESIZE \in 0 .. PIPESIZE - 1
BY RingAssumption

LEMMA PlacesDiffer ==
    ASSUME NEW a \in Nat, NEW d \in 1 .. PIPESIZE - 1
    PROVE  (a + d) % PIPESIZE # a % PIPESIZE
<1>1. PIPESIZE \in Nat \ {0}
  BY RingAssumption
<1>2. d \in Int /\ 1 <= d /\ d < PIPESIZE
  BY <1>1
<1>3. a + d \in Nat /\ a <= a + d /\ a + d < a + PIPESIZE /\ a # a + d
  BY <1>1, <1>2
<1> QED BY <1>1, <1>3, ModDiffer

(* The byte stream of a page.                                              *)
LEMMA StreamIs ==
    ASSUME NEW q \in Page
    PROVE  /\ Bytestream(q) \in Seq(Stored) /\ Len(Bytestream(q)) = Used(q)
           /\ \A i \in 1 .. Used(q) :
                Bytestream(q)[i] = q.data[(q.nread + i - 1) % PIPESIZE]
<1>1. Used(q) \in Nat /\ q.nread \in Nat /\ q.data \in [0 .. PIPESIZE - 1 -> Stored]
  BY RingAssumption, UsedIs DEF Page, Stored
<1>2. ASSUME NEW i \in 1 .. Used(q)
      PROVE  q.data[(q.nread + i - 1) % PIPESIZE] \in Stored
  <2>1. q.nread + i - 1 \in Nat
    BY <1>1
  <2> QED BY <1>1, <2>1, PlaceIn
<1> HIDE DEF Stored
<1>3. Bytestream(q) \in [1 .. Used(q) -> Stored]
  BY <1>2 DEF Bytestream
<1> QED BY <1>1, <1>3 DEF Bytestream

(* Reading n bytes drops them from the front.                              *)
LEMMA StreamRead ==
    ASSUME NEW q \in Page, NEW n \in Nat, n <= Used(q)
    PROVE  Bytestream([q EXCEPT !.nread = (@ + n) % Counts])
             = SubSeq(Bytestream(q), n + 1, Used(q))
<1> DEFINE t == [q EXCEPT !.nread = (@ + n) % Counts]
           B == Bytestream(q)
           C == SubSeq(B, n + 1, Used(q))
<1>1. t \in Page /\ Used(t) = Used(q) - n
  BY UsedAfterRead
<1>2. Used(q) \in Nat /\ q.nread \in Nat /\ q.nread < Counts /\ Used(q) < Counts
  BY RingAssumption, UsedIs DEF Page
<1>3. /\ C \in Seq(Stored) /\ Len(C) = Used(q) - n
      /\ \A i \in 1 .. Used(q) - n : C[i] = B[n + i]
  <2>1. \A i \in n + 1 .. Used(q) : B[i] \in Stored
    <3>1. B \in Seq(Stored) /\ Len(B) = Used(q)
      BY StreamIs
    <3> HIDE DEF B
    <3> QED BY <1>2, <3>1, ElementOfSeq
  <2> HIDE DEF B
  <2>2. /\ C \in Seq(Stored)
        /\ Len(C) = IF n + 1 <= Used(q) THEN Used(q) - (n + 1) + 1 ELSE 0
        /\ \A i \in 1 .. Used(q) - (n + 1) + 1 : C[i] = B[(n + 1) + i - 1]
    BY <1>2, <2>1, SubSeqProperties
  <2> HIDE DEF C
  <2> QED BY <1>2, <2>2
<1>4. t.nread = (q.nread + n) % Counts /\ t.data = q.data
  BY DEF Page
<1>5. ASSUME NEW i \in 1 .. Used(q) - n PROVE Bytestream(t)[i] = C[i]
  <2>1. Bytestream(t)[i] = q.data[(t.nread + i - 1) % PIPESIZE]
    BY <1>1, <1>4, StreamIs
  <2>2. n + i \in 1 .. Used(q) /\ B[n + i] = q.data[(q.nread + (n + i) - 1) % PIPESIZE]
    BY <1>2, StreamIs
  <2>3. (t.nread + (i - 1)) % PIPESIZE = ((q.nread + n) + (i - 1)) % PIPESIZE
    <3>1. q.nread + n \in Nat /\ q.nread + n < 2 * Counts /\ i - 1 \in Nat
      BY <1>2, RingAssumption
    <3> QED BY <1>4, <3>1, RingIs
  <2>4. /\ t.nread + i - 1 = t.nread + (i - 1)
        /\ q.nread + (n + i) - 1 = (q.nread + n) + (i - 1)
    <3>1. t.nread \in Int /\ q.nread \in Int /\ i \in Int /\ n \in Int
      BY <1>1, <1>2 DEF Page
    <3> HIDE DEF t
    <3> QED BY <3>1
  <2> HIDE DEF B, C, t
  <2> QED BY <1>3, <2>1, <2>2, <2>3, <2>4
<1>6. Bytestream(t) \in Seq(Stored) /\ Len(Bytestream(t)) = Used(q) - n
  BY <1>1, StreamIs
<1> HIDE DEF t, C
<1>7. Bytestream(t) = C
  BY <1>3, <1>5, <1>6, SeqEqual
<1> QED BY <1>7 DEF t, C, B

(* Where the next byte goes, and that it is none of those not yet read.    *)
LEMMA NextPlace ==
    ASSUME NEW q \in Page, NEW j \in Nat
    PROVE  (q.nwrite + j) % PIPESIZE = (q.nread + Used(q) + j) % PIPESIZE
<1>1. /\ q.nread \in 0 .. Counts - 1 /\ q.nwrite \in 0 .. Counts - 1
      /\ Counts \in Nat \ {0}
  BY RingAssumption DEF Page
<1>2. /\ Used(q) = IF q.nread <= q.nwrite THEN q.nwrite - q.nread
                                          ELSE q.nwrite - q.nread + Counts
      /\ Used(q) \in 0 .. Counts - 1
  BY UsedIs
<1>3. q.nread + Used(q) \in Nat /\ q.nread + Used(q) < 2 * Counts
  BY <1>1, <1>2
<1>4. (q.nread + Used(q)) % Counts = q.nwrite
  <2>1. (q.nread + Used(q)) % Counts
          = IF q.nread + Used(q) < Counts THEN q.nread + Used(q)
                                          ELSE q.nread + Used(q) - Counts
    BY <1>1, <1>2, WrapIs
  <2> QED BY <1>1, <1>2, <2>1
<1> QED BY <1>3, <1>4, RingIs

LEMMA Between ==
    ASSUME NEW r \in Nat, NEW u \in Nat, NEW n \in Nat, NEW size \in Nat, u + n <= size
    PROVE  /\ \A i \in 1 .. u, j \in 1 .. n :
                /\ u + j - i \in 1 .. size - 1
                /\ (r + i - 1) + (u + j - i) = r + u + j - 1
           /\ \A i \in u + 1 .. u + n :
                /\ r + i - 1 \in Nat /\ i - u \in 1 .. n
                /\ r + u + (i - u) - 1 = r + i - 1
OBVIOUS

(* Writing n bytes puts them behind the others.                            *)
LEMMA StreamWrite ==
    ASSUME NEW q \in Page, NEW n \in Nat, Used(q) + n <= PIPESIZE,
           NEW s \in [1 .. n -> Bytes],
           NEW t \in Page, t = [Filled(q, s) EXCEPT !.cut = t.cut]
    PROVE  /\ \A i \in 1 .. Used(q) : Bytestream(t)[i] = Bytestream(q)[i]
           /\ \A i \in Used(q) + 1 .. Used(q) + n : Bytestream(t)[i] \in Bytes
<1> DEFINE At(i) == {j \in 1 .. n : (q.nwrite + j - 1) % PIPESIZE = i}
           dat == [i \in 0 .. PIPESIZE - 1 |->
                     IF At(i) = {} THEN q.data[i] ELSE s[CHOOSE j \in At(i) : TRUE]]
<1>1. /\ Used(q) \in Nat /\ q.nread \in Nat /\ q.nwrite \in Nat
      /\ PIPESIZE \in Nat \ {0}
  BY RingAssumption, UsedIs DEF Page
<1>2. Filled(q, s) \in Page /\ Len(s) = n
  BY FilledIs
<1>3. t.data = Filled(q, s).data
  BY <1>2 DEF Page
<1>4. t.data = dat
  <2> DEFINE w == (q.nwrite + n) % Counts
  <2>1. Filled(q, s) = [q EXCEPT !.data = dat, !.nwrite = w]
    BY <1>2 DEF Filled
  <2> HIDE DEF dat, w
  <2> QED BY <1>3, <2>1 DEF Page
<1>5. t.nread = q.nread /\ Used(t) = Used(q) + n
  <2>1. /\ Filled(q, s).nread = q.nread /\ Used(Filled(q, s)) = Used(q) + n
    BY FilledIs
  <2>2. t.nread = Filled(q, s).nread /\ t.nwrite = Filled(q, s).nwrite
    BY <1>2 DEF Page
  <2> QED BY <2>1, <2>2 DEF Used
<1>6. ASSUME NEW j \in 1 .. n
      PROVE  (q.nwrite + j - 1) % PIPESIZE = (q.nread + Used(q) + j - 1) % PIPESIZE
  <2>1. (q.nwrite + (j - 1)) % PIPESIZE = (q.nread + Used(q) + (j - 1)) % PIPESIZE
    BY NextPlace
  <2>2. /\ q.nwrite + (j - 1) = q.nwrite + j - 1
        /\ q.nread + Used(q) + (j - 1) = q.nread + Used(q) + j - 1
    BY <1>1
  <2> QED BY <2>1, <2>2
<1>7. /\ \A i \in 1 .. Used(q), j \in 1 .. n :
           /\ Used(q) + j - i \in 1 .. PIPESIZE - 1
           /\ (q.nread + i - 1) + (Used(q) + j - i) = q.nread + Used(q) + j - 1
      /\ \A i \in Used(q) + 1 .. Used(q) + n :
           /\ q.nread + i - 1 \in Nat /\ i - Used(q) \in 1 .. n
           /\ q.nread + Used(q) + (i - Used(q)) - 1 = q.nread + i - 1
  <2> DEFINE r == q.nread
             u == Used(q)
  <2>1. r \in Nat /\ u \in Nat /\ PIPESIZE \in Nat /\ u + n <= PIPESIZE
    BY <1>1
  <2> HIDE DEF r, u
  <2>2. /\ \A i \in 1 .. u, j \in 1 .. n :
             /\ u + j - i \in 1 .. PIPESIZE - 1
             /\ (r + i - 1) + (u + j - i) = r + u + j - 1
        /\ \A i \in u + 1 .. u + n :
             /\ r + i - 1 \in Nat /\ i - u \in 1 .. n
             /\ r + u + (i - u) - 1 = r + i - 1
    BY <2>1, Between
  <2> QED BY <2>2, Zenon DEF r, u
<1>8. ASSUME NEW i \in 1 .. Used(q)
      PROVE  Bytestream(t)[i] = Bytestream(q)[i]
  <2> DEFINE a == q.nread + i - 1
  <2>1. a \in Nat /\ a % PIPESIZE \in 0 .. PIPESIZE - 1
    BY <1>1, PlaceIn
  <2>2. ASSUME NEW j \in 1 .. n
        PROVE  (q.nwrite + j - 1) % PIPESIZE # a % PIPESIZE
    <3> DEFINE d == Used(q) + j - i
    <3>1. d \in 1 .. PIPESIZE - 1 /\ a + d = q.nread + Used(q) + j - 1
      BY <1>7
    <3> HIDE DEF a, d
    <3> QED BY <1>6, <2>1, <3>1, PlacesDiffer
  <2>3. At(a % PIPESIZE) = {}
    BY <2>2
  <2>4. t.data[a % PIPESIZE] = q.data[a % PIPESIZE]
    <3> HIDE DEF a, At
    <3> QED BY <1>4, <2>1, <2>3
  <2>5. i \in 1 .. Used(t)
    BY <1>1, <1>5
  <2> QED BY <1>5, <2>4, <2>5, StreamIs
<1>9. ASSUME NEW i \in Used(q) + 1 .. Used(q) + n
      PROVE  Bytestream(t)[i] \in Bytes
  <2> DEFINE a == q.nread + i - 1
             j == i - Used(q)
  <2>1. /\ a \in Nat /\ a % PIPESIZE \in 0 .. PIPESIZE - 1
        /\ j \in 1 .. n /\ q.nread + Used(q) + j - 1 = a
    BY <1>7, PlaceIn
  <2>2. j \in At(a % PIPESIZE)
    <3> HIDE DEF a, j
    <3> QED BY <1>6, <2>1
  <2> HIDE DEF a, j
  <2>3. t.data[a % PIPESIZE] = s[CHOOSE l \in At(a % PIPESIZE) : TRUE]
    <3> HIDE DEF At
    <3> QED BY <1>4, <2>1, <2>2
  <2>4. (CHOOSE l \in At(a % PIPESIZE) : TRUE) \in 1 .. n
    BY <2>2
  <2>5. i \in 1 .. Used(t)
    BY <1>1, <1>5
  <2>6. Bytestream(t)[i] = t.data[a % PIPESIZE]
    BY <1>5, <2>5, StreamIs DEF a
  <2> QED BY <2>3, <2>4, <2>6
<1> QED BY <1>8, <1>9

-----------------------------------------------------------------------------
(* Steps of the channel, by what they do to Queue and OpenEnds.            *)
LEMMA ChannelKept ==
    ASSUME NEW k \in Pipes, Queue(k)' = Queue(k), OpenEnds(k)' = OpenEnds(k)
    PROVE  UNCHANGED Chan(k)!cvars
BY DEF Chan!cvars, Queue, OpenEnds

LEMMA ChannelOpens ==
    ASSUME NEW k \in Pipes, OpenEnds(k) = {}, OpenEnds(k)' = {"read", "write"},
           Queue(k)' = <<>>
    PROVE  Chan(k)!Next
BY DEF Chan!Next, Chan!Open, Queue, OpenEnds

LEMMA ChannelCloses ==
    ASSUME NEW k \in Pipes, NEW e \in OpenEnds(k), OpenEnds(k)' = OpenEnds(k) \ {e},
           Queue(k)' = IF OpenEnds(k) = {e} THEN <<>> ELSE Queue(k)
    PROVE  Chan(k)!Next
BY DEF Chan!Next, Chan!Close, Queue, OpenEnds

LEMMA ChannelPuts ==
    ASSUME NEW k \in Pipes, "write" \in OpenEnds(k), OpenEnds(k)' = OpenEnds(k),
           Len(Queue(k)') \in Len(Queue(k)) + 1 .. PIPESIZE,
           SubSeq(Queue(k)', 1, Len(Queue(k))) = Queue(k),
           \A i \in Len(Queue(k)) + 1 .. Len(Queue(k)') : Queue(k)'[i] \in Bytes
    PROVE  Chan(k)!Next
BY DEF Chan!Next, Chan!Put, Queue, OpenEnds

LEMMA ChannelTakes ==
    ASSUME NEW k \in Pipes, "read" \in OpenEnds(k), OpenEnds(k)' = OpenEnds(k),
           NEW n \in 1 .. Len(Queue(k)),
           Queue(k)' = SubSeq(Queue(k), n + 1, Len(Queue(k)))
    PROVE  Chan(k)!Next
BY DEF Chan!Next, Chan!Take, Queue, OpenEnds

LEMMA PageKept ==
    ASSUME NEW k \in Pipes, pipe'[k] = pipe[k]
    PROVE  UNCHANGED Chan(k)!cvars
<1>1. Queue(k)' = Queue(k) /\ OpenEnds(k)' = OpenEnds(k)
  BY DEF Queue, OpenEnds, Live, Bytestream
<1> QED BY <1>1, ChannelKept

(* A page with a pipe in it, before and after.                             *)
LEMMA PageIs ==
    ASSUME NEW k \in Pipes
    PROVE  /\ pipe[k] \in Page => /\ k \in Live /\ Queue(k) = Bytestream(pipe[k])
                                  /\ "read" \in OpenEnds(k) <=> pipe[k].readopen
                                  /\ "write" \in OpenEnds(k) <=> pipe[k].writeopen
           /\ pipe'[k] \in Page => /\ k \in Live' /\ Queue(k)' = Bytestream(pipe'[k])
                                   /\ "read" \in OpenEnds(k)' <=> pipe'[k].readopen
                                   /\ "write" \in OpenEnds(k)' <=> pipe'[k].writeopen
           /\ pipe[k] = None => Queue(k) = <<>> /\ OpenEnds(k) = {}
           /\ pipe'[k] = None => Queue(k)' = <<>> /\ OpenEnds(k)' = {}
           /\ OpenEnds(k) \in SUBSET {"read", "write"}
           /\ OpenEnds(k)' \in SUBSET {"read", "write"}
BY NoneAssumption DEF Queue, OpenEnds, Live, Bytestream

-----------------------------------------------------------------------------
(* Steps of processes.                                                     *)
ChannelStep == \A k \in Pipes : [Chan(k)!Next]_(Chan(k)!cvars)

LEMMA OnePage ==
    ASSUME PipeInv, NEW k \in Pipes, NEW v, pipe' = [pipe EXCEPT ![k] = v],
           Chan(k)!Next \/ UNCHANGED Chan(k)!cvars
    PROVE  ChannelStep
<1>1. ASSUME NEW j \in Pipes, j # k PROVE pipe'[j] = pipe[j]
  BY <1>1 DEF PipeInv, TypeOK
<1>2. ASSUME NEW j \in Pipes, j # k PROVE UNCHANGED Chan(j)!cvars
  BY <1>1, <1>2, PageKept
<1>3. ASSUME NEW j \in Pipes PROVE Chan(j)!Next \/ UNCHANGED Chan(j)!cvars
  <2>1. CASE j = k
    BY <2>1
  <2> QED BY <1>2, <2>1
<1> QED BY <1>3 DEF ChannelStep

LEMMA ReadyStep ==
    ASSUME PipeInv, NEW p \in Procs, PipeReady(p)
    PROVE  ChannelStep
<1>1. PICK k \in Pipes : pipe[k] = None /\ pipe' = [pipe EXCEPT ![k] = NewPipe]
  BY DEF PipeReady
<1>2. pipe'[k] = NewPipe
  BY <1>1 DEF PipeInv, TypeOK
<1>3. /\ NewPipe \in Page /\ NewPipe.readopen /\ NewPipe.writeopen
      /\ NewPipe.nread = NewPipe.nwrite
  BY RingAssumption DEF NewPipe, Page
<1>4. Bytestream(NewPipe) = <<>>
  <2>1. Used(NewPipe) = 0
    BY <1>3, UsedIs
  <2>2. Bytestream(NewPipe) \in Seq(Stored) /\ Len(Bytestream(NewPipe)) = 0
    BY <1>3, <2>1, StreamIs
  <2> QED BY <2>2, EmptySeq
<1>5. Queue(k)' = <<>> /\ OpenEnds(k) = {}
  BY <1>1, <1>2, <1>3, <1>4, PageIs
<1>6. OpenEnds(k)' = {"read", "write"}
  BY <1>2, <1>3, PageIs
<1> QED BY <1>1, <1>5, <1>6, ChannelOpens, OnePage

LEMMA CloseStep ==
    ASSUME PipeInv, NEW p \in Procs, Pipeclose(p)
    PROVE  ChannelStep
<1>1. PICK k \in Pipes, q \in Page, e \in {"read", "write"} :
         /\ k = cur[p].pipe /\ q = pipe[k] /\ k \in Live
         /\ e = IF cur[p].writable THEN "write" ELSE "read"
         /\ e = "read" => q.readopen
         /\ e = "write" => q.writeopen
  <2>1. /\ cur[p] \in OpenEnd /\ cur[p].pipe \in Live /\ pipe[cur[p].pipe] \in Page
        /\ ~cur[p].writable => pipe[cur[p].pipe].readopen
        /\ cur[p].writable => pipe[cur[p].pipe].writeopen
    BY CloserEnd DEF Pipeclose
  <2>2. cur[p].pipe \in Pipes /\ cur[p].writable \in BOOLEAN
    BY <2>1 DEF OpenEnd
  <2> QED BY <2>1, <2>2
<1> DEFINE t == IF e = "write" THEN [q EXCEPT !.writeopen = FALSE]
                               ELSE [q EXCEPT !.readopen = FALSE]
<1>2. pipe' = [pipe EXCEPT ![k] = AfterClose(t)]
  BY <1>1 DEF Pipeclose
<1>3. pipe'[k] = AfterClose(t)
  BY <1>2 DEF PipeInv, TypeOK
<1>4. /\ t \in Page /\ t.data = q.data /\ t.nread = q.nread /\ t.nwrite = q.nwrite
      /\ t.readopen <=> q.readopen /\ e # "read"
      /\ t.writeopen <=> q.writeopen /\ e # "write"
  BY <1>1 DEF Page
<1>5. Bytestream(t) = Bytestream(q)
  <2> HIDE DEF t
  <2> QED BY <1>4 DEF Bytestream, Used
<1>6. e \in OpenEnds(k)
  BY <1>1, PageIs
<1> HIDE DEF t
<1>7. CASE ~t.readopen /\ ~t.writeopen
  <2>1. pipe'[k] = None
    BY <1>3, <1>7 DEF AfterClose
  <2>2. OpenEnds(k)' = {} /\ Queue(k)' = <<>>
    BY <2>1, PageIs
  <2>3. OpenEnds(k) = {e}
    BY <1>1, <1>4, <1>6, <1>7, PageIs
  <2>4. Chan(k)!Next
    BY <1>6, <2>2, <2>3, ChannelCloses
  <2> QED BY <1>2, <2>4, OnePage
<1>8. CASE t.readopen \/ t.writeopen
  <2>1. pipe'[k] = t
    BY <1>3, <1>8 DEF AfterClose
  <2>2. /\ Queue(k)' = Queue(k)
        /\ "read" \in OpenEnds(k)' <=> "read" \in OpenEnds(k) /\ e # "read"
        /\ "write" \in OpenEnds(k)' <=> "write" \in OpenEnds(k) /\ e # "write"
    BY <1>1, <1>4, <1>5, <2>1, PageIs
  <2>3. OpenEnds(k)' = OpenEnds(k) \ {e} /\ OpenEnds(k) # {e}
    <3>1. /\ OpenEnds(k) \in SUBSET {"read", "write"}
          /\ OpenEnds(k)' \in SUBSET {"read", "write"}
      BY PageIs
    <3>2. OpenEnds(k)' # {}
      BY <1>4, <1>8, <2>1, PageIs
    <3> QED BY <1>6, <2>2, <3>1, <3>2
  <2>4. Chan(k)!Next
    BY <1>6, <2>2, <2>3, ChannelCloses
  <2> QED BY <1>2, <2>4, OnePage
<1> QED BY <1>7, <1>8

LEMMA ReadStep ==
    ASSUME PipeInv, NEW p \in Procs, Piperead(p)
    PROVE  ChannelStep
<1>1. PICK k \in Live, q \in Page, n \in Nat :
         /\ k = cur[p].pipe /\ q = pipe[k] /\ n <= Used(q) /\ pc[p] = "read"
         /\ pipe' = [pipe EXCEPT ![k] = [q EXCEPT !.nread = (@ + n) % Counts]]
         /\ pipe'[k] \in Page
  BY PipereadIs
<1> DEFINE t == [q EXCEPT !.nread = (@ + n) % Counts]
<1>2. k \in Pipes /\ pipe'[k] = t
  BY <1>1 DEF PipeInv, TypeOK, Live
<1>3. q.readopen
  BY <1>1, CallerEnd DEF Readers
<1>4. /\ Queue(k) = Bytestream(q) /\ Queue(k)' = Bytestream(t)
      /\ "read" \in OpenEnds(k) /\ OpenEnds(k)' = OpenEnds(k)
  <2>1. t.readopen = q.readopen /\ t.writeopen = q.writeopen
    BY DEF Page
  <2> HIDE DEF t
  <2>2. /\ Queue(k) = Bytestream(q) /\ Queue(k)' = Bytestream(t)
        /\ "read" \in OpenEnds(k)
        /\ "read" \in OpenEnds(k)' <=> "read" \in OpenEnds(k)
        /\ "write" \in OpenEnds(k)' <=> "write" \in OpenEnds(k)
    BY <1>1, <1>2, <1>3, <2>1, PageIs
  <2>3. /\ OpenEnds(k) \in SUBSET {"read", "write"}
        /\ OpenEnds(k)' \in SUBSET {"read", "write"}
    BY <1>2, PageIs
  <2> QED BY <2>2, <2>3
<1>5. Len(Queue(k)) = Used(q) /\ Used(q) \in Nat
  BY <1>4, StreamIs, UsedIs, RingAssumption
<1>6. Queue(k)' = SubSeq(Queue(k), n + 1, Len(Queue(k)))
  BY <1>1, <1>4, <1>5, StreamRead
<1> HIDE DEF t
<1>7. CASE n = 0
  <2>1. Queue(k) \in Seq(Stored)
    BY <1>4, StreamIs
  <2>2. Queue(k)' = Queue(k)
    BY <1>6, <1>7, <2>1, SubSeqFull
  <2>3. UNCHANGED Chan(k)!cvars
    BY <1>2, <1>4, <2>2, ChannelKept
  <2> QED BY <1>1, <1>2, <2>3, OnePage
<1>8. CASE n # 0
  <2>1. n \in 1 .. Len(Queue(k))
    BY <1>1, <1>5, <1>8
  <2>2. Chan(k)!Next
    BY <1>2, <1>4, <1>6, <2>1, ChannelTakes
  <2> QED BY <1>1, <1>2, <2>2, OnePage
<1> QED BY <1>7, <1>8

LEMMA WriteStep ==
    ASSUME PipeInv, NEW p \in Procs, Pipewrite(p)
    PROVE  ChannelStep
<1>0. PICK k \in Live, q \in Page, n \in Nat : \E s \in [1 .. n -> Bytes] :
         PageWritten(p, k, q, n, s)
  BY PipewriteIs, Zenon
<1>1. \E s \in [1 .. n -> Bytes] :
         /\ k = cur[p].pipe /\ q = pipe[k] /\ Used(q) + n <= PIPESIZE
         /\ pc[p] = "write"
         /\ pipe' = [pipe EXCEPT ![k] = pipe'[k]]
         /\ pipe'[k] = [Filled(q, s) EXCEPT !.cut = pipe'[k].cut]
         /\ pipe'[k] \in Page /\ Used(pipe'[k]) = Used(q) + n
         /\ pipe'[k].readopen = q.readopen /\ pipe'[k].writeopen = q.writeopen
  BY <1>0, Zenon DEF PageWritten
<1>2. PICK s \in [1 .. n -> Bytes], t \in Page :
         /\ t = pipe'[k] /\ t = [Filled(q, s) EXCEPT !.cut = t.cut]
         /\ t.readopen = q.readopen /\ t.writeopen = q.writeopen
         /\ Used(t) = Used(q) + n
  BY <1>1
<1>3. k \in Pipes
  BY <1>1 DEF Live
<1>4. q.writeopen
  BY <1>1, CallerEnd DEF Writers
<1>5. /\ Queue(k) = Bytestream(q) /\ Queue(k)' = Bytestream(t)
      /\ "write" \in OpenEnds(k) /\ OpenEnds(k)' = OpenEnds(k)
  <2>1. /\ Queue(k) = Bytestream(q) /\ Queue(k)' = Bytestream(t)
        /\ "write" \in OpenEnds(k)
        /\ "read" \in OpenEnds(k)' <=> "read" \in OpenEnds(k)
        /\ "write" \in OpenEnds(k)' <=> "write" \in OpenEnds(k)
    <3>1. pipe[k] = q /\ pipe'[k] = t
      BY <1>1, <1>2
    <3>2. t.readopen = q.readopen /\ t.writeopen = q.writeopen
      BY <1>2
    <3> QED BY <1>3, <1>4, <3>1, <3>2, PageIs
  <2>2. /\ OpenEnds(k) \in SUBSET {"read", "write"}
        /\ OpenEnds(k)' \in SUBSET {"read", "write"}
    BY <1>3, PageIs
  <2> QED BY <2>1, <2>2
<1>6. /\ Queue(k) \in Seq(Stored) /\ Len(Queue(k)) = Used(q)
      /\ Queue(k)' \in Seq(Stored) /\ Len(Queue(k)') = Used(q) + n
      /\ Used(q) \in Nat /\ PIPESIZE \in Nat
  BY <1>2, <1>5, StreamIs, UsedIs, RingAssumption
<1>7. /\ \A i \in 1 .. Used(q) : Queue(k)'[i] = Queue(k)[i]
      /\ \A i \in Used(q) + 1 .. Used(q) + n : Queue(k)'[i] \in Bytes
  <2>1. /\ \A i \in 1 .. Used(q) : Bytestream(t)[i] = Bytestream(q)[i]
        /\ \A i \in Used(q) + 1 .. Used(q) + n : Bytestream(t)[i] \in Bytes
    <3>1. Used(q) + n <= PIPESIZE /\ t = [Filled(q, s) EXCEPT !.cut = t.cut]
      BY <1>1, <1>2
    <3> QED BY <3>1, StreamWrite
  <2> QED BY <1>5, <2>1
<1>8. SubSeq(Queue(k)', 1, Used(q)) = Queue(k)
  <2> DEFINE B == Queue(k)'
             C == SubSeq(B, 1, Used(q))
  <2>1. \A i \in 1 .. Used(q) : B[i] \in Stored
    BY <1>6, <1>7, ElementOfSeq
  <2> HIDE DEF B
  <2>2. /\ C \in Seq(Stored)
        /\ Len(C) = IF 1 <= Used(q) THEN Used(q) - 1 + 1 ELSE 0
        /\ \A i \in 1 .. Used(q) - 1 + 1 : C[i] = B[1 + i - 1]
    BY <1>6, <2>1, SubSeqProperties
  <2> HIDE DEF C
  <2>3. Len(C) = Used(q) /\ \A i \in 1 .. Used(q) : C[i] = B[i]
    BY <1>6, <2>2
  <2>4. \A i \in 1 .. Len(C) : C[i] = Queue(k)[i]
    BY <1>7, <2>3 DEF B
  <2>5. C = Queue(k)
    BY <1>6, <2>2, <2>3, <2>4, SeqEqual
  <2> QED BY <2>5 DEF B, C
<1>9. CASE n = 0
  <2>1. Queue(k)' = Queue(k)
    BY <1>6, <1>7, <1>9, SeqEqual
  <2>2. UNCHANGED Chan(k)!cvars
    BY <1>3, <1>5, <2>1, ChannelKept
  <2> QED BY <1>1, <1>3, <2>2, OnePage
<1>10. CASE n # 0
  <2>1. Len(Queue(k)') \in Len(Queue(k)) + 1 .. PIPESIZE
    BY <1>1, <1>6, <1>10
  <2>2. Chan(k)!Next
    BY <1>3, <1>5, <1>6, <1>7, <1>8, <2>1, ChannelPuts
  <2> QED BY <1>1, <1>3, <2>2, OnePage
<1> QED BY <1>9, <1>10

LEMMA StepIs ==
    ASSUME PipeInv, NEW p \in Procs,
           PipeStep(p) \/ FdStep(p) \/ ProcStep(p) \/ IoStep(p) \/ Kill(p)
    PROVE  ChannelStep \/ pipe' = pipe
<1>1. CASE PipeReady(p) \/ Pipeclose(p) \/ Piperead(p) \/ Pipewrite(p)
  BY <1>1, ReadyStep, CloseStep, ReadStep, WriteStep
<1>2. CASE PipeStart(p) \/ PipeSecond(p) \/ PipeNoPage(p)
  BY <1>2 DEF PipeStart, PipeSecond, PipeNoPage
<1>3. CASE Dup(p) \/ Close(p) \/ Fileclose(p) \/ CloseDone(p)
  BY <1>3 DEF Dup, Close, Fileclose, CloseDone
<1>4. CASE ProcStep(p)
  BY <1>4 DEF ProcStep, Fork, ForkFile, ForkReady, Exit, ExitFile, Exited
<1>5. CASE ReadCall(p) \/ PipereadEmpty(p) \/ WriteCall(p) \/ Sleep(p) \/ Kill(p)
  BY <1>5 DEF ReadCall, WriteCall, Call, PipereadEmpty, Sleep, Kill
<1> QED BY <1>1, <1>2, <1>3, <1>4, <1>5 DEF PipeStep, FdStep, IoStep

-----------------------------------------------------------------------------
(* piperead() and pipewrite() move bytes through the ring of pipe.c so     *)
(* that each pipe is a bounded queue: no byte is lost, repeated or         *)
(* reordered, whatever the interleaving and wherever the counters wrap.    *)
THEOREM Implements == Spec => ChannelSpec
<1>1. Init => \A k \in Pipes : Chan(k)!Init
  BY DEF Init, Chan!Init, Live
<1>2. PipeInv /\ [Next]_vars => [\A k \in Pipes : [Chan(k)!Next]_(Chan(k)!cvars)]_pipe
  <2>1. CASE Next
    BY <2>1, StepIs DEF Next, ChannelStep
  <2>2. CASE UNCHANGED vars
    BY <2>2 DEF vars
  <2> QED BY <2>1, <2>2
<1> QED BY <1>1, <1>2, Invariance, PTL DEF Spec, ChannelSpec
=============================================================================
