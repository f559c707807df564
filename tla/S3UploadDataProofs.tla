--------------------------- MODULE S3UploadDataProofs ---------------------------
(* Where the bytes of an upload are: the accepted input is cut into the reserved *)
(* parts and a buffer, whoever holds them, so that what is published is the input. *)
EXTENDS S3UploadSessionProofs, SequenceTheorems, WellFoundedInduction

\* The upload may still be published: it has not ended, nor is about to fail.
Publishable ==
    /\ ~failed
    /\ lifecycle_state \in {"ACTIVE", "FINALIZING"}
    /\ \A t \in Threads : pc[t] # "LatchFailure"

\* A Finalize at work; the buffer is its own.
Finalizing(t) == op[t] = "Finalize" /\ pc[t] \in OperationLabels \ FailureLabels

\* The labels of a write whose input was accepted.
AcceptedLabels == UploadLabels \cup {"UpdateCursor"}

\* A buffer holds the input from lo up to hi.
Covers(buffer, lo, hi) ==
    /\ lo <= hi
    /\ IF buffer = None THEN lo = hi ELSE buffer.bytes = Bytes(lo, hi)

\* The data variables have their types; a buffer keeps to its capacity, and a thread with
\* parts to upload has reserved them.
DataTypeInv ==
    /\ next_offset \in 0..MaxFileSize
    /\ buffered_part \in BufferedPart \cup {None}
    /\ buffered_part # None => Len(buffered_part.bytes) <= buffered_part.capacity
    /\ part_etags \in Seq(BOOLEAN) /\ Len(part_etags) <= MaxParts
    /\ length \in Nat
    /\ arg \in [Threads -> [location : Nat, size : Nat]]
    /\ todo \in [Threads -> Seq(PreparedPart)]
    /\ local_buffered_part \in [Threads -> BufferedPart \cup {None}]
    /\ stored \in [1..MaxParts -> Seq(Byte) \cup {None}]
    /\ object \in Seq(Byte) \cup {None}
    /\ \A t \in Threads :
          pc[t] \in UploadLabels =>
              /\ todo[t] # <<>>
              /\ \A i \in 1..Len(todo[t]) : todo[t][i].part_number \in 1..Len(part_etags)

\* bound[n] is where part n ends: the parts, stored or still to be uploaded, and the
\* buffer lie end to end and make up the accepted input.
Layout(bound) ==
    LET reserved == Len(part_etags)
    IN  /\ bound[0] = 0
        /\ \A n \in 1..reserved : bound[n - 1] <= bound[n]
        /\ \A n \in 1..reserved : part_etags[n] => stored[n] = Bytes(bound[n - 1], bound[n])
        /\ \A t \in Threads : pc[t] \in UploadLabels =>
              \A i \in 1..Len(todo[t]) :
                  todo[t][i].bytes =
                      Bytes(bound[todo[t][i].part_number - 1], bound[todo[t][i].part_number])
        /\ \A t \in Threads : Finalizing(t) =>
              buffered_part = None /\ Covers(local_buffered_part[t], bound[reserved], next_offset)
        /\ (\A t \in Threads : ~Finalizing(t)) =>
              Covers(buffered_part, bound[reserved], next_offset)

LayoutInv ==
    Publishable => \E bound \in [0..Len(part_etags) -> 0..MaxFileSize] : Layout(bound)

\* What a Finalize has done so far.
FinalizeInv ==
    /\ lifecycle_state = "FINALIZING" =>
          \E t \in Threads : op[t] = "Finalize" /\ pc[t] \in OperationLabels \ {"ReleaseOperation"}
    /\ \A t \in Threads :
          /\ pc[t] = "UploadSingle" => part_etags = <<>>
          /\ Finalizing(t) /\ pc[t] \in UploadLabels \cup {"CompleteMultipartUpload", "ReceiveCompletion"} =>
                local_buffered_part[t] = None
          /\ pc[t] = "ReceiveCompletion" => \A i \in 1..Len(part_etags) : part_etags[i]
          /\ pc[t] = "FinishFinalize" => object = Bytes(0, next_offset)

\* The handle's length falls behind the accepted input only by writes in progress.
CursorInv ==
    /\ length <= next_offset
    /\ \A t \in Threads : op[t] = "Write" /\ pc[t] \in AcceptedLabels =>
          arg[t].location + arg[t].size <= next_offset
    /\ ~failed /\ length # next_offset =>
          \E t \in Threads :
              /\ op[t] = "Write" /\ pc[t] \in OperationLabels \ {"PrepareWrite", "ReleaseOperation"}
              /\ arg[t].location + arg[t].size = next_offset

ObjectInv ==
    /\ PublishedObjectIsInput
    /\ lifecycle_state = "FINALIZED" => object # None

DataInv ==
    /\ DataTypeInv
    /\ LayoutInv
    /\ FinalizeInv
    /\ CursorInv
    /\ ObjectInv

-----------------------------------------------------------------------------
(* Numbers and bytes. *)

\* A set of naturals has a least element.
LEMMA LeastNumber ==
  ASSUME NEW S \in SUBSET Nat, S # {}
  PROVE  \E n \in S : \A m \in S : n <= m
  <1>1. PICK n \in S : \A m \in S : ~(<<m, n>> \in OpToRel(<, Nat))
    BY NatLessThanWellFounded, WFMin
  <1>2. ASSUME NEW m \in S PROVE n <= m
    <2>1. m \in Nat /\ n \in Nat /\ ~(m < n)
      BY <1>1 DEF OpToRel
    <2> QED  BY <2>1
  <1> QED  BY <1>2

\* Min chooses the least member.
LEMMA MinIsLeast ==
  ASSUME NEW S \in SUBSET Nat, S # {}
  PROVE  Min(S) \in S /\ \A m \in S : Min(S) <= m
  BY LeastNumber DEF Min

\* The lesser of two numbers.
LEMMA MinOfTwo ==
  ASSUME NEW a \in Nat, NEW b \in Nat
  PROVE  Min({a, b}) = IF a <= b THEN a ELSE b
  <1>1. {a, b} \in SUBSET Nat /\ {a, b} # {}
    OBVIOUS
  <1>2. Min({a, b}) \in {a, b} /\ Min({a, b}) <= a /\ Min({a, b}) <= b
    BY <1>1, MinIsLeast
  <1> QED  BY <1>2

\* The greater of two numbers.
LEMMA MaxOfTwo ==
  ASSUME NEW a \in Nat, NEW b \in Nat
  PROVE  Max({a, b}) = IF a <= b THEN b ELSE a
  <1> DEFINE m == IF a <= b THEN b ELSE a
  <1>1. m \in {a, b} /\ \A y \in {a, b} : m >= y
    OBVIOUS
  <1>2. \A x \in {a, b} : (\A y \in {a, b} : x >= y) => x = m
    OBVIOUS
  <1> HIDE DEF m
  <1>3. Max({a, b}) = m
    BY <1>1, <1>2 DEF Max
  <1> QED  BY <1>3 DEF m

\* Part of the file is a sequence of bytes.
LEMMA BytesType ==
  ASSUME NEW lo \in Nat, NEW hi \in Nat, lo <= hi
  PROVE  /\ Bytes(lo, hi) \in Seq(Byte)
         /\ Len(Bytes(lo, hi)) = hi - lo
         /\ \A i \in 1..(hi - lo) : Bytes(lo, hi)[i] = lo + i - 1
  <1>1. hi - lo \in Nat
    OBVIOUS
  <1> DEFINE n == hi - lo
  <1>2. \A i \in 1..n : lo + i - 1 \in Nat
    OBVIOUS
  <1>3. Bytes(lo, hi) = [i \in 1..n |-> lo + i - 1]
    BY DEF Bytes
  <1> HIDE DEF n
  <1>4. n \in Nat
    BY <1>1 DEF n
  <1>5. Bytes(lo, hi) \in Seq(Nat) /\ Len(Bytes(lo, hi)) = n
    BY <1>2, <1>3, <1>4
  <1> QED  BY <1>3, <1>5 DEF n, Byte

\* Two adjacent parts of the file make up one.
LEMMA BytesAdjacent ==
  ASSUME NEW lo \in Nat, NEW mid \in Nat, NEW hi \in Nat, lo <= mid, mid <= hi
  PROVE  Bytes(lo, mid) \o Bytes(mid, hi) = Bytes(lo, hi)
  <1> DEFINE a == Bytes(lo, mid)
             b == Bytes(mid, hi)
             c == Bytes(lo, hi)
  <1>0. lo <= hi
    OBVIOUS
  <1>a. /\ a \in Seq(Byte) /\ Len(a) = mid - lo
        /\ \A i \in 1..(mid - lo) : a[i] = lo + i - 1
    BY BytesType
  <1>b. /\ b \in Seq(Byte) /\ Len(b) = hi - mid
        /\ \A i \in 1..(hi - mid) : b[i] = mid + i - 1
    BY BytesType
  <1>c. /\ c \in Seq(Byte) /\ Len(c) = hi - lo
        /\ \A i \in 1..(hi - lo) : c[i] = lo + i - 1
    BY <1>0, BytesType
  <1> HIDE DEF a, b, c
  <1>4. a \o b \in Seq(Byte) /\ Len(a \o b) = Len(c)
    BY <1>a, <1>b, <1>c
  <1>5. ASSUME NEW i \in 1..Len(c)
        PROVE  (a \o b)[i] = c[i]
    <2>1. CASE i <= mid - lo
      BY <1>a, <1>b, <1>c, <2>1
    <2>2. CASE i > mid - lo
      <3>1. i - (mid - lo) \in 1..(hi - mid)
        BY <1>c, <2>2
      <3>2. (a \o b)[i] = b[i - (mid - lo)]
        BY SMTT(40), <1>a, <1>b, <1>c, <2>2
      <3> QED  BY <1>b, <1>c, <3>1, <3>2
    <2>3. i <= mid - lo \/ i > mid - lo
      BY <1>c
    <2> QED  BY <2>1, <2>2, <2>3
  <1>6. a \o b = c
    BY <1>c, <1>4, <1>5, SeqEqual
  <1> QED  BY <1>6 DEF a, b, c

\* Parts that lie end to end flatten to what they cover together.
LEMMA FlattenLayout ==
  ASSUME NEW n \in Nat, NEW bound \in [0..n -> Nat], NEW seqs,
         seqs = [i \in 1..n |-> Bytes(bound[i - 1], bound[i])],
         bound[0] = 0, \A i \in 1..n : bound[i - 1] <= bound[i]
  PROVE  FlattenSeq(seqs) = Bytes(0, bound[n])
  <1> DEFINE total(i) == Bytes(0, bound[i])
             recurs(f) == f = [i \in 1..Len(seqs) |->
                                  IF i = 1 THEN seqs[i] ELSE f[i - 1] \o seqs[i]]
             flatten == CHOOSE f : recurs(f)
  <1>1. ASSUME NEW i \in 1..n
        PROVE  seqs[i] \in Seq(Byte)
    <2>1. bound[i - 1] \in Nat /\ bound[i] \in Nat /\ bound[i - 1] <= bound[i]
      OBVIOUS
    <2> QED  BY <2>1, BytesType
  <1>2. seqs \in Seq(Seq(Byte)) /\ Len(seqs) = n
    BY <1>1
  <1>3. ASSUME NEW i \in 1..n, i # 1
        PROVE  total(i - 1) \o seqs[i] = total(i)
    <2>1. i - 1 \in 1..n /\ bound[i - 1] \in Nat /\ bound[i] \in Nat /\ bound[i - 1] <= bound[i]
      BY <1>3
    <2>2. Bytes(0, bound[i - 1]) \o Bytes(bound[i - 1], bound[i]) = Bytes(0, bound[i])
      <3>1. 0 <= bound[i - 1] /\ 0 \in Nat
        BY <2>1
      <3> QED  BY <2>1, <3>1, BytesAdjacent
    <2> QED  BY <2>2
  <1>4. n # 0 => seqs[1] = total(1)
    OBVIOUS
  <1>5. CASE n = 0
    <2>1. seqs = <<>>
      BY <1>2, <1>5
    <2>2. Bytes(0, 0) \in Seq(Byte) /\ Len(Bytes(0, 0)) = 0
      BY BytesType
    <2>3. Bytes(0, 0) = <<>>
      BY <2>2
    <2> QED  BY <1>2, <1>5, <2>1, <2>3 DEF FlattenSeq
  <1>6. CASE n # 0
    <2>1. recurs([i \in 1..n |-> total(i)])
      <3> DEFINE g == [i \in 1..n |-> total(i)]
      <3>1. ASSUME NEW i \in 1..n
            PROVE  g[i] = IF i = 1 THEN seqs[i] ELSE g[i - 1] \o seqs[i]
        <4>1. CASE i = 1
          BY <1>4, <1>6, <4>1
        <4>2. CASE i # 1
          <5>1. i - 1 \in 1..n
            BY <4>2
          <5>2. g[i] = total(i) /\ g[i - 1] = total(i - 1)
            BY <5>1
          <5> QED  BY <1>3, <4>2, <5>2
        <4> QED  BY <4>1, <4>2
      <3>2. g = [i \in 1..n |-> g[i]]
        OBVIOUS
      <3> HIDE DEF g
      <3>3. g = [i \in 1..n |-> IF i = 1 THEN seqs[i] ELSE g[i - 1] \o seqs[i]]
        BY <3>1, <3>2
      <3>4. recurs(g)
        BY ZenonT(40), <1>2, <3>3
      <3> QED  BY <3>4 DEF g
    <2>2. recurs(flatten)
      BY ZenonT(40), <2>1
    <2>3. FlattenSeq(seqs) = flatten[Len(seqs)]
      BY <1>2, <1>6 DEF FlattenSeq
    <2> DEFINE Wrong == {i \in 1..n : flatten[i] # total(i)}
    <2> HIDE DEF flatten, total
    <2>4. Wrong = {}
      <3>1. SUFFICES ASSUME Wrong # {} PROVE FALSE
        OBVIOUS
      <3>2. Wrong \in SUBSET Nat
        OBVIOUS
      <3>3. PICK i \in Wrong : \A m \in Wrong : i <= m
        BY <3>1, <3>2, LeastNumber
      <3>4. flatten[i] = IF i = 1 THEN seqs[i] ELSE flatten[i - 1] \o seqs[i]
        BY <1>2, <2>2, <3>3
      <3>5. CASE i = 1
        BY <1>4, <1>6, <3>3, <3>4, <3>5
      <3>6. CASE i # 1
        <4>1. i - 1 \in 1..n /\ i - 1 \notin Wrong
          BY <3>3, <3>6
        <4>2. flatten[i - 1] = total(i - 1)
          BY <4>1
        <4> QED  BY <1>3, <3>3, <3>4, <3>6, <4>2
      <3> QED  BY <3>5, <3>6
    <2>5. flatten[n] = total(n)
      <3>1. n \in 1..n
        BY <1>6
      <3>2. n \notin Wrong
        BY ONLY <2>4
      <3> QED  BY <3>1, <3>2
    <2> QED  BY <1>2, <2>3, <2>5 DEF total
  <1> QED  BY <1>5, <1>6

\* The bounds b of L + N parts are those of the first L and, from there on, e.
Extends(b, bound, L, e, N) ==
    /\ \A n \in 0..L : b[n] = bound[n]
    /\ \A n \in 0..N : b[L + n] = e[n]
    /\ \A n \in 1..L + N : b[n - 1] <= b[n]

\* Bounds of further parts continue those of the parts before.
LEMMA BoundsExtended ==
  ASSUME NEW L \in Nat, NEW N \in Nat, NEW M \in Nat, NEW bound \in [0..L -> 0..M],
         NEW e \in [0..N -> 0..M], e[0] = bound[L],
         \A n \in 1..L : bound[n - 1] <= bound[n], \A n \in 1..N : e[n - 1] <= e[n]
  PROVE  \E b \in [0..L + N -> 0..M] : Extends(b, bound, L, e, N)
  <1> DEFINE b == [n \in 0..L + N |-> IF n <= L THEN bound[n] ELSE e[n - L]]
  <1>1. \A n \in 0..L : b[n] = bound[n]
    OBVIOUS
  <1>2. ASSUME NEW n \in 0..N
        PROVE  b[L + n] = e[n]
    <2>1. L + n \in 0..L + N
      OBVIOUS
    <2>2. CASE n = 0
      <3>1. L + n = L
        BY <2>2
      <3>2. b[L] = bound[L]
        BY <1>1
      <3> QED  BY <2>2, <3>1, <3>2
    <2>3. CASE n # 0
      <3>1. ~(L + n <= L) /\ (L + n) - L = n
        BY <2>3
      <3> QED  BY <2>1, <3>1
    <2> QED  BY <2>2, <2>3
  <1>3. ASSUME NEW n \in 0..L + N
        PROVE  b[n] \in 0..M
    <2>1. CASE n <= L
      <3>1. n \in 0..L
        BY <2>1
      <3> QED  BY <2>1, <3>1
    <2>2. CASE ~(n <= L)
      <3>1. n - L \in 0..N
        BY <2>2
      <3> QED  BY <2>2, <3>1
    <2> QED  BY <2>1, <2>2
  <1>4. b \in [0..L + N -> 0..M]
    <2>1. b = [n \in 0..L + N |-> b[n]]
      OBVIOUS
    <2> HIDE DEF b
    <2> QED  BY <1>3, <2>1
  <1> HIDE DEF b
  <1>5. ASSUME NEW n \in 1..L + N
        PROVE  b[n - 1] <= b[n]
    <2>1. CASE n <= L
      <3>1. n \in 1..L /\ n \in 0..L /\ n - 1 \in 0..L
        BY <2>1
      <3> QED  BY <1>1, <3>1
    <2>2. CASE ~(n <= L)
      <3> DEFINE k == n - L
      <3>1. /\ k \in 1..N /\ k \in 0..N /\ k - 1 \in 0..N
            /\ L + k = n /\ L + (k - 1) = n - 1
        BY <2>2
      <3> HIDE DEF k
      <3>2. b[L + k] = e[k] /\ b[L + (k - 1)] = e[k - 1] /\ e[k - 1] <= e[k]
        BY <1>2, <3>1
      <3> QED  BY <3>1, <3>2
    <2> QED  BY <2>1, <2>2
  <1>6. Extends(b, bound, L, e, N)
    BY <1>1, <1>2, <1>5 DEF Extends
  <1> QED  BY <1>4, <1>6

\* New slots are added behind the reserved ones.
LEMMA ReserveProperties ==
  ASSUME part_etags \in Seq(BOOLEAN), NEW S, NEW parts \in Seq(S), Reserve(parts)
  PROVE  /\ part_etags' \in Seq(BOOLEAN)
         /\ Len(part_etags') = Len(part_etags) + Len(parts)
         /\ \A n \in 1..Len(part_etags') :
               part_etags'[n] = IF n <= Len(part_etags) THEN part_etags[n] ELSE FALSE
  <1> DEFINE new == [i \in 1..Len(parts) |-> FALSE]
  <1>1. new \in Seq(BOOLEAN) /\ Len(new) = Len(parts)
    OBVIOUS
  <1>2. part_etags' = part_etags \o new
    BY DEF Reserve
  <1>3. \A i \in 1..Len(parts) : new[i] = FALSE
    OBVIOUS
  <1> HIDE DEF new
  <1>4. /\ part_etags \o new \in Seq(BOOLEAN)
        /\ Len(part_etags \o new) = Len(part_etags) + Len(new)
        /\ \A i \in 1..Len(part_etags) + Len(new) : (part_etags \o new)[i] =
              IF i <= Len(part_etags) THEN part_etags[i] ELSE new[i - Len(part_etags)]
    BY ONLY part_etags \in Seq(BOOLEAN), <1>1, ConcatProperties, Zenon
  <1>5. ASSUME NEW n \in 1..Len(part_etags')
        PROVE  part_etags'[n] = IF n <= Len(part_etags) THEN part_etags[n] ELSE FALSE
    <2>1. n \in 1..Len(part_etags) + Len(new)
      BY <1>2, <1>4
    <2>2. CASE n <= Len(part_etags)
      BY <1>2, <1>4, <2>1, <2>2
    <2>3. CASE ~(n <= Len(part_etags))
      <3>1. n - Len(part_etags) \in 1..Len(parts)
        BY <1>1, <2>1, <2>3
      <3> QED  BY <1>2, <1>3, <1>4, <2>1, <2>3, <3>1
    <2> QED  BY <2>2, <2>3
  <1> QED  BY <1>1, <1>2, <1>4, <1>5

-----------------------------------------------------------------------------
(* How a write is cut into parts. *)

USE SessionAssumption DEF SessionAssumption

\* Where the k-th part taken straight from the input ends.
DirectEnd(lo, hi, k) == Min({lo + k * MaxPartSize, hi})

\* The loop over the input stops within the part numbers, and before it every part is full.
LEMMA DirectCountBounds ==
  ASSUME NEW r \in Nat, NEW base \in 0..MaxParts
  PROVE  /\ DirectCount(r, base) \in Nat
         /\ base + DirectCount(r, base) <= MaxParts
         /\ \A k \in Nat : k < DirectCount(r, base) => k * MaxPartSize < r
  <1> DEFINE Stop(k) == \/ k * MaxPartSize >= r
                        \/ ~HasPartCapacity(base + k)
                        \/ ShouldBuffer(r - k * MaxPartSize, base + k)
             S == {k \in 0..r : Stop(k)}
             c == Min(S)
  <1>1. MaxPartSize \in Nat /\ MaxPartSize >= 1
    OBVIOUS
  <1>2. r * MaxPartSize >= r
    BY <1>1
  <1>3. r \in S
    BY <1>2
  <1>4. S \in SUBSET Nat /\ S # {}
    <2> HIDE DEF Stop
    <2> QED  BY <1>3
  <1>5. c \in S /\ \A m \in S : c <= m
    BY <1>4, MinIsLeast
  <1>6. DirectCount(r, base) = c
    BY DEF DirectCount
  <1>7. ASSUME NEW k \in Nat, k < c
        PROVE  ~Stop(k)
    <2>1. k \in 0..r /\ k \notin S
      BY SMTT(40), <1>5, <1>7
    <2> QED  BY <2>1
  <1> HIDE DEF c
  <1>8. c \in 0..r
    BY <1>5
  <1>9. \A k \in Nat : k < c => k * MaxPartSize < r
    <2> TAKE k \in Nat
    <2> HAVE k < c
    <2>1. k * MaxPartSize \in Nat
      BY <1>1
    <2>2. ~(k * MaxPartSize >= r)
      BY <1>7
    <2> QED  BY <2>1, <2>2
  <1>10. base + c <= MaxParts
    <2>1. CASE c = 0
      BY <2>1
    <2>2. CASE c # 0
      <3>1. c - 1 \in Nat /\ c - 1 < c
        BY <1>8, <2>2
      <3>2. HasPartCapacity(base + (c - 1))
        BY <1>7, <3>1
      <3> QED  BY <1>8, <3>2 DEF HasPartCapacity
    <2> QED  BY <2>1, <2>2
  <1> QED  BY <1>6, <1>8, <1>9, <1>10

\* c parts of the input from lo to hi, numbered on from base, lie end to end.
DirectCut(lo, hi, base, c) ==
    /\ c \in Nat /\ base + c <= MaxParts
    /\ DirectParts(lo, hi, base, c) \in Seq(PreparedPart)
    /\ Len(DirectParts(lo, hi, base, c)) = c
    /\ DirectEnd(lo, hi, 0) = lo
    /\ \A k \in 0..c : DirectEnd(lo, hi, k) \in lo..hi
    /\ \A k \in 1..c :
          /\ DirectEnd(lo, hi, k - 1) <= DirectEnd(lo, hi, k)
          /\ DirectParts(lo, hi, base, c)[k] =
                [part_number |-> base + k,
                 bytes |-> Bytes(DirectEnd(lo, hi, k - 1), DirectEnd(lo, hi, k))]

\* The loop over the input makes such parts.
LEMMA DirectPartsCut ==
  ASSUME NEW lo \in Nat, NEW hi \in Nat, lo <= hi, NEW base \in 0..MaxParts,
         NEW c, c = DirectCount(hi - lo, base)
  PROVE  DirectCut(lo, hi, base, c)
  <1> DEFINE D == DirectParts(lo, hi, base, c)
  <1>1. hi - lo \in Nat /\ MaxPartSize \in Nat
    OBVIOUS
  <1>2. /\ c \in Nat /\ base + c <= MaxParts
        /\ \A k \in Nat : k < c => k * MaxPartSize < hi - lo
    BY <1>1, DirectCountBounds
  <1>3. ASSUME NEW k \in Nat
        PROVE  /\ k * MaxPartSize \in Nat
               /\ DirectEnd(lo, hi, k) = IF lo + k * MaxPartSize <= hi
                                         THEN lo + k * MaxPartSize ELSE hi
               /\ DirectEnd(lo, hi, k) \in lo..hi
    <2>1. k * MaxPartSize \in Nat
      BY <1>1
    <2> DEFINE a == lo + k * MaxPartSize
    <2>2. a \in Nat /\ lo <= a
      BY <2>1
    <2> HIDE DEF a
    <2>3. Min({a, hi}) = IF a <= hi THEN a ELSE hi
      BY <2>2, MinOfTwo
    <2> QED  BY <2>1, <2>2, <2>3 DEF a, DirectEnd
  <1>4. ASSUME NEW k \in 1..c
        PROVE  /\ lo + (k - 1) * MaxPartSize = DirectEnd(lo, hi, k - 1)
               /\ DirectEnd(lo, hi, k - 1) <= DirectEnd(lo, hi, k)
    <2>1. k - 1 \in Nat /\ k - 1 < c /\ k \in Nat
      BY <1>2
    <2>2. (k - 1) * MaxPartSize < hi - lo
      BY <1>2, <2>1
    <2>3. (k - 1) * MaxPartSize \in Nat
      BY <1>3, <2>1
    <2>4. lo + (k - 1) * MaxPartSize = DirectEnd(lo, hi, k - 1)
      BY <1>3, <2>1, <2>2, <2>3
    <2>5. (k - 1) * MaxPartSize <= k * MaxPartSize
      BY <1>1, <2>1
    <2>6. k * MaxPartSize \in Nat
      BY <1>3, <2>1
    <2>7. DirectEnd(lo, hi, k - 1) <= DirectEnd(lo, hi, k)
      <3> DEFINE x == (k - 1) * MaxPartSize
                 y == k * MaxPartSize
      <3>1. DirectEnd(lo, hi, k) = IF lo + y <= hi THEN lo + y ELSE hi
        BY <1>3, <2>1
      <3>2. x \in Nat /\ y \in Nat /\ x <= y /\ x < hi - lo /\ lo + x = DirectEnd(lo, hi, k - 1)
        BY <2>2, <2>3, <2>4, <2>5, <2>6
      <3> HIDE DEF x, y
      <3> QED  BY <3>1, <3>2
    <2> QED  BY <2>4, <2>7
  <1>5. ASSUME NEW k \in 1..c
        PROVE  /\ D[k] = [part_number |-> base + k,
                          bytes |-> Bytes(DirectEnd(lo, hi, k - 1), DirectEnd(lo, hi, k))]
               /\ D[k] \in PreparedPart
    <2>1. D[k] = [part_number |-> base + k,
                  bytes |-> Bytes(lo + (k - 1) * MaxPartSize, DirectEnd(lo, hi, k))]
      BY DEF DirectParts, DirectEnd
    <2>2. D[k] = [part_number |-> base + k,
                  bytes |-> Bytes(DirectEnd(lo, hi, k - 1), DirectEnd(lo, hi, k))]
      BY <1>4, <2>1
    <2>3. k - 1 \in Nat /\ k \in Nat
      BY <1>2
    <2>4. DirectEnd(lo, hi, k - 1) \in Nat /\ DirectEnd(lo, hi, k) \in Nat
      <3>1. DirectEnd(lo, hi, k - 1) \in lo..hi
        BY <1>3, <2>3
      <3>2. DirectEnd(lo, hi, k) \in lo..hi
        BY <1>3, <2>3
      <3> QED  BY <3>1, <3>2
    <2>5. Bytes(DirectEnd(lo, hi, k - 1), DirectEnd(lo, hi, k)) \in Seq(Byte)
      BY <1>4, <2>4, BytesType
    <2> QED  BY <2>2, <2>5 DEF PreparedPart
  <1>6. D \in Seq(PreparedPart) /\ Len(D) = c
    <2>1. D = [k \in 1..c |-> D[k]]
      BY DEF DirectParts
    <2>2. \A k \in 1..c : D[k] \in PreparedPart
      BY <1>5
    <2> HIDE DEF D
    <2> QED  BY ONLY <1>2, <2>1, <2>2
  <1>7. DirectEnd(lo, hi, 0) = lo
    BY <1>1, <1>3
  <1>8. \A k \in 0..c : DirectEnd(lo, hi, k) \in lo..hi
    BY <1>3
  <1> QED  BY <1>2, <1>4, <1>5, <1>6, <1>7, <1>8 DEF DirectCut

\* A buffer takes no more of the input than there is, nor than it has room for.
LEMMA CopiedBounds ==
  ASSUME NEW buffer \in BufferedPart \cup {None}, NEW size \in Nat,
         buffer # None => Len(buffer.bytes) <= buffer.capacity
  PROVE  /\ Copied(buffer, size) \in 0..size
         /\ buffer = None => Copied(buffer, size) = 0
         /\ buffer # None => /\ buffer.bytes \in Seq(Byte) /\ buffer.capacity \in Nat
                             /\ Len(buffer.bytes) + Copied(buffer, size) <= buffer.capacity
  <1>1. CASE buffer = None
    BY <1>1 DEF Copied
  <1>2. CASE buffer # None
    <2>1. buffer.bytes \in Seq(Byte) /\ buffer.capacity \in Nat
      BY <1>2 DEF BufferedPart
    <2> DEFINE room == buffer.capacity - Len(buffer.bytes)
    <2>2. room \in Nat
      BY <1>2, <2>1
    <2>3. Copied(buffer, size) = Min({size, room})
      BY <1>2 DEF Copied
    <2> HIDE DEF room
    <2>4. Copied(buffer, size) = IF size <= room THEN size ELSE room
      BY <2>2, <2>3, MinOfTwo
    <2> QED  BY <1>2, <2>1, <2>2, <2>4 DEF room
  <1> QED  BY <1>1, <1>2

\* What is appended to a buffer follows its bytes, within its capacity.
LEMMA AppendedBuffer ==
  ASSUME NEW buffer \in BufferedPart, NEW size \in Nat, NEW location \in Nat,
         Len(buffer.bytes) <= buffer.capacity
  PROVE  LET appended == Appended(buffer, location, size)
         IN  /\ appended \in BufferedPart
             /\ Len(appended.bytes) <= appended.capacity
             /\ appended.bytes = buffer.bytes \o Bytes(location, location + Copied(buffer, size))
  <1> DEFINE copied == Copied(buffer, size)
             new == Bytes(location, location + copied)
             appended == Appended(buffer, location, size)
  <1>1. buffer # None
    BY DEF BufferedPart, Byte
  <1>2. /\ copied \in 0..size
        /\ buffer.bytes \in Seq(Byte) /\ buffer.capacity \in Nat
        /\ Len(buffer.bytes) + copied <= buffer.capacity
    BY <1>1, CopiedBounds
  <1> HIDE DEF copied
  <1>3. location + copied \in Nat /\ location <= location + copied
    BY <1>2
  <1>4. new \in Seq(Byte) /\ Len(new) = copied
    <2>1. new \in Seq(Byte) /\ Len(new) = (location + copied) - location
      BY <1>3, BytesType
    <2> HIDE DEF new
    <2> QED  BY <1>2, <2>1
  <1>5. appended = [buffer EXCEPT !.bytes = @ \o new]
    BY DEF Appended, copied
  <1> HIDE DEF new
  <1>6. buffer.bytes \o new \in Seq(Byte) /\ Len(buffer.bytes \o new) = Len(buffer.bytes) + copied
    BY <1>2, <1>4, ConcatProperties
  <1>7. appended = [bytes |-> buffer.bytes \o new, capacity |-> buffer.capacity]
    BY <1>5 DEF BufferedPart
  <1> HIDE DEF appended
  <1> QED  BY <1>2, <1>6, <1>7 DEF BufferedPart, new, appended, copied

\* A write that does not even fit its full buffer.
LEMMA PreparedOverflow ==
  ASSUME NEW size, NEW p, p = PreparedWrite(next_offset, size),
         Flushes(buffered_part, size), ~HasPartCapacity(Len(part_etags))
  PROVE  ~p.fits /\ p.parts = <<>>
  BY DEF PreparedWrite

\* The parts p and the buffer they leave cut the input from start up to hi, at the ends e.
CutAt(p, start, hi, e) ==
    /\ e[0] = start
    /\ \A i \in 0..Len(p.parts) : e[i] \in start..hi
    /\ \A i \in 1..Len(p.parts) :
          e[i - 1] <= e[i] /\ p.parts[i].bytes = Bytes(e[i - 1], e[i])
    /\ Covers(p.buffer, e[Len(p.parts)], hi)

\* The parts of a write are numbered on from the reserved ones, within the limit; with the
\* buffer left behind they hold what the buffer held before and the input, in order.
CutsInput(p, size) ==
    /\ p.parts \in Seq(PreparedPart)
    /\ Len(part_etags) + Len(p.parts) <= MaxParts
    /\ \A i \in 1..Len(p.parts) : p.parts[i].part_number = Len(part_etags) + i
    /\ p.fits =>
          /\ p.buffer \in BufferedPart \cup {None}
          /\ p.buffer # None => Len(p.buffer.bytes) <= p.buffer.capacity
          /\ \A start \in Nat : Covers(buffered_part, start, next_offset) =>
                \E e \in [0..Len(p.parts) -> Nat] : CutAt(p, start, next_offset + size, e)

\* PrepareWrite cuts the input in this way.
LEMMA PreparedCut ==
  ASSUME DataTypeInv, NEW size \in Nat, NEW p, p = PreparedWrite(next_offset, size)
  PROVE  CutsInput(p, size)
  <1> DEFINE reserved == Len(part_etags)
             flushes  == Flushes(buffered_part, size)
             copied   == Copied(buffered_part, size)
             lo       == next_offset + copied
             hi       == next_offset + size
             appended == Appended(buffered_part, next_offset, size)
             first    == [part_number |-> reserved + 1, bytes |-> appended.bytes]
             flushed  == IF flushes THEN <<first>> ELSE <<>>
             base     == reserved + Len(flushed)
             c        == DirectCount(hi - lo, base)
             tail     == DirectEnd(lo, hi, c)
             D        == DirectParts(lo, hi, base, c)
  <1>1. CASE flushes /\ ~HasPartCapacity(reserved)
    <2>1. ~p.fits /\ p.parts = <<>>
      BY <1>1, PreparedOverflow
    <2> QED  BY <2>1 DEF DataTypeInv, CutsInput
  <1>2. CASE ~(flushes /\ ~HasPartCapacity(reserved))
    <2>1. next_offset \in Nat /\ reserved \in 0..MaxParts /\ hi \in Nat
      BY DEF DataTypeInv
    <2>2. /\ copied \in 0..size
          /\ buffered_part = None => copied = 0
      BY CopiedBounds DEF DataTypeInv
    <2>3. lo \in Nat /\ lo <= hi /\ next_offset <= lo
      BY <2>1, <2>2
    <2>4. buffered_part # None =>
             /\ appended \in BufferedPart
             /\ Len(appended.bytes) <= appended.capacity
             /\ appended.bytes = buffered_part.bytes \o Bytes(next_offset, lo)
      BY <2>1, AppendedBuffer DEF DataTypeInv
    <2>5. flushes => buffered_part # None /\ copied < size
      BY DEF Flushes
    <2>6. ~flushes => buffered_part = None \/ lo = hi
      BY <2>2 DEF Flushes
    <2>7. base = IF flushes THEN reserved + 1 ELSE reserved
      OBVIOUS
    <2>8. base \in 0..MaxParts
      BY <1>2, <2>1, <2>7 DEF HasPartCapacity
    <2>9. /\ p.fits => tail = hi \/ ShouldBuffer(hi - tail, base + c)
          /\ p.parts = flushed \o D
          /\ p.buffer = IF tail < hi
                        THEN [bytes |-> Bytes(tail, hi), capacity |-> PartSize[base + c]]
                        ELSE IF buffered_part = None \/ flushes THEN None ELSE appended
      BY <1>2 DEF PreparedWrite, DirectEnd
    <2>10. flushes => first \in PreparedPart
      BY <2>1, <2>4, <2>5 DEF PreparedPart, BufferedPart
    <2>11. flushed \in Seq(PreparedPart) /\ Len(flushed) = (IF flushes THEN 1 ELSE 0)
      BY <2>10
    <2> HIDE DEF base, c, D, tail
    <2>12. /\ c \in Nat /\ base + c <= MaxParts
           /\ D \in Seq(PreparedPart) /\ Len(D) = c
           /\ DirectEnd(lo, hi, 0) = lo
           /\ \A k \in 0..c : DirectEnd(lo, hi, k) \in lo..hi
           /\ \A k \in 1..c :
                 /\ DirectEnd(lo, hi, k - 1) <= DirectEnd(lo, hi, k)
                 /\ D[k] = [part_number |-> base + k,
                            bytes |-> Bytes(DirectEnd(lo, hi, k - 1), DirectEnd(lo, hi, k))]
      <3>1. c = DirectCount(hi - lo, base)
        BY DEF c
      <3>2. D = DirectParts(lo, hi, base, c)
        BY DEF D
      <3> HIDE DEF lo, hi
      <3>3. DirectCut(lo, hi, base, c)
        BY ONLY <2>1, <2>3, <2>8, <3>1, DirectPartsCut
      <3> QED  BY ONLY <3>2, <3>3 DEF DirectCut
    <2>13. tail \in lo..hi
      BY <2>12 DEF tail
    <2> HIDE DEF lo, hi, appended, first, flushed, flushes, reserved, copied
    <2>14. /\ p.parts \in Seq(PreparedPart)
           /\ Len(p.parts) = Len(flushed) + c
           /\ \A i \in 1..Len(flushed) + c : p.parts[i] =
                 IF i <= Len(flushed) THEN flushed[i] ELSE D[i - Len(flushed)]
      <3>1. D \in Seq(PreparedPart) /\ Len(D) = c
        BY <2>12
      <3>2. p.parts = flushed \o D
        BY <2>9
      <3>3. /\ flushed \o D \in Seq(PreparedPart)
            /\ Len(flushed \o D) = Len(flushed) + Len(D)
            /\ \A i \in 1..Len(flushed) + Len(D) : (flushed \o D)[i] =
                  IF i <= Len(flushed) THEN flushed[i] ELSE D[i - Len(flushed)]
        BY ONLY <2>11, <3>1, ConcatProperties, Zenon
      <3> QED  BY ONLY <3>1, <3>2, <3>3
    <2>15. reserved + Len(p.parts) <= MaxParts
      BY <2>1, <2>7, <2>11, <2>12, <2>14
    <2>16. ASSUME NEW i \in 1..Len(p.parts)
           PROVE  p.parts[i].part_number = reserved + i
      <3>1. CASE flushes
        <4>1. CASE i = 1
          BY <2>11, <2>14, <3>1, <4>1 DEF flushed, first
        <4>2. CASE i # 1
          <5>1. i - 1 \in 1..c
            BY <2>11, <2>12, <2>14, <3>1, <4>2
          <5>2. p.parts[i] = D[i - 1]
            <6>1. Len(flushed) = 1 /\ i \in 1..Len(flushed) + c /\ ~(i <= Len(flushed))
              BY <2>11, <2>14, <3>1, <4>2
            <6>2. p.parts[i] = D[i - Len(flushed)]
              BY ONLY <2>14, <6>1
            <6> QED  BY <6>1, <6>2
          <5>3. p.parts[i].part_number = base + (i - 1)
            BY <2>12, <5>1, <5>2
          <5> QED  BY <2>1, <2>7, <3>1, <5>3
        <4> QED  BY <4>1, <4>2
      <3>2. CASE ~flushes
        <4>1. i \in 1..c /\ p.parts[i] = D[i]
          BY SMTT(40), <2>11, <2>12, <2>14, <3>2
        <4>2. p.parts[i].part_number = base + i
          BY <2>12, <4>1
        <4> QED  BY <2>7, <3>2, <4>2
      <3> QED  BY <3>1, <3>2
    <2>17. ASSUME p.fits
           PROVE  /\ p.buffer \in BufferedPart \cup {None}
                  /\ p.buffer # None => Len(p.buffer.bytes) <= p.buffer.capacity
      <3>1. CASE tail < hi
        <4>1. ShouldBuffer(hi - tail, base + c)
          BY <2>1, <2>3, <2>9, <2>13, <2>17, <3>1
        <4>2. base + c \in 0..MaxParts
          BY <2>8, <2>12
        <4>3. PartSize[base + c] \in 1..MaxPartSize
          BY <4>2
        <4>4. hi - tail <= PartSize[base + c]
          BY <2>1, <2>3, <2>13, <3>1, <4>1, <4>2, <4>3 DEF ShouldBuffer
        <4>5. hi \in Nat /\ tail \in Nat /\ tail <= hi
          BY <2>1, <2>3, <2>13, <3>1
        <4>6. Bytes(tail, hi) \in Seq(Byte) /\ Len(Bytes(tail, hi)) = hi - tail
          BY <4>5, BytesType
        <4>7. p.buffer = [bytes |-> Bytes(tail, hi), capacity |-> PartSize[base + c]]
          BY <2>9, <3>1
        <4> QED  BY <4>3, <4>4, <4>6, <4>7 DEF BufferedPart
      <3>2. CASE ~(tail < hi)
        BY <2>4, <2>9, <3>2
      <3> QED  BY <3>1, <3>2
    <2>18. ASSUME p.fits, NEW start \in Nat, Covers(buffered_part, start, next_offset)
           PROVE  \E e \in [0..Len(p.parts) -> Nat] : CutAt(p, start, hi, e)
      <3>1. start <= next_offset /\ start <= lo /\ start <= hi
        BY <2>1, <2>3, <2>18 DEF Covers
      <3>2. ASSUME flushes \/ buffered_part = None
            PROVE  Covers(p.buffer, tail, hi)
        <4>1. CASE tail < hi
          <5>1. p.buffer = [bytes |-> Bytes(tail, hi), capacity |-> PartSize[base + c]]
            BY <2>9, <4>1
          <5>2. p.buffer # None
            <6>1. Bytes(tail, hi) \in Seq(Byte)
              <7>1. tail \in Nat /\ hi \in Nat /\ tail <= hi
                BY <2>1, <2>3, <2>13
              <7> QED  BY <7>1, BytesType
            <6>2. base + c \in 0..MaxParts
              BY <2>8, <2>12
            <6>3. PartSize[base + c] \in Nat
              BY <6>2
            <6> QED  BY <5>1, <6>1, <6>3 DEF Byte
          <5> QED  BY <2>1, <2>3, <2>13, <4>1, <5>1, <5>2 DEF Covers
        <4>2. CASE ~(tail < hi)
          <5>1. p.buffer = None
            BY <2>9, <3>2, <4>2
          <5>2. tail = hi
            BY <2>1, <2>3, <2>13, <4>2
          <5> QED  BY <2>1, <5>1, <5>2 DEF Covers
        <4> QED  BY <4>1, <4>2
      <3>3. CASE flushes
        <4> DEFINE e == [i \in 0..Len(p.parts) |-> IF i = 0 THEN start ELSE DirectEnd(lo, hi, i - 1)]
        <4>1. Len(flushed) = 1 /\ Len(p.parts) = 1 + c /\ flushed[1] = first
          BY <2>11, <2>14, <3>3 DEF flushed
        <4>2. ASSUME NEW i \in 1..Len(p.parts)
              PROVE  i - 1 \in 0..c /\ e[i] = DirectEnd(lo, hi, i - 1) /\ e[i] \in lo..hi
          <5>1. i - 1 \in 0..c
            BY <2>12, <4>1
          <5> QED  BY <2>12, <5>1
        <4>3. ASSUME NEW i \in 0..Len(p.parts)
              PROVE  e[i] \in start..hi
          <5>1. CASE i = 0
            BY <2>1, <3>1, <5>1
          <5>2. CASE i # 0
            <6>1. e[i] \in lo..hi
              <7>1. i \in 1..Len(p.parts)
                BY <5>2
              <7> HIDE DEF e
              <7> QED  BY <4>2, <7>1
            <6> HIDE DEF e
            <6> QED  BY <2>1, <2>3, <3>1, <6>1
          <5> QED  BY <5>1, <5>2
        <4>4. ASSUME NEW i \in 1..Len(p.parts)
              PROVE  e[i - 1] <= e[i] /\ p.parts[i].bytes = Bytes(e[i - 1], e[i])
          <5>1. CASE i = 1
            <6>1. e[0] = start /\ e[1] = lo
              BY <2>12, <4>2, <5>1
            <6>2. p.parts[1] = first
              BY <2>12, <2>14, <4>1
            <6>3. first.bytes = buffered_part.bytes \o Bytes(next_offset, lo)
              BY <2>4, <2>5, <3>3 DEF first
            <6>4. buffered_part.bytes = Bytes(start, next_offset)
              BY <2>5, <2>18, <3>3 DEF Covers
            <6>5. Bytes(start, next_offset) \o Bytes(next_offset, lo) = Bytes(start, lo)
              BY <2>1, <2>3, <3>1, BytesAdjacent
            <6> QED  BY <3>1, <5>1, <6>1, <6>2, <6>3, <6>4, <6>5
          <5>2. CASE i # 1
            <6>1. i - 1 \in 1..c /\ (i - 1) - 1 = i - 2 /\ i - 1 \in 1..Len(p.parts)
              BY <2>12, <4>1, <5>2
            <6>2. e[i] = DirectEnd(lo, hi, i - 1) /\ e[i - 1] = DirectEnd(lo, hi, (i - 1) - 1)
              BY <4>2, <6>1
            <6>3. p.parts[i] = D[i - 1]
              <7>1. i \in 1..Len(flushed) + c /\ ~(i <= Len(flushed))
                BY <4>1, <5>2
              <7>2. p.parts[i] = D[i - Len(flushed)]
                BY ONLY <2>14, <7>1
              <7> QED  BY <4>1, <7>2
            <6>4. /\ DirectEnd(lo, hi, (i - 1) - 1) <= DirectEnd(lo, hi, i - 1)
                  /\ D[i - 1].bytes = Bytes(DirectEnd(lo, hi, (i - 1) - 1), DirectEnd(lo, hi, i - 1))
              BY SMTT(40), <2>12, <6>1
            <6> HIDE DEF e
            <6> QED  BY <6>2, <6>3, <6>4
          <5> QED  BY <5>1, <5>2
        <4>5. e[0] = start /\ e[Len(p.parts)] = tail
          BY <2>12, <4>1 DEF tail
        <4>6. e \in [0..Len(p.parts) -> Nat]
          <5>1. \A i \in 0..Len(p.parts) : e[i] \in Nat
            <6> HIDE DEF e
            <6> QED  BY <2>1, <4>3
          <5>2. e = [i \in 0..Len(p.parts) |-> e[i]]
            OBVIOUS
          <5> HIDE DEF e
          <5> QED  BY <5>1, <5>2
        <4>7. Covers(p.buffer, tail, hi)
          BY <3>2, <3>3
        <4> HIDE DEF e
        <4>8. CutAt(p, start, hi, e)
          BY <4>3, <4>4, <4>5, <4>7 DEF CutAt
        <4> QED  BY <4>6, <4>8
      <3>4. CASE ~flushes /\ buffered_part = None
        <4> DEFINE e == [i \in 0..Len(p.parts) |-> DirectEnd(lo, hi, i)]
        <4>1. start = lo /\ Len(flushed) = 0 /\ Len(p.parts) = c
          BY <2>1, <2>2, <2>11, <2>12, <2>14, <2>18, <3>4 DEF Covers, lo
        <4>2. ASSUME NEW i \in 0..Len(p.parts)
              PROVE  e[i] = DirectEnd(lo, hi, i) /\ e[i] \in start..hi
          BY <2>12, <4>1
        <4>3. ASSUME NEW i \in 1..Len(p.parts)
              PROVE  e[i - 1] <= e[i] /\ p.parts[i].bytes = Bytes(e[i - 1], e[i])
          <5>1. i \in 1..c /\ i - 1 \in 0..Len(p.parts) /\ i \in 0..Len(p.parts)
            BY <2>12, <4>1
          <5>2. e[i] = DirectEnd(lo, hi, i) /\ e[i - 1] = DirectEnd(lo, hi, i - 1)
            BY <4>2, <5>1
          <5>3. p.parts[i] = D[i]
            BY <2>14, <4>1, <5>1
          <5>4. /\ DirectEnd(lo, hi, i - 1) <= DirectEnd(lo, hi, i)
                /\ D[i].bytes = Bytes(DirectEnd(lo, hi, i - 1), DirectEnd(lo, hi, i))
            BY <2>12, <5>1
          <5> HIDE DEF e
          <5> QED  BY <5>2, <5>3, <5>4
        <4>4. e[0] = start /\ e[Len(p.parts)] = tail
          BY <2>12, <4>1 DEF tail
        <4>5. e \in [0..Len(p.parts) -> Nat]
          <5>1. \A i \in 0..Len(p.parts) : e[i] \in Nat
            <6> HIDE DEF e
            <6> QED  BY <2>1, <4>2
          <5>2. e = [i \in 0..Len(p.parts) |-> e[i]]
            OBVIOUS
          <5> HIDE DEF e
          <5> QED  BY <5>1, <5>2
        <4>6. Covers(p.buffer, tail, hi)
          BY <3>2, <3>4
        <4>8. \A i \in 0..Len(p.parts) : e[i] \in start..hi
          BY <4>2
        <4> HIDE DEF e
        <4>7. CutAt(p, start, hi, e)
          BY <4>8, <4>3, <4>4, <4>6 DEF CutAt
        <4> QED  BY <4>5, <4>7
      <3>5. CASE ~flushes /\ buffered_part # None
        <4> DEFINE e == [i \in 0..Len(p.parts) |-> start]
        <4>1. lo = hi /\ Len(flushed) = 0
          BY <2>6, <2>11, <3>5
        <4>2. c = 0
          <5>1. c = DirectCount(0, base)
            BY <2>3, <4>1 DEF c
          <5>2. 0 < c => 0 * MaxPartSize < 0
            BY <2>8, <5>1, DirectCountBounds
          <5> QED  BY <2>12, <5>2
        <4>3. Len(p.parts) = 0
          BY <2>14, <4>1, <4>2
        <4>4. p.buffer = appended
          BY <2>1, <2>3, <2>9, <2>13, <3>5, <4>1
        <4>5. appended.bytes = Bytes(start, hi)
          <5>1. appended.bytes = buffered_part.bytes \o Bytes(next_offset, hi)
            BY <2>4, <3>5, <4>1
          <5>2. buffered_part.bytes = Bytes(start, next_offset)
            BY <2>18, <3>5 DEF Covers
          <5>3. Bytes(start, next_offset) \o Bytes(next_offset, hi) = Bytes(start, hi)
            BY <2>1, <2>3, <3>1, <4>1, BytesAdjacent
          <5> QED  BY <5>1, <5>2, <5>3
        <4>6. appended # None
          BY <2>4, <3>5 DEF BufferedPart, Byte
        <4>7. Covers(p.buffer, start, hi)
          BY <3>1, <4>4, <4>5, <4>6 DEF Covers
        <4>8. e \in [0..Len(p.parts) -> Nat] /\ CutAt(p, start, hi, e)
          BY <2>1, <3>1, <4>3, <4>7 DEF CutAt
        <4> QED  BY <4>8
      <3> QED  BY <3>3, <3>4, <3>5
    <2> QED
      BY <2>14, <2>15, <2>16, <2>17, <2>18 DEF reserved, hi, CutsInput
  <1> QED  BY <1>1, <1>2
-----------------------------------------------------------------------------
(* Steps that leave the bytes where they are. *)

USE DEF
    ControlInv, Goto, failed,
    controlVars, dataVars, initVars, failureVars, inputVars, localVars, s3Vars, histVars,
    OperationLabels, WriterLabels, UploadLabels, FinalizeLabels, FailureLabels, AbortRequests,
    WaitLabels, Labels, AcceptedLabels,
    LifecycleState, InitializationState, CleanupState, FailureDisposition, UploadState

\* What such a step of thread t, to label l, may do at most.
Quiet(t, l) ==
    /\ pc' = [pc EXCEPT ![t] = l]
    /\ UNCHANGED <<next_offset, part_etags, length, op, arg, todo, local_buffered_part, stored>>
    /\ \/ UNCHANGED buffered_part
       \/ buffered_part' = None /\ lifecycle_state' \in {"ABORTING", "ABORTED"}
    /\ l \in AcceptedLabels => pc[t] \in AcceptedLabels
    /\ l \in UploadLabels => pc[t] \in UploadLabels
    /\ failed => failed'
    /\ lifecycle_state' \in {"ACTIVE", "FINALIZING"} => lifecycle_state \in {"ACTIVE", "FINALIZING"}
    /\ pc[t] = "LatchFailure" => failed'
    /\ op[t] = "Write" /\ pc[t] \in OperationLabels \ {"PrepareWrite", "ReleaseOperation"} =>
          failed' \/ l \in OperationLabels \ {"PrepareWrite", "ReleaseOperation"}
    /\ Publishable' => (Finalizing(t)' <=> Finalizing(t))

\* It keeps the types.
LEMMA QuietType ==
  ASSUME ControlInv, DataInv, NEW t \in Threads, NEW l \in Labels, Quiet(t, l),
         object' \in Seq(Byte) \cup {None}
  PROVE  DataTypeInv'
  BY DEF Quiet, DataInv, DataTypeInv, ControlTypeOK

\* An upload that may be published could be so before the step.
LEMMA QuietPublishable ==
  ASSUME ControlInv, NEW t \in Threads, NEW l \in Labels, Quiet(t, l), Publishable'
  PROVE  Publishable /\ UNCHANGED buffered_part
  BY DEF Quiet, Publishable, ControlTypeOK

\* It keeps the layout.
LEMMA QuietLayout ==
  ASSUME ControlInv, DataInv, NEW t \in Threads, NEW l \in Labels, Quiet(t, l)
  PROVE  LayoutInv'
  <1>1. SUFFICES ASSUME Publishable'
                 PROVE  \E bound \in [0..Len(part_etags) -> 0..MaxFileSize] : Layout(bound)'
    BY DEF Quiet, LayoutInv
  <1>2. Publishable /\ UNCHANGED buffered_part
    BY <1>1, QuietPublishable
  <1>3. PICK bound \in [0..Len(part_etags) -> 0..MaxFileSize] : Layout(bound)
    BY <1>2 DEF DataInv, LayoutInv
  <1>4. \A u \in Threads : Finalizing(u)' <=> Finalizing(u)
    BY <1>1 DEF Quiet, Finalizing, ControlTypeOK
  <1>5. \A u \in Threads : pc'[u] \in UploadLabels => pc[u] \in UploadLabels
    BY DEF Quiet, ControlTypeOK
  <1>6. Layout(bound)'
    BY <1>2, <1>3, <1>4, <1>5 DEF Quiet, Layout, Covers
  <1> QED  BY <1>6

\* It keeps the cursor.
LEMMA QuietCursor ==
  ASSUME ControlInv, DataInv, NEW t \in Threads, NEW l \in Labels, Quiet(t, l)
  PROVE  CursorInv'
  <1>1. length' <= next_offset'
    BY DEF Quiet, DataInv, CursorInv
  <1>2. \A u \in Threads : op'[u] = "Write" /\ pc'[u] \in AcceptedLabels =>
           arg'[u].location + arg'[u].size <= next_offset'
    BY DEF Quiet, DataInv, CursorInv, ControlTypeOK
  <1>3. ASSUME ~failed', length' # next_offset'
        PROVE  \E u \in Threads :
                  /\ op'[u] = "Write"
                  /\ pc'[u] \in OperationLabels \ {"PrepareWrite", "ReleaseOperation"}
                  /\ arg'[u].location + arg'[u].size = next_offset'
    <2>1. ~failed /\ length # next_offset
      BY <1>3 DEF Quiet
    <2>2. PICK u \in Threads :
             /\ op[u] = "Write" /\ pc[u] \in OperationLabels \ {"PrepareWrite", "ReleaseOperation"}
             /\ arg[u].location + arg[u].size = next_offset
      BY <2>1 DEF DataInv, CursorInv
    <2>3. pc'[u] \in OperationLabels \ {"PrepareWrite", "ReleaseOperation"}
      BY <1>3, <2>2 DEF Quiet, ControlTypeOK
    <2> QED  BY <2>2, <2>3 DEF Quiet
  <1> QED  BY <1>1, <1>2, <1>3 DEF CursorInv

\* A step that neither takes part in a Finalize nor publishes.
LEMMA QuietObject ==
  ASSUME ControlInv, DataInv, NEW t \in Threads, NEW l \in Labels, Quiet(t, l),
         UNCHANGED object,
         lifecycle_state' = "FINALIZED" => lifecycle_state = "FINALIZED",
         lifecycle_state' = "FINALIZING" => lifecycle_state = "FINALIZING",
         pc[t] \in OperationLabels \ {"ReleaseOperation"} /\ op[t] = "Finalize" /\ lifecycle_state' = "FINALIZING" =>
             l \in OperationLabels \ {"ReleaseOperation"},
         l \notin FinalizeLabels
  PROVE  FinalizeInv' /\ ObjectInv'
  <1>1. ObjectInv'
    BY DEF Quiet, DataInv, ObjectInv, PublishedObjectIsInput
  <1>2. lifecycle_state' = "FINALIZING" =>
           \E u \in Threads : op'[u] = "Finalize" /\ pc'[u] \in OperationLabels \ {"ReleaseOperation"}
    <2>1. SUFFICES ASSUME lifecycle_state' = "FINALIZING"
                   PROVE  \E u \in Threads : /\ op'[u] = "Finalize"
                                             /\ pc'[u] \in OperationLabels \ {"ReleaseOperation"}
      OBVIOUS
    <2>2. PICK u \in Threads : op[u] = "Finalize" /\ pc[u] \in OperationLabels \ {"ReleaseOperation"}
      BY <2>1 DEF DataInv, FinalizeInv
    <2>3. op'[u] = "Finalize" /\ pc'[u] \in OperationLabels \ {"ReleaseOperation"}
      BY <2>1, <2>2 DEF Quiet, ControlTypeOK
    <2> QED  BY <2>3
  <1>3. ASSUME NEW u \in Threads
        PROVE  /\ pc'[u] = "UploadSingle" => part_etags' = <<>>
               /\ Finalizing(u)' /\ pc'[u] \in UploadLabels \cup {"CompleteMultipartUpload", "ReceiveCompletion"} =>
                     local_buffered_part'[u] = None
               /\ pc'[u] = "ReceiveCompletion" => \A i \in 1..Len(part_etags') : part_etags'[i]
               /\ pc'[u] = "FinishFinalize" => object' = Bytes(0, next_offset')
    <2>1. CASE u = t
      BY <2>1 DEF Quiet, DataInv, FinalizeInv, Finalizing, ControlTypeOK
    <2>2. CASE u # t
      BY <2>2 DEF Quiet, DataInv, FinalizeInv, Finalizing, ControlTypeOK
    <2> QED  BY <2>1, <2>2
  <1> QED  BY <1>1, <1>2, <1>3 DEF FinalizeInv

\* Such a step of thread t, as a whole.
Harmless(t) ==
    /\ pc'[t] \in Labels /\ Quiet(t, pc'[t])
    /\ UNCHANGED object
    /\ lifecycle_state' = "FINALIZED" => lifecycle_state = "FINALIZED"
    /\ lifecycle_state' = "FINALIZING" => lifecycle_state = "FINALIZING"
    /\ pc[t] \in OperationLabels \ {"ReleaseOperation"} /\ op[t] = "Finalize" /\ lifecycle_state' = "FINALIZING" =>
          pc'[t] \in OperationLabels \ {"ReleaseOperation"}
    /\ pc'[t] \notin FinalizeLabels

\* A harmless step leaves the data what it was.
LEMMA HarmlessPreserves ==
  ASSUME ControlInv, DataInv, NEW t \in Threads, Harmless(t)
  PROVE  DataInv'
  <1> DEFINE l == pc'[t]
  <1>1. object' \in Seq(Byte) \cup {None}
    BY DEF Harmless, DataInv, DataTypeInv
  <1>2. /\ l \in Labels /\ Quiet(t, l) /\ UNCHANGED object
        /\ lifecycle_state' = "FINALIZED" => lifecycle_state = "FINALIZED"
        /\ lifecycle_state' = "FINALIZING" => lifecycle_state = "FINALIZING"
        /\ pc[t] \in OperationLabels \ {"ReleaseOperation"} /\ op[t] = "Finalize" /\ lifecycle_state' = "FINALIZING" =>
              l \in OperationLabels \ {"ReleaseOperation"}
        /\ l \notin FinalizeLabels
    BY DEF Harmless
  <1> HIDE DEF l
  <1>3. DataTypeInv'
    BY <1>1, <1>2, QuietType
  <1>4. LayoutInv' /\ CursorInv'
    BY <1>2, QuietLayout, QuietCursor
  <1>5. FinalizeInv' /\ ObjectInv'
    BY <1>2, QuietObject
  <1> QED  BY <1>3, <1>4, <1>5 DEF DataInv

\* A write is admitted, or turned away.
LEMMA BeginWriteOperationHarmless ==
  ASSUME ControlInv, DataInv, NEW t \in Threads, BeginWriteOperation(t)
  PROVE  Harmless(t)
  BY DEF BeginWriteOperation, Settled, Report, Harmless, Quiet, Publishable, Finalizing, ControlTypeOK,
         OperationInv, CleanupInv, AbortOwners, Operating

\* A failure is latched.
LEMMA LatchFailureHarmless ==
  ASSUME ControlInv, DataInv, NEW t \in Threads, LatchFailure(t)
  PROVE  Harmless(t)
  BY DEF LatchFailure, LatchFailureLocked, Harmless, Quiet, Publishable, Finalizing, ControlTypeOK,
         OperationInv, CleanupInv, AbortOwners, Operating

\* An operation is released.
LEMMA ReleaseOperationHarmless ==
  ASSUME ControlInv, DataInv, NEW t \in Threads, ReleaseOperation(t)
  PROVE  Harmless(t)
  BY DEF ReleaseOperation, LastRelease, MustAbort, Report, Harmless, Quiet, Publishable, Finalizing, ControlTypeOK,
         OperationInv, CleanupInv, AbortOwners, Operating

\* A failed operation waits for the cleanup.
LEMMA ReleaseWaitHarmless ==
  ASSUME ControlInv, DataInv, NEW t \in Threads, ReleaseWait(t)
  PROVE  Harmless(t)
  BY DEF ReleaseWait, Report, Harmless, Quiet, Publishable, Finalizing, ControlTypeOK,
         OperationInv, CleanupInv, AbortOwners, Operating

\* The last failed operation has aborted the upload.
LEMMA ReleaseCleanupHarmless ==
  ASSUME ControlInv, DataInv, NEW t \in Threads, ReleaseCleanup(t)
  PROVE  Harmless(t)
  BY DEF ReleaseCleanup, AbortMultipartUpload, Report, Harmless, Quiet, Publishable, Finalizing, ControlTypeOK,
         OperationInv, CleanupInv, AbortOwners, Operating

\* A thread needs the upload.
LEMMA EnsureMultipartUploadHarmless ==
  ASSUME ControlInv, DataInv, NEW t \in Threads, EnsureMultipartUpload(t)
  PROVE  Harmless(t)
  BY DEF EnsureMultipartUpload, Throw, Harmless, Quiet, Publishable, Finalizing, ControlTypeOK,
         OperationInv, CleanupInv, AbortOwners, Operating

\* The upload is initiated, or that fails.
LEMMA InitializeMultipartUploadHarmless ==
  ASSUME ControlInv, DataInv, NEW t \in Threads, InitializeMultipartUpload(t)
  PROVE  Harmless(t)
  BY DEF InitializeMultipartUpload, Throw, LatchFailureLocked, Harmless, Quiet, Publishable, Finalizing, ControlTypeOK,
         OperationInv, CleanupInv, AbortOwners, Operating

\* A thread looks for a failure before it uploads.
LEMMA ThrowIfFailedHarmless ==
  ASSUME ControlInv, DataInv, NEW t \in Threads, ThrowIfFailed(t)
  PROVE  Harmless(t)
  BY DEF ThrowIfFailed, Throw, Harmless, Quiet, Publishable, Finalizing, ControlTypeOK,
         OperationInv, CleanupInv, AbortOwners, Operating

\* An Abort closes the session.
LEMMA AbortHarmless ==
  ASSUME ControlInv, DataInv, NEW t \in Threads, Abort(t)
  PROVE  Harmless(t)
  BY DEF Abort, AbortDrained, Report, Harmless, Quiet, Publishable, Finalizing, ControlTypeOK,
         OperationInv, CleanupInv, AbortOwners, Operating

\* The operations an Abort waited for are over.
LEMMA AbortDrainHarmless ==
  ASSUME ControlInv, DataInv, NEW t \in Threads, AbortDrain(t)
  PROVE  Harmless(t)
  BY DEF AbortDrain, AbortDrained, Report, Harmless, Quiet, Publishable, Finalizing, ControlTypeOK,
         OperationInv, CleanupInv, AbortOwners, Operating

\* The cleanup an Abort waited for is over.
LEMMA AbortFailureWaitHarmless ==
  ASSUME ControlInv, DataInv, NEW t \in Threads, AbortFailureWait(t)
  PROVE  Harmless(t)
  BY DEF AbortFailureWait, Report, Harmless, Quiet, Publishable, Finalizing, ControlTypeOK,
         OperationInv, CleanupInv, AbortOwners, Operating

\* An Abort has aborted the upload.
LEMMA AbortCleanupHarmless ==
  ASSUME ControlInv, DataInv, NEW t \in Threads, AbortCleanup(t)
  PROVE  Harmless(t)
  BY DEF AbortCleanup, AbortMultipartUpload, Harmless, Quiet, Publishable, Finalizing, ControlTypeOK,
         OperationInv, CleanupInv, AbortOwners, Operating

-----------------------------------------------------------------------------
(* Steps that move bytes. *)

\* A public method is entered: the thread has nothing of the upload.
LEMMA EnterData ==
  ASSUME ControlInv, DataInv, NEW t \in Threads, NEW m, NEW l, Enter(t, m, l),
         l \in {"BeginWriteOperation", "BeginFinalize", "Abort"},
         arg' \in [Threads -> [location : Nat, size : Nat]],
         \A u \in Threads : u # t => arg'[u] = arg[u]
  PROVE  DataInv'
  <1>1. /\ UNCHANGED <<next_offset, buffered_part, part_etags, length, stored, object,
                       lifecycle_state, primary_error>>
        /\ pc' = [pc EXCEPT ![t] = l] /\ pc[t] = "Idle"
        /\ todo' = [todo EXCEPT ![t] = <<>>]
        /\ local_buffered_part' = [local_buffered_part EXCEPT ![t] = None]
        /\ op' = [op EXCEPT ![t] = m]
    BY DEF Enter
  <1>2. pc \in [Threads -> Labels] /\ op \in [Threads -> {"Write", "Finalize", "Abort"}]
    BY DEF ControlTypeOK
  <1>3. /\ pc'[t] \notin OperationLabels
        /\ \A u \in Threads : u # t => pc'[u] = pc[u] /\ op'[u] = op[u]
    BY <1>1, <1>2
  <1>4. DataTypeInv'
    <2>1. todo' \in [Threads -> Seq(PreparedPart)]
      BY <1>1 DEF DataInv, DataTypeInv
    <2>2. local_buffered_part' \in [Threads -> BufferedPart \cup {None}]
      BY <1>1 DEF DataInv, DataTypeInv
    <2>3. \A u \in Threads : pc'[u] \in UploadLabels => u # t /\ todo'[u] = todo[u]
      BY <1>1, <1>3 DEF DataInv, DataTypeInv
    <2> QED  BY <1>1, <1>3, <2>1, <2>2, <2>3 DEF DataInv, DataTypeInv
  <1>5. LayoutInv'
    <2>1. SUFFICES ASSUME Publishable'
                   PROVE  \E bound \in [0..Len(part_etags) -> 0..MaxFileSize] : Layout(bound)'
      BY <1>1 DEF LayoutInv
    <2>2. Publishable
      BY <1>1, <1>3, <2>1 DEF Publishable
    <2>3. PICK bound \in [0..Len(part_etags) -> 0..MaxFileSize] : Layout(bound)
      BY <2>2 DEF DataInv, LayoutInv
    <2>4. \A u \in Threads : /\ Finalizing(u)' <=> Finalizing(u)
                             /\ pc'[u] \in UploadLabels <=> pc[u] \in UploadLabels
                             /\ Finalizing(u) \/ pc[u] \in UploadLabels =>
                                   todo'[u] = todo[u] /\ local_buffered_part'[u] = local_buffered_part[u]
      BY SMTT(40), <1>1, <1>2, <1>3 DEF Finalizing, DataInv, DataTypeInv
    <2>5. Layout(bound)'
      BY SMTT(40), <1>1, <2>3, <2>4 DEF Layout, Covers
    <2> QED  BY <2>5
  <1>6. FinalizeInv'
    <2>1. \A u \in Threads : pc'[u] \in OperationLabels =>
             u # t /\ local_buffered_part'[u] = local_buffered_part[u]
      BY <1>1, <1>3 DEF DataInv, DataTypeInv
    <2>2. lifecycle_state' = "FINALIZING" =>
             \E u \in Threads :
                op'[u] = "Finalize" /\ pc'[u] \in OperationLabels \ {"ReleaseOperation"}
      BY <1>1, <1>3 DEF DataInv, FinalizeInv
    <2> QED  BY <1>1, <1>3, <2>1, <2>2 DEF DataInv, FinalizeInv, Finalizing
  <1>7. CursorInv'
    BY ZenonT(40), <1>1, <1>2, <1>3 DEF DataInv, CursorInv
  <1>8. ObjectInv'
    BY <1>1 DEF DataInv, ObjectInv, PublishedObjectIsInput
  <1> QED  BY <1>4, <1>5, <1>6, <1>7, <1>8 DEF DataInv

\* Write, Finalize or Abort is called.
LEMMA CallsData ==
  ASSUME ControlInv, DataInv, NEW t \in Threads, Calls(t)
  PROVE  DataInv'
  <1>1. /\ arg' \in [Threads -> [location : Nat, size : Nat]]
        /\ \A u \in Threads : u # t => arg'[u] = arg[u]
    BY DEF Calls, CallWrite, CallFinalize, CallAbort, DataInv, DataTypeInv
  <1>2. PICK m, l : Enter(t, m, l) /\ l \in {"BeginWriteOperation", "BeginFinalize", "Abort"}
    BY DEF Calls, CallWrite, CallFinalize, CallAbort
  <1> QED  BY <1>1, <1>2, EnterData

\* A Finalize takes the buffer, or is turned away.
LEMMA BeginFinalizeData ==
  ASSUME ControlInv, DataInv, NEW t \in Threads, BeginFinalize(t)
  PROVE  DataInv'
  <1>1. CASE pc'[t] # "Finalize"
    <2>1. Harmless(t)
      BY <1>1 DEF BeginFinalize, Settled, Report, Harmless, Quiet, Publishable, Finalizing,
                  ControlTypeOK
    <2> QED  BY <2>1, HarmlessPreserves
  <1>2. CASE pc'[t] = "Finalize"
    <2>1. /\ pc[t] = "BeginFinalize" /\ pc' = [pc EXCEPT ![t] = "Finalize"]
          /\ lifecycle_state = "ACTIVE" /\ active_operations = 0 /\ ~failed
          /\ lifecycle_state' = "FINALIZING"
          /\ local_buffered_part' = [local_buffered_part EXCEPT ![t] = buffered_part]
          /\ buffered_part' = None
          /\ UNCHANGED <<next_offset, part_etags, length, op, arg, todo, stored, object,
                         primary_error>>
      BY <1>2 DEF BeginFinalize, FinalizeRefused, ControlTypeOK
    <2>2. pc \in [Threads -> Labels] /\ op[t] = "Finalize"
      BY <2>1 DEF ControlTypeOK, OperationInv
    <2>3. \A u \in Threads : pc[u] \notin OperationLabels
      BY <2>1, NoneOperating DEF Operating
    <2>4. /\ pc'[t] = "Finalize" /\ Finalizing(t)'
          /\ \A u \in Threads : u # t => pc'[u] = pc[u] /\ pc'[u] \notin OperationLabels
      BY <2>1, <2>2, <2>3 DEF Finalizing
    <2>5. local_buffered_part'[t] = buffered_part
      BY <2>1 DEF DataInv, DataTypeInv
    <2>6. DataTypeInv'
      <3>1. local_buffered_part' \in [Threads -> BufferedPart \cup {None}]
        BY <2>1 DEF DataInv, DataTypeInv
      <3> QED  BY <2>1, <2>4, <3>1 DEF DataInv, DataTypeInv
    <2>7. LayoutInv'
      <3>1. Publishable /\ \A u \in Threads : ~Finalizing(u)
        BY <2>1, <2>3 DEF Publishable, Finalizing
      <3>2. PICK bound \in [0..Len(part_etags) -> 0..MaxFileSize] : Layout(bound)
        BY <3>1 DEF DataInv, LayoutInv
      <3>3. Covers(buffered_part, bound[Len(part_etags)], next_offset)
        BY <3>1, <3>2 DEF Layout
      <3>4. \A u \in Threads : pc'[u] \notin UploadLabels /\ (Finalizing(u)' => u = t)
        BY <2>4 DEF Finalizing
      <3>5. Covers(local_buffered_part[t], bound[Len(part_etags)], next_offset)'
        BY <2>1, <2>5, <3>3 DEF Covers
      <3>6. Layout(bound)'
        BY <2>1, <2>4, <3>2, <3>4, <3>5 DEF Layout
      <3> QED  BY <2>1, <3>6 DEF LayoutInv
    <2>8. FinalizeInv'
      BY <2>1, <2>2, <2>4 DEF FinalizeInv
    <2>9. CursorInv'
      BY <2>1, <2>3, <2>4 DEF DataInv, CursorInv
    <2>10. ObjectInv'
      BY <2>1 DEF DataInv, ObjectInv, PublishedObjectIsInput
    <2> QED  BY <2>6, <2>7, <2>8, <2>9, <2>10 DEF DataInv
  <1> QED  BY <1>1, <1>2

\* A write advances the handle's cursor.
LEMMA UpdateCursorData ==
  ASSUME ControlInv, DataInv, NEW t \in Threads, UpdateCursor(t)
  PROVE  DataInv'
  <1> DEFINE end == arg[t].location + arg[t].size
  <1>1. /\ pc[t] = "UpdateCursor" /\ pc' = [pc EXCEPT ![t] = "ReleaseOperation"]
        /\ length' = Max({length, end})
        /\ UNCHANGED <<next_offset, buffered_part, part_etags, op, arg, todo, stored, object,
                       local_buffered_part, primary_error, lifecycle_state>>
    BY DEF UpdateCursor
  <1>2. pc \in [Threads -> Labels] /\ op[t] = "Write"
    BY <1>1 DEF ControlTypeOK, OperationInv
  <1>3. length \in Nat /\ next_offset \in Nat /\ end \in Nat
    BY DEF DataInv, DataTypeInv
  <1>4. end <= next_offset
    BY <1>1, <1>2 DEF DataInv, CursorInv
  <1>5. length' = IF length <= end THEN end ELSE length
    <2> HIDE DEF end
    <2> QED  BY <1>1, <1>3, MaxOfTwo
  <1>6. /\ pc'[t] = "ReleaseOperation"
        /\ \A u \in Threads : u # t => pc'[u] = pc[u]
    BY <1>1, <1>2
  <1>7. DataTypeInv'
    <2>1. length' \in Nat
      BY <1>3, <1>5
    <2> QED  BY <1>1, <1>6, <2>1 DEF DataInv, DataTypeInv
  <1>8. LayoutInv'
    <2>1. SUFFICES ASSUME Publishable'
                   PROVE  \E bound \in [0..Len(part_etags) -> 0..MaxFileSize] : Layout(bound)'
      BY <1>1 DEF LayoutInv
    <2>2. Publishable
      BY <1>1, <1>6, <2>1 DEF Publishable
    <2>3. PICK bound \in [0..Len(part_etags) -> 0..MaxFileSize] : Layout(bound)
      BY <2>2 DEF DataInv, LayoutInv
    <2>4. \A u \in Threads : /\ Finalizing(u)' <=> Finalizing(u)
                             /\ pc'[u] \in UploadLabels <=> pc[u] \in UploadLabels
      BY <1>1, <1>2, <1>6 DEF Finalizing
    <2>5. Layout(bound)'
      BY <1>1, <2>3, <2>4 DEF Layout, Covers
    <2> QED  BY <2>5
  <1>9. FinalizeInv'
    BY <1>1, <1>2, <1>6 DEF DataInv, FinalizeInv, Finalizing
  <1>10. CursorInv'
    <2>1. length' <= next_offset'
      BY <1>1, <1>3, <1>4, <1>5 DEF DataInv, CursorInv
    <2>2. \A u \in Threads : op'[u] = "Write" /\ pc'[u] \in AcceptedLabels =>
             arg'[u].location + arg'[u].size <= next_offset'
      BY <1>1, <1>6 DEF DataInv, CursorInv
    <2>3. ASSUME ~failed', length' # next_offset'
          PROVE  \E u \in Threads :
                    /\ op'[u] = "Write"
                    /\ pc'[u] \in OperationLabels \ {"PrepareWrite", "ReleaseOperation"}
                    /\ arg'[u].location + arg'[u].size = next_offset'
      <3>1. ~failed /\ length # next_offset /\ end # next_offset
        <4>1. length <= next_offset /\ ~failed
          BY <1>1, <2>3 DEF DataInv, CursorInv
        <4> HIDE DEF end
        <4> QED  BY <1>1, <1>3, <1>4, <1>5, <2>3, <4>1
      <3>2. PICK u \in Threads :
               /\ op[u] = "Write"
               /\ pc[u] \in OperationLabels \ {"PrepareWrite", "ReleaseOperation"}
               /\ arg[u].location + arg[u].size = next_offset
        BY <3>1 DEF DataInv, CursorInv
      <3>3. u # t
        BY <3>1, <3>2
      <3> QED  BY <1>1, <1>6, <3>2, <3>3
    <2> QED  BY <2>1, <2>2, <2>3 DEF CursorInv
  <1>11. ObjectInv'
    BY <1>1 DEF DataInv, ObjectInv, PublishedObjectIsInput
  <1> QED  BY <1>7, <1>8, <1>9, <1>10, <1>11 DEF DataInv

\* While a write is in progress nobody finalizes, and nothing is published unless the
\* upload has failed.
LEMMA WriterExcludesFinalize ==
  ASSUME ControlInv, DataInv, NEW t \in Threads, op[t] = "Write", pc[t] \in OperationLabels
  PROVE  /\ \A u \in Threads : pc[u] \in OperationLabels => op[u] # "Finalize"
         /\ \A u \in Threads : ~Finalizing(u) /\ pc[u] \notin FinalizeLabels
         /\ ~failed => object = None
  <1>1. \A u \in Threads : pc[u] \in OperationLabels => op[u] # "Finalize"
    BY DEF OperationInv, Operating
  <1>2. \A u \in Threads : ~Finalizing(u) /\ pc[u] \notin FinalizeLabels
    BY <1>1 DEF Finalizing, OperationInv
  <1>3. lifecycle_state # "FINALIZING"
    BY <1>1 DEF DataInv, FinalizeInv
  <1>4. lifecycle_state # "FINALIZED"
    BY DEF CleanupInv, Operating
  <1>5. ~failed => object = None
    BY <1>3, <1>4 DEF StoreInv
  <1> QED  BY <1>1, <1>2, <1>5


\* An accepted write is cut into parts behind the others, and a buffer.
LEMMA AcceptData ==
  ASSUME ControlInv, DataInv, NEW t \in Threads, pc[t] = "PrepareWrite", op[t] = "Write", ~failed,
         NEW size, size = arg[t].size, arg[t].location = next_offset,
         size <= MaxFileSize - next_offset,
         NEW p, p = PreparedWrite(next_offset, size), p.fits, Reserve(p.parts),
         buffered_part' = p.buffer, next_offset' = next_offset + size,
         todo' = [todo EXCEPT ![t] = p.parts], NEW l, l = NextPart(t, p.parts),
         pc' = [pc EXCEPT ![t] = l],
         UNCHANGED <<length, op, arg, local_buffered_part, stored, object, lifecycle_state,
                     primary_error>>
  PROVE  DataInv'
  <1> DEFINE L == Len(part_etags)
             N == Len(p.parts)
  <1>a. DataTypeInv
    BY DEF DataInv
  <1>1. /\ next_offset \in Nat /\ next_offset <= MaxFileSize /\ size \in Nat
        /\ part_etags \in Seq(BOOLEAN) /\ L \in Nat /\ L <= MaxParts
        /\ next_offset + size \in 0..MaxFileSize
    BY SMTT(40) DEF DataInv, DataTypeInv
  <1>b. CutsInput(p, size)
    BY ONLY <1>1, <1>a, p = PreparedWrite(next_offset, size), PreparedCut
  <1>2. /\ p.parts \in Seq(PreparedPart)
        /\ L + N <= MaxParts
        /\ \A i \in 1..N : p.parts[i].part_number = L + i
        /\ p.buffer \in BufferedPart \cup {None}
        /\ p.buffer # None => Len(p.buffer.bytes) <= p.buffer.capacity
        /\ \A start \in Nat : Covers(buffered_part, start, next_offset) =>
              \E e \in [0..N -> Nat] : CutAt(p, start, next_offset + size, e)
    BY ONLY <1>b, p.fits DEF CutsInput
  <1>3. /\ part_etags' \in Seq(BOOLEAN) /\ Len(part_etags') = L + N
        /\ \A n \in 1..L + N : part_etags'[n] = IF n <= L THEN part_etags[n] ELSE FALSE
    BY ONLY <1>1, <1>2, Reserve(p.parts), ReserveProperties
  <1>4. /\ pc \in [Threads -> Labels]
        /\ pc'[t] = l
        /\ \A u \in Threads : u # t => pc'[u] = pc[u] /\ todo'[u] = todo[u]
        /\ todo'[t] = p.parts
    BY DEF ControlTypeOK, DataInv, DataTypeInv
  <1>5. /\ l \in {"UpdateCursor", "EnsureMultipartUpload"}
        /\ l \in UploadLabels => p.parts # <<>>
    BY DEF NextPart, AfterParts
  <1>6. /\ \A u \in Threads : pc[u] \in OperationLabels => op[u] # "Finalize"
        /\ \A u \in Threads : ~Finalizing(u) /\ pc[u] \notin FinalizeLabels
        /\ object = None
    BY WriterExcludesFinalize
  <1>7. N \in Nat
    BY <1>2
  <1> HIDE DEF L, N
  <1>8. DataTypeInv'
    <2>1. next_offset' \in 0..MaxFileSize
      BY <1>1
    <2>2. todo' \in [Threads -> Seq(PreparedPart)]
      BY <1>2 DEF DataInv, DataTypeInv
    <2>3. ASSUME NEW u \in Threads, pc'[u] \in UploadLabels
          PROVE  /\ todo'[u] # <<>>
                 /\ \A i \in 1..Len(todo'[u]) : todo'[u][i].part_number \in 1..Len(part_etags')
      <3>1. CASE u = t
        <4>1. todo'[u] = p.parts /\ p.parts # <<>>
          BY <1>4, <1>5, <2>3, <3>1
        <4>2. \A i \in 1..N : L + i \in 1..L + N
          BY ONLY <1>1, <1>7
        <4>3. \A i \in 1..N : p.parts[i].part_number \in 1..Len(part_etags')
          BY ONLY <1>2, <1>3, <4>2
        <4> QED  BY ONLY <4>1, <4>3 DEF N
      <3>2. CASE u # t
        <4>1. /\ todo'[u] = todo[u] /\ todo[u] # <<>>
              /\ \A i \in 1..Len(todo[u]) : todo[u][i].part_number \in 1..L
          BY <1>4, <2>3, <3>2 DEF DataInv, DataTypeInv, L
        <4>2. \A n \in 1..L : n \in 1..L + N
          BY ONLY <1>1, <1>7
        <4> QED  BY ONLY <1>3, <4>1, <4>2
      <3> QED  BY ONLY <3>1, <3>2
    <2>4. Len(part_etags') <= MaxParts
      BY <1>2, <1>3
    <2> QED
      BY <1>2, <1>3, <2>1, <2>2, <2>3, <2>4 DEF DataInv, DataTypeInv
  <1>9. LayoutInv'
    <2>1. SUFFICES ASSUME Publishable'
                   PROVE  \E b \in [0..L + N -> 0..MaxFileSize] : Layout(b)'
      BY <1>3 DEF LayoutInv
    <2>2. Publishable
      BY <1>4, <2>1 DEF Publishable
    <2>3. PICK bound \in [0..L -> 0..MaxFileSize] : Layout(bound)
      BY <2>2 DEF DataInv, LayoutInv, L
    <2>a. /\ bound[0] = 0
          /\ \A n \in 1..L : bound[n - 1] <= bound[n]
          /\ \A n \in 1..L : part_etags[n] => stored[n] = Bytes(bound[n - 1], bound[n])
          /\ \A u \in Threads : pc[u] \in UploadLabels =>
                \A i \in 1..Len(todo[u]) :
                    todo[u][i].bytes =
                        Bytes(bound[todo[u][i].part_number - 1], bound[todo[u][i].part_number])
          /\ Covers(buffered_part, bound[L], next_offset)
      BY ONLY <1>6, <2>3 DEF Layout, L
    <2>4. bound[L] \in Nat
      <3>1. L \in 0..L
        BY <1>1
      <3> QED  BY ONLY <2>3, <3>1
    <2>5. PICK e \in [0..N -> Nat] : CutAt(p, bound[L], next_offset + size, e)
      BY ONLY <1>2, <2>4, <2>a
    <2>b. /\ e[0] = bound[L]
          /\ \A i \in 0..N : e[i] \in bound[L]..(next_offset + size)
          /\ \A i \in 1..N : e[i - 1] <= e[i]
          /\ \A i \in 1..N : p.parts[i].bytes = Bytes(e[i - 1], e[i])
          /\ Covers(p.buffer, e[N], next_offset + size)
      BY ONLY <2>5 DEF CutAt, N
    <2>6. e \in [0..N -> 0..MaxFileSize]
      <3>1. ASSUME NEW i \in 0..N
            PROVE  e[i] \in 0..MaxFileSize
        <4>1. e[i] \in bound[L]..(next_offset + size)
          BY ONLY <2>b
        <4>2. MaxFileSize \in Nat
          OBVIOUS
        <4> QED  BY ONLY <1>1, <2>4, <4>1, <4>2
      <3> QED  BY ONLY <2>5, <3>1
    <2>7. MaxFileSize \in Nat
      OBVIOUS
    <2>c. \A n \in 1..L : bound[n - 1] <= bound[n]
      BY ONLY <2>a
    <2>d. e[0] = bound[L] /\ \A n \in 1..N : e[n - 1] <= e[n]
      BY ONLY <2>b
    <2>e. PICK b \in [0..L + N -> 0..MaxFileSize] : Extends(b, bound, L, e, N)
      <3>1. L \in Nat /\ N \in Nat
        BY ONLY <1>1, <1>7
      <3>2. bound \in [0..L -> 0..MaxFileSize]
        BY ONLY <2>3
      <3> QED  BY ONLY <2>6, <2>7, <2>c, <2>d, <3>1, <3>2, BoundsExtended
    <2>8. /\ \A n \in 0..L : b[n] = bound[n]
          /\ \A n \in 0..N : b[L + n] = e[n]
          /\ \A n \in 1..L + N : b[n - 1] <= b[n]
      BY ONLY <2>e DEF Extends
    <2>9. b[0] = 0
      <3>1. 0 \in 0..L
        BY <1>1
      <3> QED  BY ONLY <2>8, <2>a, <3>1
    <2>10. ASSUME NEW n \in 1..L
           PROVE  b[n] = bound[n] /\ b[n - 1] = bound[n - 1]
      <3>1. n \in 0..L /\ n - 1 \in 0..L
        BY ONLY <1>1
      <3> QED  BY ONLY <2>8, <3>1
    <2>11. ASSUME NEW n \in 1..L + N, part_etags'[n]
           PROVE  stored'[n] = Bytes(b[n - 1], b[n])
      <3>1. n \in 1..L /\ part_etags[n]
        <4>1. n <= L /\ part_etags[n]
          BY ONLY <1>3, <2>11
        <4> QED  BY ONLY <1>1, <1>7, <4>1
      <3> QED  BY <2>10, <2>a, <3>1
    <2>12. ASSUME NEW u \in Threads, pc'[u] \in UploadLabels, NEW i \in 1..Len(todo'[u])
           PROVE  todo'[u][i].bytes =
                     Bytes(b[todo'[u][i].part_number - 1], b[todo'[u][i].part_number])
      <3>1. CASE u = t
        <4>1. i \in 1..N /\ todo'[u][i] = p.parts[i]
          BY <1>4, <2>12, <3>1 DEF N
        <4>2. p.parts[i].part_number = L + i
          BY ONLY <1>2, <4>1
        <4>3. i \in 0..N /\ i - 1 \in 0..N /\ (L + i) - 1 = L + (i - 1)
          BY ONLY <1>1, <1>7, <4>1
        <4>4. b[L + i] = e[i] /\ b[(L + i) - 1] = e[i - 1]
          BY ONLY <2>8, <4>3
        <4>5. p.parts[i].bytes = Bytes(e[i - 1], e[i])
          BY ONLY <2>b, <4>1
        <4> QED  BY ONLY <4>1, <4>2, <4>4, <4>5
      <3>2. CASE u # t
        <4>1. todo'[u] = todo[u] /\ pc[u] \in UploadLabels
          BY <1>4, <2>12, <3>2
        <4>2. todo[u][i].part_number \in 1..L
          BY <2>12, <4>1 DEF DataInv, DataTypeInv, L
        <4>3. todo[u][i].bytes =
                 Bytes(bound[todo[u][i].part_number - 1], bound[todo[u][i].part_number])
          BY <2>12, <2>a, <4>1
        <4> QED  BY ONLY <2>10, <4>1, <4>2, <4>3
      <3> QED  BY ONLY <3>1, <3>2
    <2>13. \A u \in Threads : ~Finalizing(u)'
      BY <1>4, <1>6 DEF Finalizing
    <2>14. Covers(buffered_part', b[L + N], next_offset')
      <3>1. N \in 0..N
        BY <1>7
      <3>2. b[L + N] = e[N]
        BY ONLY <2>8, <3>1
      <3> QED  BY <2>b, <3>2
    <2>15. Layout(b)'
      <3>1. Len(part_etags') = L + N
        BY ONLY <1>3
      <3>2. \A n \in 1..Len(part_etags') : part_etags'[n] => stored'[n] = Bytes(b[n - 1], b[n])
        BY ONLY <2>11, <3>1
      <3>3. \A n \in 1..Len(part_etags') : b[n - 1] <= b[n]
        BY ONLY <2>8, <3>1
      <3>4. Covers(buffered_part', b[Len(part_etags')], next_offset')
        BY ONLY <2>14, <3>1
      <3>5. \A u \in Threads : pc'[u] \in UploadLabels =>
               \A i \in 1..Len(todo'[u]) :
                   todo'[u][i].bytes =
                       Bytes(b[todo'[u][i].part_number - 1], b[todo'[u][i].part_number])
        BY ONLY SMTT(40), <2>12
      <3> QED
        BY ONLY <2>9, <2>13, <3>2, <3>3, <3>4, <3>5 DEF Layout, Covers
    <2> QED  BY ONLY <2>15, b \in [0..L + N -> 0..MaxFileSize]
  <1>10. FinalizeInv'
    BY <1>4, <1>5, <1>6 DEF DataInv, FinalizeInv, Finalizing
  <1>11. CursorInv'
    <2>1. length' <= next_offset' /\ next_offset <= next_offset'
      BY SMTT(40), <1>1 DEF DataInv, DataTypeInv, CursorInv
    <2>2. arg'[t].location + arg'[t].size = next_offset'
      OBVIOUS
    <2>3. ASSUME NEW u \in Threads, op'[u] = "Write", pc'[u] \in AcceptedLabels
          PROVE  arg'[u].location + arg'[u].size <= next_offset'
      <3>1. CASE u = t
        BY <1>1, <2>2, <3>1
      <3>2. CASE u # t
        <4>1. arg[u].location + arg[u].size <= next_offset
          BY <1>4, <2>3, <3>2 DEF DataInv, CursorInv
        <4>2. arg[u] \in [location : Nat, size : Nat]
          BY DEF DataInv, DataTypeInv
        <4>3. arg[u].location + arg[u].size \in Nat
          BY ONLY <4>2
        <4> QED  BY SMTT(40), <1>1, <4>1, <4>3
      <3> QED  BY <3>1, <3>2
    <2>4. pc'[t] \in OperationLabels \ {"PrepareWrite", "ReleaseOperation"} /\ op'[t] = "Write"
      BY <1>4, <1>5
    <2> QED  BY <2>1, <2>2, <2>3, <2>4 DEF CursorInv
  <1>12. ObjectInv'
    BY <1>6 DEF DataInv, ObjectInv, PublishedObjectIsInput
  <1> QED  BY <1>8, <1>9, <1>10, <1>11, <1>12 DEF DataInv

\* Besides an operation in progress nobody finalizes.
LEMMA OthersDoNotFinalize ==
  ASSUME ControlInv, NEW t \in Threads, pc[t] \in OperationLabels
  PROVE  /\ lifecycle_state # "FINALIZED"
         /\ \A u \in Threads : u # t => ~Finalizing(u) /\ pc[u] \notin FinalizeLabels
  <1>1. lifecycle_state # "FINALIZED"
    BY DEF CleanupInv, Operating
  <1>2. \A u \in Threads : u # t /\ pc[u] \in OperationLabels => op[u] # "Finalize"
    BY DEF OperationInv, Operating
  <1> QED  BY <1>1, <1>2 DEF Finalizing, OperationInv

\* An operation is about to fail: what it spoilt will not be published.
LEMMA ThrowData ==
  ASSUME ControlInv, DataInv, NEW t \in Threads, pc[t] \in OperationLabels \ FailureLabels,
         pc' = [pc EXCEPT ![t] = "LatchFailure"],
         UNCHANGED <<next_offset, length, op, arg, local_buffered_part, lifecycle_state,
                     primary_error>>,
         DataTypeInv', PublishedObjectIsInput'
  PROVE  DataInv'
  <1>1. pc'[t] = "LatchFailure" /\ \A u \in Threads : u # t => pc'[u] = pc[u]
    BY DEF ControlTypeOK
  <1>2. lifecycle_state # "FINALIZED" /\ \A u \in Threads : u # t => ~Finalizing(u) /\ pc[u] \notin FinalizeLabels
    BY OthersDoNotFinalize
  <1>3. LayoutInv'
    BY <1>1 DEF LayoutInv, Publishable
  <1>4. FinalizeInv'
    <2>1. lifecycle_state' = "FINALIZING" =>
             \E u \in Threads : op'[u] = "Finalize" /\ pc'[u] \in OperationLabels \ {"ReleaseOperation"}
      BY <1>1 DEF DataInv, FinalizeInv
    <2>2. \A u \in Threads : pc'[u] \notin FinalizeLabels
      BY <1>1, <1>2
    <2>3. \A u \in Threads : ~Finalizing(u)'
      BY <1>1, <1>2 DEF Finalizing
    <2> QED  BY <2>1, <2>2, <2>3 DEF FinalizeInv
  <1>5. CursorInv'
    <2>1. length' <= next_offset'
      BY DEF DataInv, CursorInv
    <2>2. \A u \in Threads : op'[u] = "Write" /\ pc'[u] \in AcceptedLabels =>
             arg'[u].location + arg'[u].size <= next_offset'
      BY <1>1 DEF DataInv, CursorInv
    <2>3. ~failed' /\ length' # next_offset' =>
             \E u \in Threads :
                 /\ op'[u] = "Write"
                 /\ pc'[u] \in OperationLabels \ {"PrepareWrite", "ReleaseOperation"}
                 /\ arg'[u].location + arg'[u].size = next_offset'
      BY <1>1 DEF DataInv, CursorInv
    <2> QED  BY <2>1, <2>2, <2>3 DEF CursorInv
  <1>6. ObjectInv'
    BY <1>2 DEF ObjectInv
  <1> QED  BY <1>3, <1>4, <1>5, <1>6 DEF DataInv

\* A write is rejected, accepted, or fails for want of a part or of memory.
LEMMA PrepareWriteData ==
  ASSUME ControlInv, DataInv, NEW t \in Threads, PrepareWrite(t)
  PROVE  DataInv'
  <1> DEFINE size == arg[t].size
             p == PreparedWrite(next_offset, size)
  <1>1. pc[t] = "PrepareWrite" /\ op[t] = "Write"
    BY DEF PrepareWrite, OperationInv
  <1>2. /\ UNCHANGED <<length, op, arg, local_buffered_part, stored, object, lifecycle_state,
                       primary_error>>
        /\ \/ Throw(t, "DEFINITIVE") /\ UNCHANGED dataVars
           \/ /\ ~Rejects(arg[t].location, size) /\ p.fits /\ Reserve(p.parts)
              /\ buffered_part' = p.buffer /\ next_offset' = next_offset + size
              /\ todo' = [todo EXCEPT ![t] = p.parts]
              /\ pc' = [pc EXCEPT ![t] = NextPart(t, p.parts)]
           \/ /\ ~Rejects(arg[t].location, size) /\ Reserve(p.parts)
              /\ buffered_part' = None /\ Throw(t, "DEFINITIVE")
              /\ UNCHANGED next_offset
    BY DEF PrepareWrite, Rejects, Throw
  <1>a. DataTypeInv /\ size \in Nat
    BY DEF DataInv, DataTypeInv
  <1>b. p = PreparedWrite(next_offset, size)
    OBVIOUS
  <1> HIDE DEF p
  <1>3. CASE Throw(t, "DEFINITIVE") /\ UNCHANGED dataVars
    <2>1. pc' = [pc EXCEPT ![t] = "LatchFailure"] /\ UNCHANGED <<todo, local_buffered_part>>
      BY <1>3 DEF Throw
    <2>2. pc'[t] = "LatchFailure" /\ \A u \in Threads : u # t => pc'[u] = pc[u]
      BY <2>1 DEF ControlTypeOK
    <2>3. DataTypeInv'
      BY <1>2, <1>3, <1>a, <2>1, <2>2 DEF DataTypeInv
    <2>4. PublishedObjectIsInput'
      BY <1>2, <1>3 DEF DataInv, ObjectInv, PublishedObjectIsInput
    <2> QED  BY <1>1, <1>2, <1>3, <2>1, <2>3, <2>4, ThrowData
  <1>4. CASE /\ ~Rejects(arg[t].location, size) /\ p.fits /\ Reserve(p.parts)
             /\ buffered_part' = p.buffer /\ next_offset' = next_offset + size
             /\ todo' = [todo EXCEPT ![t] = p.parts]
             /\ pc' = [pc EXCEPT ![t] = NextPart(t, p.parts)]
    <2>1. /\ ~failed /\ arg[t].location = next_offset
          /\ size <= MaxFileSize - next_offset
      BY SMTT(40), <1>4, <1>a DEF Rejects, DataTypeInv
    <2> HIDE DEF size
    <2>2. size = arg[t].size
      BY DEF size
    <2> DEFINE l == NextPart(t, p.parts)
    <2>3. l = NextPart(t, p.parts) /\ pc' = [pc EXCEPT ![t] = l]
      BY <1>4
    <2> HIDE DEF l
    <2>4. p.fits /\ Reserve(p.parts) /\ buffered_part' = p.buffer
      BY <1>4
    <2>5. next_offset' = next_offset + size /\ todo' = [todo EXCEPT ![t] = p.parts]
      BY <1>4
    <2>6. UNCHANGED <<length, op, arg, local_buffered_part, stored, object, lifecycle_state,
                      primary_error>>
      BY <1>2
    <2> QED
      BY ONLY ControlInv, DataInv, t \in Threads, <1>1, <1>b, <2>1, <2>2, <2>3, <2>4, <2>5, <2>6, AcceptData
  <1>5. CASE /\ ~Rejects(arg[t].location, size) /\ Reserve(p.parts)
             /\ buffered_part' = None /\ Throw(t, "DEFINITIVE")
             /\ UNCHANGED next_offset
    <2>1. pc' = [pc EXCEPT ![t] = "LatchFailure"] /\ UNCHANGED <<todo, local_buffered_part>>
      BY <1>5 DEF Throw
    <2>2. pc'[t] = "LatchFailure" /\ \A u \in Threads : u # t => pc'[u] = pc[u]
      BY <2>1 DEF ControlTypeOK
    <2>3. CutsInput(p, size)
      BY ONLY <1>a, <1>b, PreparedCut
    <2>4. p.parts \in Seq(PreparedPart) /\ Len(part_etags) + Len(p.parts) <= MaxParts
      BY ONLY <2>3 DEF CutsInput
    <2>5. part_etags \in Seq(BOOLEAN)
      BY <1>a DEF DataTypeInv
    <2>6. part_etags' \in Seq(BOOLEAN) /\ Len(part_etags') = Len(part_etags) + Len(p.parts)
      BY ONLY <1>5, <2>4, <2>5, ReserveProperties
    <2>7. \A n \in 1..Len(part_etags) : n \in 1..Len(part_etags')
      BY ONLY <2>4, <2>5, <2>6
    <2>8. ASSUME NEW u \in Threads, pc'[u] \in UploadLabels
          PROVE  /\ todo'[u] # <<>>
                 /\ \A i \in 1..Len(todo'[u]) : todo'[u][i].part_number \in 1..Len(part_etags')
      <3>1. pc[u] \in UploadLabels /\ todo'[u] = todo[u]
        BY <2>1, <2>2, <2>8
      <3>2. /\ todo[u] # <<>>
            /\ \A i \in 1..Len(todo[u]) : todo[u][i].part_number \in 1..Len(part_etags)
        BY <1>a, <3>1 DEF DataTypeInv
      <3> QED  BY ONLY <2>7, <3>1, <3>2
    <2>9. DataTypeInv'
      BY <1>2, <1>5, <1>a, <2>1, <2>4, <2>6, <2>8 DEF DataTypeInv
    <2>10. PublishedObjectIsInput'
      BY <1>2, <1>5 DEF DataInv, ObjectInv, PublishedObjectIsInput
    <2> QED  BY <1>1, <1>2, <1>5, <2>1, <2>9, <2>10, ThrowData
  <1> QED  BY ONLY <1>2, <1>3, <1>4, <1>5

\* A Finalize at work leaves its bytes where they are and goes on.
LEMMA FinalizerQuiet ==
  ASSUME ControlInv, DataInv, NEW t \in Threads, op[t] = "Finalize",
         pc[t] \in OperationLabels \ FailureLabels, NEW l \in FinalizeLabels, Quiet(t, l),
         UNCHANGED lifecycle_state, object' \in Seq(Byte) \cup {None}, PublishedObjectIsInput',
         l = "UploadSingle" => part_etags = <<>>,
         l \in {"CompleteMultipartUpload", "ReceiveCompletion"} => local_buffered_part[t] = None,
         l = "ReceiveCompletion" => \A i \in 1..Len(part_etags) : part_etags[i],
         l = "FinishFinalize" => object' = Bytes(0, next_offset)
  PROVE  DataInv'
  <1>1. /\ pc'[t] = l /\ \A u \in Threads : u # t => pc'[u] = pc[u]
        /\ UNCHANGED <<op, part_etags, local_buffered_part, next_offset>>
    BY DEF Quiet, ControlTypeOK
  <1>2. DataTypeInv' /\ LayoutInv' /\ CursorInv'
    BY QuietType, QuietLayout, QuietCursor
  <1>3. lifecycle_state # "FINALIZED" /\ \A u \in Threads : u # t => ~Finalizing(u) /\ pc[u] \notin FinalizeLabels
    BY OthersDoNotFinalize
  <1>4. ObjectInv'
    BY <1>3 DEF ObjectInv
  <1>5. FinalizeInv'
    <2>1. op'[t] = "Finalize" /\ pc'[t] \in OperationLabels \ {"ReleaseOperation"}
      BY <1>1
    <2>2. \A u \in Threads : u # t => ~Finalizing(u)' /\ pc'[u] \notin FinalizeLabels
      BY <1>1, <1>3 DEF Finalizing
    <2> QED  BY <1>1, <2>1, <2>2 DEF FinalizeInv
  <1> QED  BY <1>2, <1>4, <1>5 DEF DataInv

\* A Finalize at work may still publish; its buffer follows the parts.
LEMMA FinalizerLayout ==
  ASSUME ControlInv, DataInv, NEW t \in Threads, pc[t] \in FinalizeLabels
  PROVE  /\ op[t] = "Finalize" /\ ~failed /\ lifecycle_state = "FINALIZING" /\ Publishable
         /\ \A u \in Threads : u # t => pc[u] \notin OperationLabels
         /\ \E bound \in [0..Len(part_etags) -> 0..MaxFileSize] :
               /\ Layout(bound)
               /\ buffered_part = None
               /\ Covers(local_buffered_part[t], bound[Len(part_etags)], next_offset)
  <1>1. op[t] = "Finalize" /\ ~failed /\ lifecycle_state = "FINALIZING" /\ Operating = {t}
    BY DEF OperationInv
  <1>2. \A u \in Threads : u # t => pc[u] \notin OperationLabels
    BY <1>1 DEF Operating
  <1>3. Publishable
    BY <1>1, <1>2 DEF Publishable
  <1>4. PICK bound \in [0..Len(part_etags) -> 0..MaxFileSize] : Layout(bound)
    BY <1>3 DEF DataInv, LayoutInv
  <1>5. Finalizing(t)
    BY <1>1 DEF Finalizing
  <1>6. buffered_part = None /\ Covers(local_buffered_part[t], bound[Len(part_etags)], next_offset)
    BY ONLY <1>4, <1>5, t \in Threads DEF Layout
  <1> QED  BY <1>1, <1>2, <1>3, <1>4, <1>6

\* A single PUT holds the whole input.
LEMMA SingleIsInput ==
  ASSUME ControlInv, DataInv, NEW t \in Threads, pc[t] = "UploadSingle", PutObject(t)
  PROVE  object' \in Seq(Byte) /\ object' = Bytes(0, next_offset)
  <1>1. part_etags = <<>> /\ next_offset \in Nat
    BY DEF DataInv, FinalizeInv, DataTypeInv
  <1>2. PICK bound \in [0..Len(part_etags) -> 0..MaxFileSize] :
           /\ Layout(bound)
           /\ Covers(local_buffered_part[t], bound[Len(part_etags)], next_offset)
    BY FinalizerLayout
  <1>3. bound[0] = 0
    BY ONLY <1>2 DEF Layout
  <1>4. Covers(local_buffered_part[t], 0, next_offset)
    BY <1>1, <1>2, <1>3
  <1>5. Bytes(0, next_offset) \in Seq(Byte) /\ (next_offset = 0 => Bytes(0, next_offset) = <<>>)
    <2>1. 0 <= next_offset /\ 0 \in Nat
      BY <1>1
    <2>2. Bytes(0, next_offset) \in Seq(Byte) /\ Len(Bytes(0, next_offset)) = next_offset - 0
      BY ONLY <1>1, <2>1, BytesType
    <2> QED  BY <1>1, <2>2
  <1>6. object' = IF local_buffered_part[t] = None THEN <<>> ELSE local_buffered_part[t].bytes
    BY DEF PutObject
  <1>7. object' = Bytes(0, next_offset)
    BY <1>4, <1>5, <1>6 DEF Covers
  <1> QED  BY <1>5, <1>7

\* The parts of a completion hold the whole input.
LEMMA CompletionIsInput ==
  ASSUME ControlInv, DataInv, NEW t \in Threads, pc[t] = "ReceiveCompletion", PublishParts
  PROVE  object' \in Seq(Byte) /\ object' = Bytes(0, next_offset)
  <1> DEFINE L == Len(part_etags)
  <1>1. /\ part_etags \in Seq(BOOLEAN) /\ L \in Nat /\ next_offset \in Nat
        /\ \A i \in 1..L : part_etags[i]
    BY SMTT(40) DEF DataInv, FinalizeInv, DataTypeInv
  <1>2. PICK bound \in [0..L -> 0..MaxFileSize] :
           Layout(bound) /\ Covers(local_buffered_part[t], bound[L], next_offset)
    BY FinalizerLayout
  <1>3. /\ bound[0] = 0
        /\ \A n \in 1..L : bound[n - 1] <= bound[n]
        /\ \A n \in 1..L : part_etags[n] => stored[n] = Bytes(bound[n - 1], bound[n])
    BY ONLY <1>2 DEF Layout
  <1>4. local_buffered_part[t] = None
    <2>1. Finalizing(t)
      BY DEF Finalizing, OperationInv
    <2> QED  BY <2>1 DEF DataInv, FinalizeInv
  <1>5. bound[L] = next_offset
    BY ONLY <1>2, <1>4 DEF Covers
  <1>6. object' = FlattenSeq([i \in 1..L |-> stored[i]])
    <2>1. DOMAIN part_etags = 1..L
      BY <1>1
    <2>2. object' = FlattenSeq([i \in DOMAIN part_etags |-> stored[i]])
      BY DEF PublishParts
    <2> QED  BY ONLY <2>1, <2>2
  <1> DEFINE seqs == [i \in 1..L |-> stored[i]]
  <1>7. seqs = [i \in 1..L |-> Bytes(bound[i - 1], bound[i])]
    <2>1. \A i \in 1..L : stored[i] = Bytes(bound[i - 1], bound[i])
      BY ONLY <1>1, <1>3
    <2> HIDE DEF L
    <2> QED  BY ONLY <2>1
  <1>8. bound \in [0..L -> Nat]
    BY <1>2
  <1> HIDE DEF L, seqs
  <1>9. FlattenSeq(seqs) = Bytes(0, bound[L])
    BY ONLY <1>1, <1>3, <1>7, <1>8, FlattenLayout
  <1>10. object' = Bytes(0, next_offset)
    BY <1>5, <1>6, <1>9 DEF seqs
  <1>11. Bytes(0, next_offset) \in Seq(Byte)
    <2>1. 0 <= next_offset /\ 0 \in Nat
      BY <1>1
    <2> QED  BY ONLY <1>1, <2>1, BytesType
  <1> QED  BY <1>10, <1>11

\* The object is put in one request.
LEMMA UploadSingleData ==
  ASSUME ControlInv, DataInv, NEW t \in Threads, UploadSingle(t)
  PROVE  DataInv'
  <1>1. /\ pc[t] = "UploadSingle" /\ op[t] = "Finalize"
        /\ UNCHANGED <<dataVars, controlVars, failureVars, inputVars>>
    BY DEF UploadSingle, OperationInv
  <1>2. PutObject(t) \/ UNCHANGED s3Vars
    BY DEF UploadSingle
  <1>3. /\ UNCHANGED stored
        /\ object' \in Seq(Byte) \cup {None} /\ PublishedObjectIsInput'
    <2>1. CASE PutObject(t)
      <3>1. object' \in Seq(Byte) /\ object' = Bytes(0, next_offset) /\ UNCHANGED stored
        BY <1>1, <2>1, SingleIsInput DEF PutObject
      <3> QED  BY <1>1, <3>1 DEF PublishedObjectIsInput
    <2>2. CASE UNCHANGED s3Vars
      BY <1>1, <2>2 DEF DataInv, DataTypeInv, ObjectInv, PublishedObjectIsInput
    <2> QED  BY <1>2, <2>1, <2>2
  <1>4. CASE PutObject(t) /\ Goto(t, "FinishFinalize") /\ UNCHANGED localVars
    <2>1. Quiet(t, "FinishFinalize")
      BY <1>1, <1>3, <1>4 DEF Quiet, Publishable, Finalizing, ControlTypeOK
    <2>2. object' = Bytes(0, next_offset)
      BY <1>1, <1>4, SingleIsInput
    <2> QED  BY <1>1, <1>3, <2>1, <2>2, FinalizerQuiet
  <1>5. CASE Throw(t, "DEFINITIVE")
    <2>1. pc' = [pc EXCEPT ![t] = "LatchFailure"] /\ UNCHANGED <<todo, local_buffered_part>>
      BY <1>5 DEF Throw
    <2>2. DataTypeInv'
      BY <1>1, <1>3, <2>1 DEF DataInv, DataTypeInv, ControlTypeOK
    <2> QED  BY <1>1, <1>3, <2>1, <2>2, ThrowData
  <1> QED  BY <1>4, <1>5 DEF UploadSingle

\* The parts of a Finalize are all there, or it fails.
LEMMA CompleteMultipartUploadData ==
  ASSUME ControlInv, DataInv, NEW t \in Threads, CompleteMultipartUpload(t)
  PROVE  DataInv'
  <1>1. /\ pc[t] = "CompleteMultipartUpload" /\ op[t] = "Finalize"
        /\ UNCHANGED <<dataVars, controlVars, failureVars, inputVars, s3Vars>>
    BY DEF CompleteMultipartUpload, OperationInv
  <1>2. object' \in Seq(Byte) \cup {None} /\ PublishedObjectIsInput'
    BY <1>1 DEF DataInv, DataTypeInv, ObjectInv, PublishedObjectIsInput
  <1>3. CASE Throw(t, "DEFINITIVE")
    <2>1. pc' = [pc EXCEPT ![t] = "LatchFailure"] /\ UNCHANGED <<todo, local_buffered_part>>
      BY <1>3 DEF Throw
    <2>2. DataTypeInv'
      BY <1>1, <2>1 DEF DataInv, DataTypeInv, ControlTypeOK
    <2> QED  BY <1>1, <1>2, <2>1, <2>2, ThrowData
  <1>4. CASE /\ ~(\E i \in DOMAIN part_etags : ~part_etags[i])
             /\ Goto(t, "ReceiveCompletion") /\ UNCHANGED localVars
    <2>1. Quiet(t, "ReceiveCompletion")
      BY <1>1, <1>4 DEF Quiet, Publishable, Finalizing, ControlTypeOK
    <2>2. \A i \in 1..Len(part_etags) : part_etags[i]
      <3>1. DOMAIN part_etags = 1..Len(part_etags)
        BY DEF DataInv, DataTypeInv
      <3> QED  BY <1>4, <3>1
    <2>3. local_buffered_part[t] = None
      BY <1>1 DEF DataInv, FinalizeInv, Finalizing
    <2> QED  BY <1>1, <1>2, <2>1, <2>2, <2>3, FinalizerQuiet
  <1> QED  BY <1>3, <1>4 DEF CompleteMultipartUpload

\* A completion is answered, or the answer is lost.
LEMMA ReceiveCompletionData ==
  ASSUME ControlInv, DataInv, NEW t \in Threads, ReceiveCompletion(t)
  PROVE  DataInv'
  <1>1. /\ pc[t] = "ReceiveCompletion" /\ op[t] = "Finalize"
        /\ UNCHANGED <<dataVars, controlVars, failureVars, inputVars>>
    BY DEF ReceiveCompletion, OperationInv
  <1>2. PublishParts \/ UNCHANGED s3Vars
    BY DEF ReceiveCompletion
  <1>3. /\ UNCHANGED stored
        /\ object' \in Seq(Byte) \cup {None} /\ PublishedObjectIsInput'
    <2>1. CASE PublishParts
      <3>1. object' \in Seq(Byte) /\ object' = Bytes(0, next_offset) /\ UNCHANGED stored
        BY <1>1, <2>1, CompletionIsInput DEF PublishParts
      <3> QED  BY <1>1, <3>1 DEF PublishedObjectIsInput
    <2>2. CASE UNCHANGED s3Vars
      BY <1>1, <2>2 DEF DataInv, DataTypeInv, ObjectInv, PublishedObjectIsInput
    <2> QED  BY <1>2, <2>1, <2>2
  <1>4. CASE PublishParts /\ Goto(t, "FinishFinalize") /\ UNCHANGED localVars
    <2>1. Quiet(t, "FinishFinalize")
      BY <1>1, <1>3, <1>4 DEF Quiet, Publishable, Finalizing, ControlTypeOK
    <2>2. object' = Bytes(0, next_offset)
      BY <1>1, <1>4, CompletionIsInput
    <2> QED  BY <1>1, <1>3, <2>1, <2>2, FinalizerQuiet
  <1>5. CASE Throw(t, "DEFINITIVE") \/ Throw(t, "AMBIGUOUS")
    <2>1. pc' = [pc EXCEPT ![t] = "LatchFailure"] /\ UNCHANGED <<todo, local_buffered_part>>
      BY <1>5 DEF Throw
    <2>2. DataTypeInv'
      BY <1>1, <1>3, <2>1 DEF DataInv, DataTypeInv, ControlTypeOK
    <2> QED  BY <1>1, <1>3, <2>1, <2>2, ThrowData
  <1> QED  BY <1>4, <1>5 DEF ReceiveCompletion

\* The upload is finalized.
LEMMA FinishFinalizeData ==
  ASSUME ControlInv, DataInv, NEW t \in Threads, FinishFinalize(t)
  PROVE  DataInv'
  <1>1. /\ pc[t] = "FinishFinalize" /\ pc' = [pc EXCEPT ![t] = "Idle"]
        /\ lifecycle_state' = "FINALIZED"
        /\ UNCHANGED <<dataVars, failureVars, inputVars, localVars, s3Vars>>
    BY DEF FinishFinalize
  <1>2. pc'[t] = "Idle" /\ \A u \in Threads : u # t => pc'[u] = pc[u]
    BY <1>1 DEF ControlTypeOK
  <1>3. op[t] = "Finalize" /\ \A u \in Threads : u # t => pc[u] \notin OperationLabels
    BY <1>1, FinalizerLayout
  <1>4. \A u \in Threads : pc'[u] \notin OperationLabels
    BY <1>2, <1>3
  <1>5. object = Bytes(0, next_offset) /\ object # None
    <2>1. object = Bytes(0, next_offset) /\ next_offset \in Nat
      BY <1>1 DEF DataInv, FinalizeInv, DataTypeInv
    <2>2. 0 <= next_offset /\ 0 \in Nat
      BY <2>1
    <2>3. Bytes(0, next_offset) \in Seq(Byte)
      BY ONLY <2>1, <2>2, BytesType
    <2>4. None \notin Seq(Byte)
      BY DEF Byte
    <2> QED  BY ONLY <2>1, <2>3, <2>4
  <1>6. DataTypeInv'
    BY <1>1, <1>4 DEF DataInv, DataTypeInv
  <1>7. LayoutInv'
    BY <1>1 DEF LayoutInv, Publishable
  <1>8. FinalizeInv'
    BY <1>1, <1>4 DEF FinalizeInv, Finalizing
  <1>9. CursorInv'
    <2>1. length <= next_offset /\ (~failed => length = next_offset)
      BY <1>3 DEF DataInv, CursorInv
    <2> QED  BY <1>1, <1>4, <2>1 DEF CursorInv
  <1>10. ObjectInv'
    BY <1>1, <1>5 DEF ObjectInv, PublishedObjectIsInput
  <1> QED  BY <1>6, <1>7, <1>8, <1>9, <1>10 DEF DataInv

\* A part is stored, or its upload fails.
LEMMA UploadPartData ==
  ASSUME ControlInv, DataInv, NEW t \in Threads, UploadPart(t)
  PROVE  DataInv'
  <1> DEFINE L == Len(part_etags)
             part == Head(todo[t])
             n == part.part_number
  <1>1. /\ pc[t] = "UploadPart"
        /\ UNCHANGED <<controlVars, next_offset, buffered_part, length, failureVars, inputVars>>
        /\ UNCHANGED <<upload, object>>
    BY DEF UploadPart, PutPart
  <1>2. /\ DataTypeInv /\ part_etags \in Seq(BOOLEAN) /\ L \in Nat /\ L <= MaxParts
        /\ todo \in [Threads -> Seq(PreparedPart)]
        /\ stored \in [1..MaxParts -> Seq(Byte) \cup {None}]
        /\ pc \in [Threads -> Labels]
    BY SMTT(40) DEF DataInv, DataTypeInv, ControlTypeOK
  <1>3. /\ todo[t] \in Seq(PreparedPart) /\ todo[t] # <<>>
        /\ \A i \in 1..Len(todo[t]) : todo[t][i].part_number \in 1..L
    BY <1>1, <1>2 DEF DataTypeInv
  <1>4. /\ 1 \in 1..Len(todo[t]) /\ part = todo[t][1] /\ part \in PreparedPart
        /\ Tail(todo[t]) \in Seq(PreparedPart)
        /\ \A i \in 1..Len(Tail(todo[t])) :
              i + 1 \in 1..Len(todo[t]) /\ Tail(todo[t])[i] = todo[t][i + 1]
    <2> DEFINE s == todo[t]
    <2>1. s \in Seq(PreparedPart) /\ s # <<>>
      BY <1>3
    <2> HIDE DEF s
    <2>2. /\ 1 \in 1..Len(s) /\ Head(s) = s[1] /\ Head(s) \in PreparedPart
          /\ Tail(s) \in Seq(PreparedPart)
          /\ \A i \in 1..Len(Tail(s)) : i + 1 \in 1..Len(s) /\ Tail(s)[i] = s[i + 1]
      BY ONLY <2>1
    <2> QED  BY ONLY <2>2 DEF s
  <1>5. n \in 1..L /\ n \in 1..MaxParts /\ part.bytes \in Seq(Byte)
    <2>1. n \in 1..L
      BY ONLY <1>3, <1>4
    <2>2. part.bytes \in Seq(Byte)
      BY ONLY <1>4 DEF PreparedPart
    <2>3. n \in 1..MaxParts
      BY SMTT(40), <1>2, <2>1
    <2> QED  BY <2>1, <2>2, <2>3
  <1> HIDE DEF L, part, n
  <1>6. CASE /\ PutPart(part)
             /\ part_etags' = [part_etags EXCEPT ![n] = TRUE]
             /\ todo' = [todo EXCEPT ![t] = Tail(@)]
             /\ Goto(t, NextPart(t, Tail(todo[t])))
             /\ UNCHANGED local_buffered_part
    <2> DEFINE rest == Tail(todo[t])
               l == NextPart(t, rest)
    <2>1. /\ stored' = [stored EXCEPT ![n] = part.bytes]
          /\ pc' = [pc EXCEPT ![t] = l] /\ todo' = [todo EXCEPT ![t] = rest]
      BY <1>6 DEF PutPart, n
    <2>2. /\ l \in {"UpdateCursor", "CompleteMultipartUpload", "EnsureMultipartUpload"}
          /\ l \in UploadLabels => rest # <<>>
          /\ l = "UpdateCursor" => op[t] = "Write"
          /\ l = "CompleteMultipartUpload" => op[t] = "Finalize"
      BY <1>1 DEF NextPart, AfterParts, OperationInv
    <2>3. /\ rest \in Seq(PreparedPart)
          /\ \A i \in 1..Len(rest) : i + 1 \in 1..Len(todo[t]) /\ rest[i] = todo[t][i + 1]
      BY <1>4
    <2> HIDE DEF rest, l
    <2>4. /\ pc'[t] = l /\ \A u \in Threads : u # t => pc'[u] = pc[u] /\ todo'[u] = todo[u]
          /\ todo'[t] = rest
      BY <1>2, <2>1
    <2>5. /\ part_etags' \in Seq(BOOLEAN) /\ Len(part_etags') = L
          /\ \A m \in 1..L : part_etags'[m] = IF m = n THEN TRUE ELSE part_etags[m]
      <3> DEFINE e == TRUE
      <3>1. part_etags \in Seq(BOOLEAN) /\ n \in 1..Len(part_etags) /\ e \in BOOLEAN
        BY <1>2, <1>5 DEF L
      <3>2. part_etags' = [part_etags EXCEPT ![n] = e]
        BY <1>6
      <3> HIDE DEF e
      <3>4. /\ [part_etags EXCEPT ![n] = e] \in Seq(BOOLEAN)
            /\ Len([part_etags EXCEPT ![n] = e]) = Len(part_etags)
            /\ \A m \in 1..Len(part_etags) :
                  [part_etags EXCEPT ![n] = e][m] = IF m = n THEN e ELSE part_etags[m]
        BY ONLY <3>1, ExceptSeq
      <3>5. e = TRUE
        BY DEF e
      <3> QED  BY ONLY <3>2, <3>4, <3>5 DEF L
    <2>6. /\ stored' \in [1..MaxParts -> Seq(Byte) \cup {None}]
          /\ stored'[n] = part.bytes
          /\ \A m \in 1..MaxParts : m # n => stored'[m] = stored[m]
      BY <1>2, <1>5, <2>1
    <2>7. \A u \in Threads : u # t => ~Finalizing(u) /\ pc[u] \notin FinalizeLabels
      BY <1>1, OthersDoNotFinalize
    <2>8. \A u \in Threads : Finalizing(u)' <=> Finalizing(u)
      BY <1>1, <2>2, <2>4 DEF Finalizing
    <2>9. DataTypeInv'
      <3>1. todo' \in [Threads -> Seq(PreparedPart)]
        BY <1>2, <2>1, <2>3
      <3>2. ASSUME NEW u \in Threads, pc'[u] \in UploadLabels
            PROVE  /\ todo'[u] # <<>>
                   /\ \A i \in 1..Len(todo'[u]) : todo'[u][i].part_number \in 1..Len(part_etags')
        <4>1. CASE u = t
          <5>1. todo'[u] = rest /\ rest # <<>>
            BY <2>2, <2>4, <3>2, <4>1
          <5>2. \A i \in 1..Len(rest) : rest[i].part_number \in 1..L
            BY ONLY <1>3, <2>3
          <5> QED  BY ONLY <2>5, <5>1, <5>2
        <4>2. CASE u # t
          <5>1. pc[u] \in UploadLabels /\ todo'[u] = todo[u]
            BY <2>4, <3>2, <4>2
          <5>2. /\ todo[u] # <<>>
                /\ \A i \in 1..Len(todo[u]) : todo[u][i].part_number \in 1..L
            BY <1>2, <5>1 DEF DataTypeInv, L
          <5> QED  BY ONLY <2>5, <5>1, <5>2
        <4> QED  BY ONLY <4>1, <4>2
      <3>3. Len(part_etags') <= MaxParts
        BY <1>2, <2>5
      <3> QED
        BY <1>1, <1>2, <1>6, <2>5, <2>6, <3>1, <3>2, <3>3 DEF DataTypeInv
    <2>10. LayoutInv'
      <3>1. SUFFICES ASSUME Publishable'
                     PROVE  \E b \in [0..L -> 0..MaxFileSize] : Layout(b)'
        BY <2>5 DEF LayoutInv
      <3>2. Publishable
        BY <1>1, <2>4, <3>1 DEF Publishable
      <3>3. PICK b \in [0..L -> 0..MaxFileSize] : Layout(b)
        BY <3>2 DEF DataInv, LayoutInv, L
      <3>4. /\ b[0] = 0
            /\ \A m \in 1..L : b[m - 1] <= b[m]
            /\ \A m \in 1..L : part_etags[m] => stored[m] = Bytes(b[m - 1], b[m])
            /\ \A u \in Threads : pc[u] \in UploadLabels =>
                  \A i \in 1..Len(todo[u]) :
                      todo[u][i].bytes =
                          Bytes(b[todo[u][i].part_number - 1], b[todo[u][i].part_number])
            /\ \A u \in Threads : Finalizing(u) =>
                  buffered_part = None /\ Covers(local_buffered_part[u], b[L], next_offset)
            /\ (\A u \in Threads : ~Finalizing(u)) => Covers(buffered_part, b[L], next_offset)
        BY ONLY <3>3 DEF Layout, L
      <3>5. pc[t] \in UploadLabels
        BY <1>1
      <3>6. part.bytes = Bytes(b[n - 1], b[n])
        BY ONLY <1>4, <3>4, <3>5, t \in Threads DEF n
      <3>7. ASSUME NEW m \in 1..L, part_etags'[m]
            PROVE  stored'[m] = Bytes(b[m - 1], b[m])
        <4>1. CASE m = n
          BY ONLY <2>6, <3>6, <4>1
        <4>2. CASE m # n
          <5>1. part_etags[m] /\ m \in 1..MaxParts
            <6>1. part_etags[m]
              BY ONLY <2>5, <3>7, <4>2
            <6> QED  BY <1>2, <6>1
          <5> QED  BY ONLY <2>6, <3>4, <4>2, <5>1
        <4> QED  BY ONLY <4>1, <4>2
      <3>8. ASSUME NEW u \in Threads, pc'[u] \in UploadLabels, NEW i \in 1..Len(todo'[u])
            PROVE  todo'[u][i].bytes =
                      Bytes(b[todo'[u][i].part_number - 1], b[todo'[u][i].part_number])
        <4>1. CASE u = t
          <5>1. todo'[u][i] = todo[t][i + 1] /\ i + 1 \in 1..Len(todo[t])
            BY ONLY <2>3, <2>4, <3>8, <4>1
          <5> QED  BY ONLY <3>4, <3>5, <5>1, t \in Threads
        <4>2. CASE u # t
          <5>1. pc[u] \in UploadLabels /\ todo'[u] = todo[u]
            BY <2>4, <3>8, <4>2
          <5> QED  BY ONLY <3>4, <3>8, <5>1
        <4> QED  BY ONLY <4>1, <4>2
      <3>9. /\ \A u \in Threads : Finalizing(u)' =>
                  buffered_part' = None /\ Covers(local_buffered_part'[u], b[L], next_offset')
            /\ (\A u \in Threads : ~Finalizing(u)') => Covers(buffered_part', b[L], next_offset')
        BY <1>1, <1>6, <2>8, <3>4
      <3>10. Layout(b)'
        <4>1. Len(part_etags') = L
          BY ONLY <2>5
        <4>2. \A m \in 1..Len(part_etags') : part_etags'[m] => stored'[m] = Bytes(b[m - 1], b[m])
          BY ONLY <3>7, <4>1
        <4>3. \A m \in 1..Len(part_etags') : b[m - 1] <= b[m]
          BY ONLY <3>4, <4>1
        <4>4. /\ \A u \in Threads : Finalizing(u)' =>
                    buffered_part' = None /\ Covers(local_buffered_part'[u], b[Len(part_etags')], next_offset')
              /\ (\A u \in Threads : ~Finalizing(u)') =>
                    Covers(buffered_part', b[Len(part_etags')], next_offset')
          BY ONLY <3>9, <4>1
        <4>5. b[0] = 0
          BY ONLY <3>4
        <4>6. \A u \in Threads : pc'[u] \in UploadLabels =>
                 \A i \in 1..Len(todo'[u]) :
                     todo'[u][i].bytes =
                         Bytes(b[todo'[u][i].part_number - 1], b[todo'[u][i].part_number])
          BY ONLY <3>8
        <4> QED  BY ONLY <4>2, <4>3, <4>4, <4>5, <4>6 DEF Layout, Covers
      <3> QED  BY ONLY <3>10, b \in [0..L -> 0..MaxFileSize]
    <2>11. FinalizeInv'
      <3>1. lifecycle_state' = "FINALIZING" =>
               \E u \in Threads : op'[u] = "Finalize" /\ pc'[u] \in OperationLabels \ {"ReleaseOperation"}
        BY <1>1, <2>2, <2>4 DEF DataInv, FinalizeInv
      <3>2. \A u \in Threads : pc'[u] \in FinalizeLabels => u = t /\ pc'[u] = "CompleteMultipartUpload"
        BY <2>2, <2>4, <2>7
      <3>3. \A u \in Threads : Finalizing(u)' => u = t /\ Finalizing(u)
        BY <2>7, <2>8
      <3>4. Finalizing(t) => local_buffered_part[t] = None
        BY <1>1 DEF DataInv, FinalizeInv
      <3> QED  BY <1>6, <3>1, <3>2, <3>3, <3>4 DEF FinalizeInv
    <2>12. CursorInv'
      <3>1. length' <= next_offset'
        BY <1>1 DEF DataInv, CursorInv
      <3>2. \A u \in Threads : op'[u] = "Write" /\ pc'[u] \in AcceptedLabels =>
               arg'[u].location + arg'[u].size <= next_offset'
        BY <1>1, <2>4 DEF DataInv, CursorInv
      <3>3. ~failed' /\ length' # next_offset' =>
               \E u \in Threads :
                   /\ op'[u] = "Write"
                   /\ pc'[u] \in OperationLabels \ {"PrepareWrite", "ReleaseOperation"}
                   /\ arg'[u].location + arg'[u].size = next_offset'
        BY <1>1, <2>2, <2>4 DEF DataInv, CursorInv
      <3> QED  BY <3>1, <3>2, <3>3 DEF CursorInv
    <2>13. ObjectInv'
      BY <1>1 DEF DataInv, ObjectInv, PublishedObjectIsInput
    <2> QED  BY <2>9, <2>10, <2>11, <2>12, <2>13 DEF DataInv
  <1>7. CASE /\ PutPart(part) \/ UNCHANGED s3Vars
             /\ Throw(t, "DEFINITIVE")
             /\ UNCHANGED part_etags
    <2>1. pc' = [pc EXCEPT ![t] = "LatchFailure"] /\ UNCHANGED <<todo, local_buffered_part>>
      BY <1>7 DEF Throw
    <2>2. stored' \in [1..MaxParts -> Seq(Byte) \cup {None}]
      BY <1>2, <1>5, <1>7 DEF PutPart, n
    <2>3. pc'[t] = "LatchFailure" /\ \A u \in Threads : u # t => pc'[u] = pc[u]
      BY <1>2, <2>1
    <2>4. DataTypeInv'
      BY <1>1, <1>2, <1>7, <2>1, <2>2, <2>3 DEF DataTypeInv
    <2>5. PublishedObjectIsInput'
      BY <1>1 DEF DataInv, ObjectInv, PublishedObjectIsInput
    <2> QED  BY <1>1, <2>1, <2>4, <2>5, ThrowData
  <1> QED  BY <1>6, <1>7 DEF UploadPart, n, part

\* A Finalize makes a part of its buffer.
LEMMA FlushData ==
  ASSUME ControlInv, DataInv, NEW t \in Threads, pc[t] = "Finalize",
         NEW buffer, buffer = local_buffered_part[t], buffer # None,
         HasPartCapacity(Len(part_etags)), Reserve(<<buffer>>),
         NEW part, part = [part_number |-> Len(part_etags) + 1, bytes |-> buffer.bytes],
         todo' = [todo EXCEPT ![t] = <<part>>],
         local_buffered_part' = [local_buffered_part EXCEPT ![t] = None],
         pc' = [pc EXCEPT ![t] = "EnsureMultipartUpload"],
         UNCHANGED <<next_offset, buffered_part, length, op, arg, stored, object,
                     lifecycle_state, primary_error>>
  PROVE  DataInv'
  <1> DEFINE L == Len(part_etags)
  <1>1. /\ DataTypeInv /\ part_etags \in Seq(BOOLEAN) /\ L \in Nat /\ L + 1 <= MaxParts
        /\ next_offset \in 0..MaxFileSize
        /\ buffer \in BufferedPart /\ pc \in [Threads -> Labels]
    BY SMTT(40) DEF DataInv, DataTypeInv, ControlTypeOK, HasPartCapacity
  <1>2. part \in PreparedPart
    BY <1>1 DEF PreparedPart, BufferedPart
  <1>3. /\ part_etags' \in Seq(BOOLEAN) /\ Len(part_etags') = L + 1
        /\ \A n \in 1..L + 1 : part_etags'[n] = IF n <= L THEN part_etags[n] ELSE FALSE
    <2>1. <<buffer>> \in Seq(BufferedPart) /\ Len(<<buffer>>) = 1
      BY <1>1
    <2> DEFINE parts == <<buffer>>
    <2>2. parts \in Seq(BufferedPart) /\ Len(parts) = 1 /\ Reserve(parts)
      BY <2>1
    <2> HIDE DEF parts
    <2>3. /\ part_etags' \in Seq(BOOLEAN)
          /\ Len(part_etags') = Len(part_etags) + Len(parts)
          /\ \A n \in 1..Len(part_etags') :
                part_etags'[n] = IF n <= Len(part_etags) THEN part_etags[n] ELSE FALSE
      BY ONLY <1>1, <2>2, ReserveProperties
    <2> QED  BY ONLY <2>2, <2>3
  <1>4. /\ op[t] = "Finalize" /\ ~failed /\ lifecycle_state = "FINALIZING" /\ Publishable
        /\ \A u \in Threads : u # t => pc[u] \notin OperationLabels
    BY FinalizerLayout
  <1>5. PICK bound \in [0..L -> 0..MaxFileSize] :
           Layout(bound) /\ buffered_part = None /\ Covers(buffer, bound[L], next_offset)
    BY FinalizerLayout
  <1>6. /\ pc'[t] = "EnsureMultipartUpload" /\ todo'[t] = <<part>> /\ local_buffered_part'[t] = None
        /\ \A u \in Threads : u # t => pc'[u] = pc[u] /\ pc'[u] \notin OperationLabels
    BY <1>1, <1>4 DEF DataTypeInv
  <1>7. part.bytes = Bytes(bound[L], next_offset) /\ bound[L] <= next_offset /\ part.part_number = L + 1
    BY <1>5 DEF Covers
  <1> HIDE DEF L
  <1>8. DataTypeInv'
    <2>1. todo' \in [Threads -> Seq(PreparedPart)]
      <3>1. <<part>> \in Seq(PreparedPart)
        BY <1>2
      <3> QED  BY <1>1, <3>1 DEF DataTypeInv
    <2>2. local_buffered_part' \in [Threads -> BufferedPart \cup {None}]
      BY <1>1 DEF DataTypeInv
    <2>3. ASSUME NEW u \in Threads, pc'[u] \in UploadLabels
          PROVE  /\ todo'[u] # <<>>
                 /\ \A i \in 1..Len(todo'[u]) : todo'[u][i].part_number \in 1..Len(part_etags')
      <3>1. todo'[u] = <<part>>
        BY <1>6, <2>3
      <3>2. part.part_number \in 1..Len(part_etags')
        BY <1>1, <1>3, <1>7
      <3>3. <<part>> # <<>> /\ Len(<<part>>) = 1 /\ <<part>>[1] = part
        OBVIOUS
      <3> QED  BY ONLY <3>1, <3>2, <3>3
    <2>4. Len(part_etags') <= MaxParts
      BY <1>1, <1>3
    <2> QED  BY <1>1, <1>3, <2>1, <2>2, <2>3, <2>4 DEF DataTypeInv
  <1>9. LayoutInv'
    <2> DEFINE e == [i \in 0..1 |-> IF i = 0 THEN bound[L] ELSE next_offset]
    <2>1. bound[L] \in 0..MaxFileSize
      <3>1. L \in 0..L
        BY <1>1
      <3> QED  BY ONLY <1>5, <3>1
    <2>2. e \in [0..1 -> 0..MaxFileSize] /\ e[0] = bound[L] /\ e[1] = next_offset
      BY <1>1, <2>1
    <2> HIDE DEF e
    <2>3. \A n \in 1..1 : e[n - 1] <= e[n]
      BY <1>7, <2>2
    <2>4. \A n \in 1..L : bound[n - 1] <= bound[n]
      BY ONLY <1>5 DEF Layout, L
    <2>5. PICK b \in [0..L + 1 -> 0..MaxFileSize] : Extends(b, bound, L, e, 1)
      <3>1. bound \in [0..L -> 0..MaxFileSize] /\ e \in [0..1 -> 0..MaxFileSize] /\ e[0] = bound[L]
        BY ONLY <1>5, <2>2
      <3>2. L \in Nat /\ 1 \in Nat /\ MaxFileSize \in Nat
        BY <1>1
      <3> QED  BY ONLY <2>3, <2>4, <3>1, <3>2, BoundsExtended
    <2>6. /\ \A n \in 0..L : b[n] = bound[n]
          /\ \A n \in 0..1 : b[L + n] = e[n]
          /\ \A n \in 1..L + 1 : b[n - 1] <= b[n]
      BY ONLY <2>5 DEF Extends
    <2>7. b[0] = 0 /\ b[L] = bound[L] /\ b[L + 1] = next_offset
      <3>1. 0 \in 0..L /\ L \in 0..L /\ 1 \in 0..1
        BY <1>1
      <3>2. bound[0] = 0
        BY ONLY <1>5 DEF Layout
      <3> QED  BY ONLY <2>2, <2>6, <3>1, <3>2
    <2>8. ASSUME NEW n \in 1..Len(part_etags'), part_etags'[n]
          PROVE  stored'[n] = Bytes(b[n - 1], b[n])
      <3>1. n \in 1..L + 1
        BY ONLY <1>3
      <3>2. n <= L /\ part_etags[n]
        BY ONLY <1>3, <2>8, <3>1
      <3>3. n \in 1..L /\ n \in 0..L /\ n - 1 \in 0..L
        BY ONLY <1>1, <3>1, <3>2
      <3>4. stored[n] = Bytes(bound[n - 1], bound[n])
        BY ONLY <1>5, <3>2, <3>3 DEF Layout, L
      <3> QED  BY <2>6, <3>3, <3>4
    <2>9. ASSUME NEW u \in Threads, pc'[u] \in UploadLabels, NEW i \in 1..Len(todo'[u])
          PROVE  todo'[u][i].bytes =
                    Bytes(b[todo'[u][i].part_number - 1], b[todo'[u][i].part_number])
      <3>1. todo'[u] = <<part>>
        BY <1>6, <2>9
      <3>2. todo'[u][i] = part
        BY <2>9, <3>1
      <3>3. (L + 1) - 1 = L
        BY <1>1
      <3> QED  BY ONLY <1>7, <2>7, <3>2, <3>3
    <2>10. \A u \in Threads : Finalizing(u)' => u = t
      BY <1>6 DEF Finalizing
    <2>11. Finalizing(t)'
      BY <1>4, <1>6 DEF Finalizing
    <2>12. b[Len(part_etags')] = next_offset' /\ next_offset' <= next_offset'
      BY <1>1, <1>3, <2>7
    <2>13. \A n \in 1..Len(part_etags') : b[n - 1] <= b[n]
      BY ONLY <1>3, <2>6
    <2>14. \A u \in Threads : Finalizing(u)' =>
              buffered_part' = None /\ Covers(local_buffered_part'[u], b[Len(part_etags')], next_offset')
      BY <1>5, <1>6, <2>10, <2>12 DEF Covers
    <2>15. Layout(b)'
      <3>1. \A n \in 1..Len(part_etags') : part_etags'[n] => stored'[n] = Bytes(b[n - 1], b[n])
        BY ONLY <2>8
      <3>2. \A u \in Threads : pc'[u] \in UploadLabels =>
               \A i \in 1..Len(todo'[u]) :
                   todo'[u][i].bytes =
                       Bytes(b[todo'[u][i].part_number - 1], b[todo'[u][i].part_number])
        BY ONLY <2>9
      <3> QED
        BY ONLY <2>7, <2>11, <2>13, <2>14, <3>1, <3>2, t \in Threads DEF Layout, Covers
    <2> QED  BY <1>3, <2>15 DEF LayoutInv
  <1>10. FinalizeInv'
    BY <1>4, <1>6 DEF FinalizeInv, Finalizing
  <1>11. CursorInv'
    <2>1. length <= next_offset /\ length = next_offset
      BY <1>4 DEF DataInv, CursorInv
    <2> QED  BY <1>4, <1>6, <2>1 DEF CursorInv
  <1>12. ObjectInv'
    BY DEF DataInv, ObjectInv, PublishedObjectIsInput
  <1> QED  BY <1>8, <1>9, <1>10, <1>11, <1>12 DEF DataInv

\* A Finalize chooses how to publish.
LEMMA FinalizeData ==
  ASSUME ControlInv, DataInv, NEW t \in Threads, Finalize(t)
  PROVE  DataInv'
  <1> DEFINE buffer == local_buffered_part[t]
             part == [part_number |-> Len(part_etags) + 1, bytes |-> buffer.bytes]
  <1>1. /\ pc[t] = "Finalize" /\ op[t] = "Finalize"
        /\ UNCHANGED <<next_offset, buffered_part, length, op, arg, stored, object,
                       lifecycle_state, primary_error>>
    BY DEF Finalize, OperationInv
  <1>2. object' \in Seq(Byte) \cup {None} /\ PublishedObjectIsInput'
    BY <1>1 DEF DataInv, DataTypeInv, ObjectInv, PublishedObjectIsInput
  <1>3. CASE part_etags = <<>> /\ Goto(t, "UploadSingle") /\ UNCHANGED <<part_etags, localVars>>
    <2>1. Quiet(t, "UploadSingle")
      BY <1>1, <1>3 DEF Quiet, Publishable, Finalizing, ControlTypeOK
    <2> QED  BY <1>1, <1>2, <1>3, <2>1, FinalizerQuiet
  <1>4. CASE buffer = None /\ Goto(t, "CompleteMultipartUpload") /\ UNCHANGED <<part_etags, localVars>>
    <2>1. Quiet(t, "CompleteMultipartUpload")
      BY <1>1, <1>4 DEF Quiet, Publishable, Finalizing, ControlTypeOK
    <2> QED  BY <1>1, <1>2, <1>4, <2>1, FinalizerQuiet
  <1>5. CASE /\ buffer # None /\ HasPartCapacity(Len(part_etags)) /\ Reserve(<<buffer>>)
             /\ todo' = [todo EXCEPT ![t] = <<part>>]
             /\ local_buffered_part' = [local_buffered_part EXCEPT ![t] = None]
             /\ Goto(t, "EnsureMultipartUpload")
    <2>1. /\ buffer = local_buffered_part[t]
          /\ part = [part_number |-> Len(part_etags) + 1, bytes |-> buffer.bytes]
          /\ pc' = [pc EXCEPT ![t] = "EnsureMultipartUpload"]
      BY <1>5
    <2>2. UNCHANGED <<next_offset, buffered_part, length, op, arg, stored, object,
                      lifecycle_state, primary_error>>
      BY <1>1
    <2> HIDE DEF buffer, part
    <2> QED  BY ONLY ControlInv, DataInv, t \in Threads, <1>1, <1>5, <2>1, <2>2, FlushData
  <1>6. CASE Throw(t, "DEFINITIVE") /\ UNCHANGED part_etags
    <2>1. pc' = [pc EXCEPT ![t] = "LatchFailure"] /\ UNCHANGED <<todo, local_buffered_part>>
      BY <1>6 DEF Throw
    <2>2. DataTypeInv'
      BY <1>1, <1>6, <2>1 DEF DataInv, DataTypeInv, ControlTypeOK
    <2> QED  BY <1>1, <1>2, <2>1, <2>2, ThrowData
  <1> QED  BY <1>3, <1>4, <1>5, <1>6 DEF Finalize

\* Every step keeps the data invariant.
LEMMA NextKeepsData ==
  ASSUME ControlInv, DataInv, [Next]_vars
  PROVE  DataInv'
  <1>1. CASE UNCHANGED vars
    <2>1. UNCHANGED <<next_offset, buffered_part, part_etags, length, arg, op, pc, todo, stored,
                      local_buffered_part, object, lifecycle_state, primary_error>>
      BY <1>1 DEF vars
    <2>2. DataTypeInv' /\ CursorInv' /\ ObjectInv'
      BY <2>1 DEF DataInv, DataTypeInv, CursorInv, ObjectInv, PublishedObjectIsInput
    <2>3. LayoutInv'
      BY SMTT(40), <2>1 DEF DataInv, LayoutInv, Publishable, Layout, Finalizing, Covers
    <2>4. FinalizeInv'
      BY <2>1 DEF DataInv, FinalizeInv, Finalizing
    <2> QED  BY <2>2, <2>3, <2>4 DEF DataInv
  <1>2. ASSUME NEW t \in Threads, Calls(t)
        PROVE  DataInv'
    BY <1>2, CallsData
  <1>3. ASSUME NEW t \in Threads, Step(t)
        PROVE  DataInv'
    <2>1. CASE \/ BeginWriteOperation(t) \/ LatchFailure(t) \/ ReleaseOperation(t)
               \/ ReleaseWait(t) \/ ReleaseCleanup(t) \/ EnsureMultipartUpload(t)
               \/ InitializeMultipartUpload(t) \/ ThrowIfFailed(t) \/ Abort(t)
               \/ AbortDrain(t) \/ AbortFailureWait(t) \/ AbortCleanup(t)
      <3>1. Harmless(t)
        BY ONLY ControlInv, DataInv, t \in Threads, <2>1, BeginWriteOperationHarmless,
           LatchFailureHarmless, ReleaseOperationHarmless, ReleaseWaitHarmless,
           ReleaseCleanupHarmless, EnsureMultipartUploadHarmless,
           InitializeMultipartUploadHarmless, ThrowIfFailedHarmless, AbortHarmless,
           AbortDrainHarmless, AbortFailureWaitHarmless, AbortCleanupHarmless
      <3> QED  BY ONLY ControlInv, DataInv, t \in Threads, <3>1, HarmlessPreserves
    <2>2. CASE BeginFinalize(t) \/ PrepareWrite(t) \/ UploadPart(t) \/ UpdateCursor(t)
      BY ONLY ControlInv, DataInv, t \in Threads, <2>2, BeginFinalizeData, PrepareWriteData,
         UploadPartData, UpdateCursorData
    <2>3. CASE \/ Finalize(t) \/ UploadSingle(t) \/ CompleteMultipartUpload(t)
               \/ ReceiveCompletion(t) \/ FinishFinalize(t)
      BY ONLY ControlInv, DataInv, t \in Threads, <2>3, FinalizeData, UploadSingleData,
         CompleteMultipartUploadData, ReceiveCompletionData, FinishFinalizeData
    <2> QED  BY ONLY <1>3, <2>1, <2>2, <2>3 DEF Step
  <1> QED  BY <1>1, <1>2, <1>3 DEF Next

\* The session starts within it.
LEMMA InitData ==
  ASSUME Init
  PROVE  DataInv
  <1>1. DataTypeInv
    BY DEF Init, DataTypeInv
  <1>2. LayoutInv
    <2> DEFINE b == [n \in 0..0 |-> 0]
    <2>1. Len(part_etags) = 0 /\ buffered_part = None /\ next_offset = 0 /\ part_etags = <<>>
          /\ \A t \in Threads : pc[t] = "Idle"
      BY DEF Init
    <2>2. b \in [0..0 -> 0..MaxFileSize] /\ b[0] = 0
      OBVIOUS
    <2>3. \A t \in Threads : ~Finalizing(t) /\ pc[t] \notin UploadLabels
      BY <2>1 DEF Finalizing
    <2> HIDE DEF b
    <2>4. Layout(b)
      BY <2>1, <2>2, <2>3 DEF Layout, Covers
    <2> QED  BY <2>1, <2>2, <2>4 DEF LayoutInv
  <1>3. FinalizeInv /\ CursorInv /\ ObjectInv
    BY DEF Init, FinalizeInv, Finalizing, CursorInv, ObjectInv, PublishedObjectIsInput
  <1> QED  BY <1>1, <1>2, <1>3 DEF DataInv

-----------------------------------------------------------------------------
(* What holds of the bytes of every upload, for all constants. *)

\* In every reachable state of a session the accepted input is in the parts, stored or
\* still to be uploaded, and in one buffer, in order and without gap or overlap, unless
\* the upload has failed or is about to.
THEOREM DataInvariant == Spec => [](ControlInv /\ DataInv)
  <1>1. Init => ControlInv /\ DataInv
    BY InitControl, InitData
  <1>2. ControlInv /\ DataInv /\ [Next]_vars => (ControlInv /\ DataInv)'
    BY NextPreserves, NextKeepsData
  <1> QED  BY <1>1, <1>2, PTL DEF Spec

\* Every variable of a session has its type, and no more is accepted than the maximum file
\* size: the limits that PrepareWrite checks are enough.
THEOREM SessionTypes == Spec => []TypeOK
  <1>1. ControlInv /\ DataInv => TypeOK
    BY DEF TypeOK, DataInv, DataTypeInv
  <1> QED  BY <1>1, DataInvariant, PTL

\* What Finalize publishes is the accepted input, every byte once and in order.
THEOREM PublishesInput == Spec => []PublishedObjectIsInput
  <1>1. DataInv => PublishedObjectIsInput
    BY DEF DataInv, ObjectInv
  <1> QED  BY <1>1, DataInvariant, PTL

\* A finalized upload is published, without failure and with the handle's length.
THEOREM FinalizedIsComplete == Spec => []FinalizedObjectComplete
  <1>1. ASSUME ControlInv, DataInv, lifecycle_state = "FINALIZED"
        PROVE  object # None /\ ~failed /\ length = next_offset
    <2>1. Operating = {} /\ ~failed
      BY <1>1 DEF CleanupInv
    <2>2. \A t \in Threads : pc[t] \notin OperationLabels
      BY <2>1 DEF Operating
    <2>3. length = next_offset
      BY <1>1, <2>1, <2>2 DEF DataInv, CursorInv
    <2>4. object # None
      BY <1>1 DEF DataInv, ObjectInv
    <2> QED  BY <2>1, <2>3, <2>4
  <1>2. ControlInv /\ DataInv => FinalizedObjectComplete
    BY <1>1 DEF FinalizedObjectComplete
  <1> QED  BY <1>2, DataInvariant, PTL

-----------------------------------------------------------------------------
(* The session implements the atomic upload. *)

\* The session has neither published nor aborted nor failed.
Undecided == ~failed /\ lifecycle_state \notin {"FINALIZED", "ABORTED"}

\* What each step of the session is to its callers.
Stutters ==
    /\ UNCHANGED <<primary_error, next_offset, object>>
    /\ failed \/ UNCHANGED lifecycle_state
       \/ {lifecycle_state, lifecycle_state'} \cap {"FINALIZED", "ABORTED"} = {}
AcceptsInput ==
    /\ Undecided /\ object = None
    /\ next_offset' \in Nat /\ next_offset' > next_offset
    /\ UNCHANGED <<primary_error, lifecycle_state, object>>
Publishes ==
    /\ Undecided /\ object = None
    /\ object' = Bytes(0, next_offset)
    /\ UNCHANGED <<primary_error, lifecycle_state, next_offset>>
Ends ==
    /\ Undecided
    /\ \/ object # None /\ lifecycle_state' = "FINALIZED"
       \/ object = None /\ lifecycle_state' = "ABORTED"
    /\ UNCHANGED <<primary_error, next_offset, object>>
Fails ==
    /\ Undecided
    /\ primary_error' \in Threads
    /\ UNCHANGED <<next_offset, object>>

Visible == Stutters \/ AcceptsInput \/ Publishes \/ Ends \/ Fails

\* Each of these is a step of the atomic upload, or none.
LEMMA VisibleStep ==
  ASSUME next_offset \in Nat, Visible
  PROVE  [Atomic!UploadNext]_(Atomic!uploadVars)
  <1>1. CASE Stutters
    BY <1>1 DEF Stutters, Atomic!uploadVars
  <1>2. CASE AcceptsInput
    <2>1. Atomic!Accept
      BY <1>2 DEF AcceptsInput, Undecided, Atomic!Accept
    <2> QED  BY <2>1 DEF Atomic!UploadNext
  <1>3. CASE Publishes
    <2>1. Bytes(0, next_offset) = [i \in 1..next_offset |-> i - 1]
      <3>1. next_offset - 0 = next_offset /\ \A i \in 1..next_offset : 0 + i - 1 = i - 1
        OBVIOUS
      <3>2. Bytes(0, next_offset) = [i \in 1..(next_offset - 0) |-> 0 + i - 1]
        BY DEF Bytes
      <3> QED  BY <3>1, <3>2
    <2>2. Atomic!Publish
      BY <1>3, <2>1 DEF Publishes, Undecided, Atomic!Publish
    <2> QED  BY <2>2 DEF Atomic!UploadNext
  <1>4. CASE Ends
    <2>1. Atomic!Finish \/ Atomic!Abort
      BY <1>4 DEF Ends, Undecided, Atomic!Finish, Atomic!Abort
    <2> QED  BY <2>1 DEF Atomic!UploadNext
  <1>5. CASE Fails
    <2>1. primary_error' # None
      BY <1>5 DEF Fails
    <2>2. Atomic!Fail(primary_error')
      BY <1>5, <2>1 DEF Fails, Undecided, Atomic!Fail
    <2> QED  BY <1>5, <2>2 DEF Fails, Atomic!UploadNext
  <1> QED  BY <1>1, <1>2, <1>3, <1>4, <1>5 DEF Visible

\* An operation in progress that has not failed: the session is undecided.
LEMMA OperationUndecided ==
  ASSUME ControlInv, NEW t \in Threads, pc[t] \in OperationLabels
  PROVE  failed \/ Undecided
  BY DEF CleanupInv, Operating, Undecided

\* Every step of a session is one of them.
LEMMA StepVisible ==
  ASSUME ControlInv, DataInv, NEW t \in Threads, Step(t), DataInv'
  PROVE  Visible
  <1>1. CASE \/ BeginWriteOperation(t) \/ ReleaseOperation(t) \/ ReleaseWait(t)
             \/ ReleaseCleanup(t) \/ EnsureMultipartUpload(t) \/ ThrowIfFailed(t)
             \/ UploadPart(t) \/ UpdateCursor(t) \/ Finalize(t) \/ CompleteMultipartUpload(t)
    <2>1. UNCHANGED <<primary_error, next_offset, object, lifecycle_state>>
      BY <1>1 DEF BeginWriteOperation, ReleaseOperation, ReleaseWait, ReleaseCleanup,
         AbortMultipartUpload, EnsureMultipartUpload, ThrowIfFailed, UploadPart, PutPart,
         UpdateCursor, Finalize, CompleteMultipartUpload
    <2> QED  BY <2>1 DEF Visible, Stutters
  <1>2. CASE BeginFinalize(t)
    BY <1>2 DEF BeginFinalize, FinalizeRefused, Visible, Stutters
  <1>3. CASE PrepareWrite(t)
    <2>1. /\ pc[t] = "PrepareWrite" /\ op[t] = "Write"
          /\ UNCHANGED <<primary_error, object, lifecycle_state>>
          /\ \/ UNCHANGED next_offset
             \/ ~failed /\ next_offset' = next_offset + arg[t].size
      BY <1>3 DEF PrepareWrite, Rejects, OperationInv
    <2>2. next_offset \in Nat /\ arg[t].size \in Nat
      BY DEF DataInv, DataTypeInv
    <2>3. CASE UNCHANGED next_offset
      BY <2>1, <2>3 DEF Visible, Stutters
    <2>4. CASE next_offset' # next_offset
      <3>1. Undecided /\ object = None
        BY <2>1, <2>4, OperationUndecided, WriterExcludesFinalize
      <3> QED  BY <2>1, <2>2, <2>4, <3>1 DEF Visible, AcceptsInput
    <2> QED  BY <2>3, <2>4
  <1>4. CASE InitializeMultipartUpload(t) \/ LatchFailure(t)
    <2>1. /\ pc[t] \in OperationLabels
          /\ UNCHANGED <<next_offset, object>>
          /\ \/ UNCHANGED <<primary_error, lifecycle_state>>
             \/ failed /\ UNCHANGED primary_error
             \/ ~failed /\ primary_error' = t
      BY <1>4 DEF InitializeMultipartUpload, LatchFailure, LatchFailureLocked
    <2> QED  BY <2>1, OperationUndecided DEF Visible, Stutters, Fails
  <1>5. CASE UploadSingle(t) \/ ReceiveCompletion(t)
    <2>1. /\ pc[t] \in FinalizeLabels
          /\ UNCHANGED <<primary_error, next_offset, lifecycle_state>>
      BY <1>5 DEF UploadSingle, ReceiveCompletion
    <2>2. UNCHANGED object \/ object' = Bytes(0, next_offset)
      BY <1>5, SingleIsInput, CompletionIsInput DEF UploadSingle, ReceiveCompletion
    <2>3. Undecided
      BY <2>1, FinalizerLayout DEF Undecided
    <2>4. object # None => object = Bytes(0, next_offset)
      BY DEF DataInv, ObjectInv, PublishedObjectIsInput
    <2> QED  BY <2>1, <2>2, <2>3, <2>4 DEF Visible, Stutters, Publishes
  <1>6. CASE FinishFinalize(t)
    <2>1. /\ pc[t] \in FinalizeLabels /\ lifecycle_state' = "FINALIZED"
          /\ UNCHANGED <<primary_error, next_offset, object>>
      BY <1>6 DEF FinishFinalize
    <2>2. Undecided /\ object # None
      BY <2>1, FinalizerLayout DEF Undecided, DataInv, ObjectInv
    <2> QED  BY <2>1, <2>2 DEF Visible, Ends
  <1>7. CASE Abort(t) \/ AbortDrain(t)
    <2>1. /\ UNCHANGED <<primary_error, next_offset, object>>
          /\ \/ UNCHANGED lifecycle_state
             \/ /\ lifecycle_state \in {"ACTIVE", "ABORTING"}
                /\ lifecycle_state' \in {"ABORTING", "ABORTED"}
      BY <1>7 DEF Abort, AbortDrain, AbortDrained, CleanupInv, AbortOwners
    <2>2. ~failed /\ lifecycle_state \in {"ACTIVE", "ABORTING"} => object = None
      BY DEF StoreInv
    <2> QED  BY <2>1, <2>2 DEF Visible, Stutters, Ends, Undecided
  <1>8. CASE AbortFailureWait(t)
    BY <1>8 DEF AbortFailureWait, CleanupInv, Visible, Stutters
  <1>9. CASE AbortCleanup(t)
    <2>1. /\ UNCHANGED <<primary_error, next_offset, object>>
          /\ lifecycle_state = "ABORTING" /\ lifecycle_state' = "ABORTED" /\ ~failed
      BY <1>9 DEF AbortCleanup, AbortMultipartUpload, CleanupInv, AbortOwners
    <2>2. object = None
      BY <2>1 DEF StoreInv
    <2> QED  BY <2>1, <2>2 DEF Visible, Ends, Undecided
  <1> QED
    BY ONLY Step(t), <1>1, <1>2, <1>3, <1>4, <1>5, <1>6, <1>7, <1>8, <1>9 DEF Step

\* The session is an atomic upload, for all constants: whatever its threads do and whatever
\* the store's answers, each step is one of the atomic upload or changes nothing of it.
THEOREM UploadIsAtomic == Spec => ImplementsAtomicUpload
  <1>1. Init => Atomic!UploadInit
    BY DEF Init, Atomic!UploadInit
  <1>2. ASSUME ControlInv, DataInv, [Next]_vars
        PROVE  [Atomic!UploadNext]_(Atomic!uploadVars)
    <2>1. DataInv' /\ next_offset \in Nat
      BY SMTT(40), <1>2, NextKeepsData DEF DataInv, DataTypeInv
    <2>2. Visible
      <3>1. CASE UNCHANGED vars
        BY <3>1 DEF vars, Visible, Stutters
      <3>2. ASSUME NEW t \in Threads, Calls(t)
            PROVE  Visible
        BY <3>2 DEF Calls, CallWrite, CallFinalize, CallAbort, Enter, Visible, Stutters
      <3>3. ASSUME NEW t \in Threads, Step(t)
            PROVE  Visible
        BY <1>2, <2>1, <3>3, StepVisible
      <3> QED  BY <1>2, <3>1, <3>2, <3>3 DEF Next
    <2> QED  BY <2>1, <2>2, VisibleStep
  <1> QED
    BY <1>1, <1>2, DataInvariant, PTL DEF Spec, ImplementsAtomicUpload, Atomic!UploadSpec
=============================================================================
