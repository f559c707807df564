--------------------------- MODULE S3UploadSizedProofs ---------------------------
(* The sizes of an upload's parts: the schedule that S3UploadConfig makes for the   *)
(* limits of a session has room for the largest file and no less would do, and a    *)
(* session that follows it never runs out of part numbers, however its input is     *)
(* cut into writes.                                                                 *)
EXTENDS S3UploadSized, S3UploadDataProofs

-----------------------------------------------------------------------------
(* Recursion over the naturals. *)

\* What holds of zero, and of a number's successor where it holds of the number, holds of
\* all; the property is given by the set of the numbers that have it.
LEMMA NatSetInduction ==
  ASSUME NEW T, 0 \in T, \A n \in Nat : n \in T => n + 1 \in T
  PROVE  Nat \subseteq T
  <1> DEFINE Wrong == {n \in Nat : n \notin T}
  <1>1. SUFFICES ASSUME Wrong # {} PROVE FALSE
    OBVIOUS
  <1>2. Wrong \in SUBSET Nat
    OBVIOUS
  <1>3. PICK n \in Wrong : \A k \in Wrong : n <= k
    BY <1>1, <1>2, LeastNumber
  <1>4. n # 0 /\ n - 1 \in Nat /\ ~(n <= n - 1)
    OBVIOUS
  <1>5. n - 1 \in T
    BY <1>3, <1>4
  <1>6. (n - 1) + 1 \in T /\ (n - 1) + 1 = n
    BY <1>4, <1>5
  <1> QED  BY <1>6

\* The values up to n of the function that starts with start and goes on by F.
Runs(g, n, V, start, F) ==
    /\ g \in [0..n -> V]
    /\ \A i \in 0..n : g[i] = IF i = 0 THEN start ELSE F[<<i - 1, g[i - 1]>>]

\* Such values exist up to every n.
LEMMA RunExists ==
  ASSUME NEW V, NEW start \in V, NEW F \in [Nat \X V -> V], NEW n \in Nat
  PROVE  \E g : Runs(g, n, V, start, F)
  <1> DEFINE T == {k \in Nat : \E g : Runs(g, k, V, start, F)}
  <1>1. 0 \in T
    <2> DEFINE g == [i \in 0..0 |-> start]
    <2>1. Runs(g, 0, V, start, F)
      BY DEF Runs
    <2> QED  BY <2>1
  <1>2. ASSUME NEW k \in Nat, k \in T PROVE k + 1 \in T
    <2>1. PICK g : Runs(g, k, V, start, F)
      BY <1>2
    <2>2. /\ g \in [0..k -> V] /\ k \in 0..k
          /\ \A i \in 0..k : g[i] = IF i = 0 THEN start ELSE F[<<i - 1, g[i - 1]>>]
      BY <2>1 DEF Runs
    <2> DEFINE next == F[<<k, g[k]>>]
               h == [i \in 0..(k + 1) |-> IF i = k + 1 THEN next ELSE g[i]]
    <2>3. next \in V
      BY <2>2
    <2> HIDE DEF next
    <2>4. h \in [0..(k + 1) -> V]
      BY <2>2, <2>3
    <2>5. ASSUME NEW i \in 0..(k + 1)
          PROVE  h[i] = IF i = 0 THEN start ELSE F[<<i - 1, h[i - 1]>>]
      <3>1. CASE i = k + 1
        <4>1. i # 0 /\ i - 1 = k /\ k \in 0..(k + 1) /\ k # k + 1
          BY <3>1
        <4>2. h[i] = next /\ h[k] = g[k]
          BY <3>1, <4>1
        <4> HIDE DEF h
        <4> QED  BY <4>1, <4>2 DEF next
      <3>2. CASE i # k + 1
        <4>1. i \in 0..k /\ (i # 0 => i - 1 \in 0..(k + 1) /\ i - 1 # k + 1)
          BY <3>2
        <4>2. h[i] = g[i] /\ (i # 0 => h[i - 1] = g[i - 1])
          BY <3>2, <4>1
        <4> HIDE DEF h
        <4> QED  BY <2>2, <4>1, <4>2
      <3> QED  BY <3>1, <3>2
    <2> HIDE DEF h
    <2>6. Runs(h, k + 1, V, start, F)
      BY <2>4, <2>5 DEF Runs
    <2> QED  BY <2>6
  <1> HIDE DEF T
  <1>3. Nat \subseteq T
    BY <1>1, <1>2, NatSetInduction
  <1> QED  BY <1>3 DEF T

\* Two such functions agree where both are defined.
LEMMA RunsAgree ==
  ASSUME NEW V, NEW start \in V, NEW F \in [Nat \X V -> V], NEW n \in Nat, NEW m \in Nat,
         NEW g, Runs(g, n, V, start, F), NEW h, Runs(h, m, V, start, F)
  PROVE  \A i \in Nat : i <= n /\ i <= m => g[i] = h[i]
  <1> DEFINE T == {i \in Nat : i <= n /\ i <= m => g[i] = h[i]}
  <1>1. 0 \in T
    <2>1. 0 \in 0..n /\ 0 \in 0..m
      OBVIOUS
    <2>2. g[0] = start /\ h[0] = start
      BY <2>1 DEF Runs
    <2> QED  BY <2>2
  <1>2. ASSUME NEW i \in Nat, i \in T PROVE i + 1 \in T
    <2>1. SUFFICES ASSUME i + 1 <= n, i + 1 <= m PROVE g[i + 1] = h[i + 1]
      OBVIOUS
    <2>2. i + 1 \in 0..n /\ i + 1 \in 0..m /\ i + 1 # 0 /\ (i + 1) - 1 = i /\ i <= n /\ i <= m
      BY <2>1
    <2>3. g[i] = h[i]
      BY <1>2, <2>2
    <2>4. g[i + 1] = F[<<i, g[i]>>]
      BY <2>2 DEF Runs
    <2>5. h[i + 1] = F[<<i, h[i]>>]
      BY <2>2 DEF Runs
    <2> QED  BY <2>3, <2>4, <2>5
  <1> HIDE DEF T
  <1>3. Nat \subseteq T
    BY <1>1, <1>2, NatSetInduction
  <1> QED  BY <1>3 DEF T

\* The function itself.
Follows(f, V, start, F) ==
    /\ f \in [Nat -> V]
    /\ \A n \in Nat : f[n] = IF n = 0 THEN start ELSE F[<<n - 1, f[n - 1]>>]

\* So a recursive function on the naturals exists.
LEMMA RecursionExists ==
  ASSUME NEW V, NEW start \in V, NEW F \in [Nat \X V -> V]
  PROVE  \E f : Follows(f, V, start, F)
  <1> DEFINE run(n) == CHOOSE g : Runs(g, n, V, start, F)
             f == [n \in Nat |-> run(n)[n]]
  <1>1. ASSUME NEW n \in Nat PROVE Runs(run(n), n, V, start, F)
    BY RunExists
  <1> HIDE DEF run
  <1>2. f \in [Nat -> V]
    <2>1. ASSUME NEW n \in Nat PROVE run(n)[n] \in V
      BY <1>1 DEF Runs
    <2> QED  BY <2>1
  <1>3. ASSUME NEW n \in Nat
        PROVE  f[n] = IF n = 0 THEN start ELSE F[<<n - 1, f[n - 1]>>]
    <2>1. f[n] = run(n)[n]
      OBVIOUS
    <2>2. CASE n = 0
      <3>1. Runs(run(0), 0, V, start, F)
        BY <1>1
      <3>2. run(0)[0] = start
        BY <3>1 DEF Runs
      <3> QED  BY <2>1, <2>2, <3>2
    <2>3. CASE n # 0
      <3>1. n - 1 \in Nat /\ n \in 0..n /\ n - 1 <= n /\ n - 1 <= n - 1
        BY <2>3
      <3>2. Runs(run(n), n, V, start, F) /\ Runs(run(n - 1), n - 1, V, start, F)
        BY <1>1, <3>1
      <3>3. run(n)[n] = F[<<n - 1, run(n)[n - 1]>>]
        BY <2>3, <3>1, <3>2 DEF Runs
      <3>4. run(n)[n - 1] = run(n - 1)[n - 1]
        <4> DEFINE a == run(n)
                   b == run(n - 1)
                   m == n - 1
        <4>1. m \in Nat /\ Runs(a, n, V, start, F) /\ Runs(b, m, V, start, F)
          BY <3>1, <3>2
        <4> HIDE DEF a, b, m
        <4>2. \A i \in Nat : i <= n /\ i <= m => a[i] = b[i]
          BY SMTT(40), <4>1, RunsAgree
        <4> QED  BY <3>1, <4>2 DEF a, b, m
      <3>5. f[n - 1] = run(n - 1)[n - 1]
        BY <3>1
      <3> QED  BY <2>1, <2>3, <3>3, <3>4, <3>5
    <2> QED  BY <2>2, <2>3
  <1> HIDE DEF f
  <1>4. Follows(f, V, start, F)
    BY <1>2, <1>3 DEF Follows
  <1> QED  BY <1>4

-----------------------------------------------------------------------------
(* The schedule. *)

USE ConfigAssumption DEF ConfigAssumption

\* The lesser of two integers.
LEMMA MinOfInts ==
  ASSUME NEW a \in Int, NEW b \in Int
  PROVE  Min({a, b}) = IF a <= b THEN a ELSE b
  <1> DEFINE m == IF a <= b THEN a ELSE b
  <1>1. m \in {a, b} /\ \A y \in {a, b} : m <= y
    OBVIOUS
  <1>2. \A x \in {a, b} : (\A y \in {a, b} : x <= y) => x = m
    OBVIOUS
  <1> HIDE DEF m
  <1>3. Min({a, b}) = m
    BY <1>1, <1>2 DEF Min
  <1> QED  BY <1>3 DEF m

\* What an initial size may be.
Initial == 1..MAX_MULTIPART_PART_SIZE

\* The size of the parts of each tier.
IsSizes(f, initial) ==
    f = [doubling_count \in Nat |->
            IF doubling_count = 0 THEN initial
            ELSE Min({2 * f[doubling_count - 1], MAX_MULTIPART_PART_SIZE})]
Sizes(initial) == CHOOSE f : IsSizes(f, initial)

\* The recursive function of ScheduledPartSize exists: each tier doubles the last, up to the limit.
LEMMA SizesFacts ==
  ASSUME NEW initial \in Initial
  PROVE  /\ Sizes(initial) \in [Nat -> Initial]
         /\ Sizes(initial)[0] = initial
         /\ \A n \in Nat : Sizes(initial)[n + 1] =
               IF 2 * Sizes(initial)[n] <= MAX_MULTIPART_PART_SIZE
               THEN 2 * Sizes(initial)[n] ELSE MAX_MULTIPART_PART_SIZE
  <1> DEFINE M == MAX_MULTIPART_PART_SIZE
             F == [p \in Nat \X Initial |-> IF 2 * p[2] <= M THEN 2 * p[2] ELSE M]
  <1>1. F \in [Nat \X Initial -> Initial]
    BY DEF Initial
  <1>2. ASSUME NEW n \in Nat, NEW x \in Initial
        PROVE  /\ F[<<n, x>>] = IF 2 * x <= M THEN 2 * x ELSE M
               /\ Min({2 * x, M}) = F[<<n, x>>]
    <2>1. F[<<n, x>>] = IF 2 * x <= M THEN 2 * x ELSE M
      OBVIOUS
    <2>2. 2 * x \in Int /\ M \in Int
      BY DEF Initial
    <2>3. Min({2 * x, M}) = IF 2 * x <= M THEN 2 * x ELSE M
      BY <2>2, MinOfInts
    <2> QED  BY <2>1, <2>3
  <1> HIDE DEF F
  <1>a. PICK f : Follows(f, Initial, initial, F)
    BY <1>1, RecursionExists
  <1>3. /\ f \in [Nat -> Initial]
        /\ \A n \in Nat : f[n] = IF n = 0 THEN initial ELSE F[<<n - 1, f[n - 1]>>]
    BY <1>a DEF Follows
  <1>4. IsSizes(f, initial)
    <2>1. ASSUME NEW n \in Nat
          PROVE  f[n] = IF n = 0 THEN initial ELSE Min({2 * f[n - 1], M})
      <3>1. CASE n = 0
        BY <1>3, <3>1
      <3>2. CASE n # 0
        <4>1. n - 1 \in Nat /\ f[n - 1] \in Initial
          BY <1>3, <3>2
        <4> QED  BY <1>2, <1>3, <3>2, <4>1
      <3> QED  BY <3>1, <3>2
    <2>2. f = [n \in Nat |-> f[n]]
      BY <1>3
    <2> QED  BY <2>1, <2>2 DEF IsSizes
  <1> DEFINE s == Sizes(initial)
  <1>5. IsSizes(s, initial)
    BY <1>4 DEF Sizes
  <1> HIDE DEF s
  <1>6. s[0] = initial
    BY <1>5 DEF IsSizes
  <1>7. ASSUME NEW n \in Nat PROVE s[n + 1] = Min({2 * s[n], M})
    <2>1. n + 1 \in Nat /\ n + 1 # 0 /\ (n + 1) - 1 = n
      OBVIOUS
    <2> QED  BY <1>5, <2>1 DEF IsSizes
  <1>8. ASSUME NEW n \in Nat PROVE s[n] \in Initial
    <2> DEFINE T == {k \in Nat : s[k] \in Initial}
    <2>1. 0 \in T
      BY <1>6
    <2>2. ASSUME NEW k \in Nat, k \in T PROVE k + 1 \in T
      <3>1. s[k] \in Initial
        BY <2>2
      <3>2. s[k + 1] = F[<<k, s[k]>>]
        BY <1>2, <1>7, <3>1
      <3>3. F[<<k, s[k]>>] \in Initial
        BY <1>1, <3>1
      <3> QED  BY <3>2, <3>3
    <2> HIDE DEF T
    <2>3. Nat \subseteq T
      BY <2>1, <2>2, NatSetInduction
    <2> QED  BY <2>3 DEF T
  <1>9. s \in [Nat -> Initial]
    <2>1. s = [n \in Nat |-> s[n]]
      BY <1>5 DEF IsSizes
    <2> QED  BY <1>8, <2>1
  <1>10. ASSUME NEW n \in Nat PROVE s[n + 1] = IF 2 * s[n] <= M THEN 2 * s[n] ELSE M
    <2> DEFINE x == s[n]
    <2>1. x \in Initial /\ s[n + 1] = Min({2 * x, M})
      BY <1>7, <1>8
    <2> HIDE DEF x
    <2>2. s[n + 1] = F[<<n, x>>] /\ F[<<n, x>>] = IF 2 * x <= M THEN 2 * x ELSE M
      BY <1>2, <2>1
    <2> QED  BY <2>2 DEF x
  <1> QED  BY <1>6, <1>9, <1>10 DEF s

\* A part has the size of its tier.
LEMMA ScheduledSize ==
  ASSUME NEW initial, NEW g, NEW n
  PROVE  ScheduledPartSize(initial, g, n) = Sizes(initial)[n \div g]
  BY DEF ScheduledPartSize, Sizes, IsSizes

\* The sizes grow with the tiers, and with the initial size.
LEMMA SizesGrow ==
  ASSUME NEW initial \in Initial
  PROVE  \A n \in Nat : Sizes(initial)[n] <= Sizes(initial)[n + 1]
  <1> DEFINE s == Sizes(initial)
  <1>1. /\ s \in [Nat -> Initial]
        /\ \A n \in Nat : s[n + 1] = IF 2 * s[n] <= MAX_MULTIPART_PART_SIZE
                                     THEN 2 * s[n] ELSE MAX_MULTIPART_PART_SIZE
    BY SizesFacts
  <1> HIDE DEF s
  <1>2. ASSUME NEW n \in Nat PROVE s[n] <= s[n + 1]
    <2>1. s[n] \in Nat /\ s[n] <= MAX_MULTIPART_PART_SIZE
      BY <1>1 DEF Initial
    <2> QED  BY <1>1, <2>1
  <1> QED  BY <1>2 DEF s

\* A larger initial size makes no tier smaller.
LEMMA SizesMonotone ==
  ASSUME NEW i \in Initial, NEW j \in Initial, i <= j
  PROVE  \A n \in Nat : Sizes(i)[n] <= Sizes(j)[n]
  <1> DEFINE a == Sizes(i)
             b == Sizes(j)
             T == {n \in Nat : a[n] <= b[n]}
  <1>1. /\ a \in [Nat -> Initial] /\ a[0] = i
        /\ \A n \in Nat : a[n + 1] = IF 2 * a[n] <= MAX_MULTIPART_PART_SIZE
                                     THEN 2 * a[n] ELSE MAX_MULTIPART_PART_SIZE
    BY SizesFacts
  <1>2. /\ b \in [Nat -> Initial] /\ b[0] = j
        /\ \A n \in Nat : b[n + 1] = IF 2 * b[n] <= MAX_MULTIPART_PART_SIZE
                                     THEN 2 * b[n] ELSE MAX_MULTIPART_PART_SIZE
    BY SizesFacts
  <1> HIDE DEF a, b
  <1>3. 0 \in T
    BY <1>1, <1>2
  <1>4. ASSUME NEW n \in Nat, n \in T PROVE n + 1 \in T
    <2>1. a[n] \in Nat /\ b[n] \in Nat /\ a[n] <= b[n]
      BY SMTT(40), <1>1, <1>2, <1>4 DEF Initial
    <2>2. a[n + 1] <= b[n + 1]
      BY <1>1, <1>2, <2>1
    <2> QED  BY <2>2
  <1> HIDE DEF T
  <1>5. Nat \subseteq T
    BY <1>3, <1>4, NatSetInduction
  <1> QED  BY <1>5 DEF T, a, b

\* The room in the parts up to each one.
IsRoom(f, initial, g) ==
    f = [n \in Nat |-> IF n = 0 THEN 0 ELSE f[n - 1] + ScheduledPartSize(initial, g, n - 1)]
Room(initial, g) == CHOOSE f : IsRoom(f, initial, g)

\* The recursive function of Capacity exists: each part adds its size.
LEMMA RoomFacts ==
  ASSUME NEW initial \in Initial, NEW g \in Nat \ {0}
  PROVE  /\ Room(initial, g) \in [Nat -> Nat]
         /\ Room(initial, g)[0] = 0
         /\ \A n \in Nat : Room(initial, g)[n + 1] = Room(initial, g)[n] + Sizes(initial)[n \div g]
         /\ \A n \in Nat : Sizes(initial)[n \div g] \in Initial
  <1> DEFINE d == Sizes(initial)
             F == [p \in Nat \X Nat |-> p[2] + d[p[1] \div g]]
  <1>0. d \in [Nat -> Initial]
    BY SizesFacts
  <1> HIDE DEF d
  <1>1. ASSUME NEW n \in Nat PROVE n \div g \in Nat /\ d[n \div g] \in Initial
    <2>1. n \div g \in Nat
      OBVIOUS
    <2> QED  BY <1>0, <2>1
  <1>2. F \in [Nat \X Nat -> Nat]
    BY <1>1 DEF Initial
  <1>3. ASSUME NEW n \in Nat, NEW x \in Nat PROVE F[<<n, x>>] = x + d[n \div g]
    OBVIOUS
  <1> HIDE DEF F
  <1>a. PICK f : Follows(f, Nat, 0, F)
    BY <1>2, RecursionExists
  <1>4. /\ f \in [Nat -> Nat]
        /\ \A n \in Nat : f[n] = IF n = 0 THEN 0 ELSE F[<<n - 1, f[n - 1]>>]
    BY <1>a DEF Follows
  <1>5. IsRoom(f, initial, g)
    <2>1. ASSUME NEW n \in Nat
          PROVE  f[n] = IF n = 0 THEN 0 ELSE f[n - 1] + ScheduledPartSize(initial, g, n - 1)
      <3>1. CASE n = 0
        BY <1>4, <3>1
      <3>2. CASE n # 0
        <4>1. n - 1 \in Nat /\ f[n - 1] \in Nat
          BY <1>4, <3>2
        <4>2. f[n] = f[n - 1] + d[(n - 1) \div g]
          BY <1>3, <1>4, <3>2, <4>1
        <4> QED  BY <3>2, <4>2, ScheduledSize DEF d
      <3> QED  BY <3>1, <3>2
    <2>2. f = [n \in Nat |-> f[n]]
      BY <1>4
    <2> QED  BY <2>1, <2>2 DEF IsRoom
  <1> DEFINE s == Room(initial, g)
  <1>6. IsRoom(s, initial, g)
    BY <1>5 DEF Room
  <1> HIDE DEF s
  <1>7. s[0] = 0
    BY <1>6 DEF IsRoom
  <1>8. ASSUME NEW n \in Nat PROVE s[n + 1] = s[n] + d[n \div g]
    <2>1. n + 1 \in Nat /\ n + 1 # 0 /\ (n + 1) - 1 = n
      OBVIOUS
    <2>2. s[n + 1] = s[n] + ScheduledPartSize(initial, g, n)
      BY <1>6, <2>1 DEF IsRoom
    <2> QED  BY <2>2, ScheduledSize DEF d
  <1>9. ASSUME NEW n \in Nat PROVE s[n] \in Nat
    <2> DEFINE T == {k \in Nat : s[k] \in Nat}
    <2>1. 0 \in T
      BY <1>7
    <2>2. ASSUME NEW k \in Nat, k \in T PROVE k + 1 \in T
      <3> DEFINE x == s[k]
                 y == d[k \div g]
      <3>1. x \in Nat /\ y \in Nat /\ s[k + 1] = x + y
        BY <1>1, <1>8, <2>2 DEF Initial
      <3> HIDE DEF x, y
      <3> QED  BY <3>1
    <2> HIDE DEF T
    <2>3. Nat \subseteq T
      BY <2>1, <2>2, NatSetInduction
    <2> QED  BY <2>3 DEF T
  <1>10. s \in [Nat -> Nat]
    <2>1. s = [n \in Nat |-> s[n]]
      BY <1>6 DEF IsRoom
    <2> QED  BY <1>9, <2>1
  <1> QED  BY <1>1, <1>7, <1>8, <1>10 DEF s, d

\* Capacity is the room in all parts.
LEMMA CapacityIsRoom ==
  ASSUME NEW initial, NEW g, NEW n
  PROVE  Capacity(initial, g, n) = Room(initial, g)[n]
  BY DEF Capacity, Room, IsRoom

-----------------------------------------------------------------------------
(* The room of whole tiers. *)

\* Part number j of a tier is in that tier.
LEMMA TierOfPart ==
  ASSUME NEW t \in Nat, NEW g \in Nat \ {0}, NEW j \in Nat, j < g
  PROVE  (t * g + j) \div g = t
  <1> DEFINE n == t * g + j
             q == n \div g
  <1>1. n \in Nat /\ n = t * g + j
    OBVIOUS
  <1> HIDE DEF n
  <1>2. q \in Nat /\ q * g <= n /\ n < q * g + g
    BY <1>1
  <1> HIDE DEF q
  <1> DEFINE k == q - t
  <1>4. k \in Int /\ q = t + k
    BY <1>2
  <1> HIDE DEF k
  <1>5. q * g = t * g + k * g /\ t * g \in Int /\ k * g \in Int
    BY <1>2, <1>4
  <1>6. k * g < g /\ k * g > -g
    BY <1>1, <1>2, <1>5
  <1>7. k < 1
    BY <1>4, <1>6
  <1>8. k > -1
    BY <1>4, <1>6
  <1> QED  BY <1>4, <1>7, <1>8 DEF q, n

\* Within a tier the room grows by one size.
LEMMA RoomInTier ==
  ASSUME NEW initial \in Initial, NEW g \in Nat \ {0}, NEW t \in Nat
  PROVE  \A j \in 0..g :
            Room(initial, g)[t * g + j] = Room(initial, g)[t * g] + j * Sizes(initial)[t]
  <1> DEFINE S == Room(initial, g)
             D == Sizes(initial)
             T == {j \in Nat : j <= g => S[t * g + j] = S[t * g] + j * D[t]}
  <1>1. /\ S \in [Nat -> Nat]
        /\ \A n \in Nat : S[n + 1] = S[n] + D[n \div g]
    BY RoomFacts
  <1>2. D[t] \in Nat
    <2>1. D \in [Nat -> Initial]
      BY SizesFacts
    <2> QED  BY <2>1 DEF Initial
  <1>3. t * g \in Nat
    OBVIOUS
  <1> HIDE DEF S, D
  <1>4. 0 \in T
    BY <1>1, <1>2, <1>3
  <1>5. ASSUME NEW j \in Nat, j \in T PROVE j + 1 \in T
    <2>1. SUFFICES ASSUME j + 1 <= g PROVE S[t * g + (j + 1)] = S[t * g] + (j + 1) * D[t]
      OBVIOUS
    <2> DEFINE n == t * g + j
    <2>2. n \in Nat /\ t * g + (j + 1) = n + 1
      BY <1>3
    <2>3. n \div g = t
      BY <2>1, TierOfPart
    <2>4. S[n] = S[t * g] + j * D[t]
      BY <1>5, <2>1
    <2> HIDE DEF n
    <2>5. S[n + 1] = S[n] + D[t]
      BY <1>1, <2>2, <2>3
    <2>6. S[t * g] \in Nat
      BY <1>1, <1>3
    <2>7. j * D[t] \in Nat /\ (j + 1) * D[t] = j * D[t] + D[t]
      <3> DEFINE d == D[t]
      <3>1. d \in Nat
        BY <1>2
      <3> HIDE DEF d
      <3>2. j * d \in Nat /\ (j + 1) * d = j * d + d
        BY <3>1
      <3> QED  BY <3>2 DEF d
    <2> QED  BY <1>2, <2>2, <2>4, <2>5, <2>6, <2>7
  <1> HIDE DEF T
  <1>6. Nat \subseteq T
    BY <1>4, <1>5, NatSetInduction
  <1> QED  BY <1>6 DEF T, S, D

\* More parts have more room, and larger ones too.
LEMMA RoomGrows ==
  ASSUME NEW initial \in Initial, NEW g \in Nat \ {0}, NEW n \in Nat, NEW m \in Nat, n <= m
  PROVE  Room(initial, g)[n] <= Room(initial, g)[m]
  <1> DEFINE S == Room(initial, g)
             T == {k \in Nat : S[n] <= S[n + k]}
  <1>1. /\ S \in [Nat -> Nat]
        /\ \A k \in Nat : S[k + 1] = S[k] + Sizes(initial)[k \div g]
        /\ \A k \in Nat : Sizes(initial)[k \div g] \in Initial
    BY RoomFacts
  <1> HIDE DEF S
  <1>2. 0 \in T
    BY <1>1
  <1>3. ASSUME NEW k \in Nat, k \in T PROVE k + 1 \in T
    <2> DEFINE j == n + k
               d == Sizes(initial)[j \div g]
    <2>1. j \in Nat /\ n + (k + 1) = j + 1
      OBVIOUS
    <2>2. S[n] <= S[j]
      BY <1>3
    <2> HIDE DEF j
    <2>3. S[j + 1] = S[j] + d /\ d \in Initial
      BY <1>1, <2>1
    <2>4. S[j] \in Nat /\ S[n] \in Nat
      BY <1>1, <2>1
    <2> HIDE DEF d
    <2> QED  BY <2>1, <2>2, <2>3, <2>4 DEF Initial
  <1> HIDE DEF T
  <1>4. Nat \subseteq T
    BY <1>2, <1>3, NatSetInduction
  <1>5. m - n \in Nat /\ n + (m - n) = m
    OBVIOUS
  <1>6. S[n] <= S[n + (m - n)]
    BY <1>4, <1>5 DEF T
  <1> QED  BY <1>5, <1>6 DEF S

\* A larger initial size makes no room smaller.
LEMMA RoomMonotone ==
  ASSUME NEW i \in Initial, NEW j \in Initial, i <= j, NEW g \in Nat \ {0}
  PROVE  \A n \in Nat : Room(i, g)[n] <= Room(j, g)[n]
  <1> DEFINE a == Room(i, g)
             b == Room(j, g)
             c == Sizes(i)
             d == Sizes(j)
             T == {n \in Nat : a[n] <= b[n]}
  <1>1. /\ a \in [Nat -> Nat] /\ a[0] = 0
        /\ \A n \in Nat : a[n + 1] = a[n] + c[n \div g]
    BY RoomFacts
  <1>2. /\ b \in [Nat -> Nat] /\ b[0] = 0
        /\ \A n \in Nat : b[n + 1] = b[n] + d[n \div g]
    BY RoomFacts
  <1>3. ASSUME NEW n \in Nat
        PROVE  c[n \div g] \in Nat /\ d[n \div g] \in Nat /\ c[n \div g] <= d[n \div g]
    <2>1. n \div g \in Nat
      OBVIOUS
    <2>2. c \in [Nat -> Initial] /\ d \in [Nat -> Initial]
      BY SizesFacts
    <2>3. \A k \in Nat : c[k] <= d[k]
      BY SizesMonotone
    <2> HIDE DEF c, d
    <2> QED  BY <2>1, <2>2, <2>3 DEF Initial
  <1> HIDE DEF a, b, c, d
  <1>4. 0 \in T
    BY <1>1, <1>2
  <1>5. ASSUME NEW n \in Nat, n \in T PROVE n + 1 \in T
    <2> DEFINE x == c[n \div g]
               y == d[n \div g]
    <2>1. x \in Nat /\ y \in Nat /\ x <= y
      BY <1>3
    <2>2. a[n + 1] = a[n] + x /\ b[n + 1] = b[n] + y
      BY <1>1, <1>2
    <2> HIDE DEF x, y
    <2>3. a[n] \in Nat /\ b[n] \in Nat /\ a[n] <= b[n]
      BY <1>1, <1>2, <1>5
    <2> QED  BY <2>1, <2>2, <2>3
  <1> HIDE DEF T
  <1>6. Nat \subseteq T
    BY <1>4, <1>5, NatSetInduction
  <1> QED  BY <1>6 DEF T, a, b

\* Parts of the greatest size.
LEMMA RoomOfLargest ==
  ASSUME NEW g \in Nat \ {0}
  PROVE  \A n \in Nat : Room(MAX_MULTIPART_PART_SIZE, g)[n] = n * MAX_MULTIPART_PART_SIZE
  <1> DEFINE M == MAX_MULTIPART_PART_SIZE
             S == Room(M, g)
             D == Sizes(M)
             T == {n \in Nat : D[n] = M}
             U == {n \in Nat : S[n] = n * M}
  <1>0. M \in Initial /\ M \in Nat /\ M >= 1
    BY DEF Initial
  <1>1. /\ D \in [Nat -> Initial] /\ D[0] = M
        /\ \A n \in Nat : D[n + 1] = IF 2 * D[n] <= M THEN 2 * D[n] ELSE M
    BY <1>0, SizesFacts
  <1>2. /\ S[0] = 0
        /\ \A n \in Nat : S[n + 1] = S[n] + D[n \div g]
    BY <1>0, RoomFacts
  <1> HIDE DEF S, D, M
  <1>3. Nat \subseteq T
    <2>1. 0 \in T
      BY <1>1
    <2>2. ASSUME NEW n \in Nat, n \in T PROVE n + 1 \in T
      <3>1. D[n] = M /\ ~(2 * M <= M)
        BY <1>0, <2>2
      <3> QED  BY <1>1, <3>1
    <2> HIDE DEF T
    <2> QED  BY <2>1, <2>2, NatSetInduction
  <1>4. Nat \subseteq U
    <2>1. 0 \in U
      BY <1>0, <1>2
    <2>2. ASSUME NEW n \in Nat, n \in U PROVE n + 1 \in U
      <3>1. n \div g \in Nat
        OBVIOUS
      <3>2. D[n \div g] = M
        BY <1>3, <3>1
      <3>3. S[n + 1] = n * M + M
        BY <1>2, <2>2, <3>2
      <3>4. n * M + M = (n + 1) * M
        BY <1>0
      <3> QED  BY <3>3, <3>4
    <2> HIDE DEF U
    <2> QED  BY <2>1, <2>2, NatSetInduction
  <1> QED  BY <1>4 DEF S, M

-----------------------------------------------------------------------------
(* ScheduleCovers. *)

\* Both of the loop's comparisons ask whether the tier's parts reach the end of the file.
LEMMA TierEnd ==
  ASSUME NEW part \in Nat, NEW parts \in Nat \ {0}, NEW held \in Nat, NEW size \in Nat
  PROVE  TierReachesEnd(part, parts, held, size) <=> held + part * parts >= size
  <1>1. SUFFICES ASSUME part > (size - Min({held, size})) \div parts
                 PROVE  held + part * parts >= size
    BY DEF TierReachesEnd
  <1>2. part * parts \in Nat
    OBVIOUS
  <1>3. CASE held >= size
    BY <1>2, <1>3
  <1>4. CASE held < size
    <2>1. Min({held, size}) = held
      BY <1>4, MinOfInts
    <2> DEFINE r == size - held
               q == r \div parts
               k == part - (q + 1)
    <2>2. r \in Nat /\ part > q
      BY <1>1, <1>4, <2>1
    <2> HIDE DEF r
    <2>3. q \in Nat /\ r < q * parts + parts
      BY <2>2
    <2> HIDE DEF q
    <2>4. k \in Nat /\ part = (q + 1) + k
      BY <2>2, <2>3
    <2> HIDE DEF k
    <2>5. part * parts = q * parts + parts + k * parts /\ k * parts \in Nat /\ q * parts \in Nat
      BY <2>3, <2>4
    <2>6. part * parts > r
      BY <1>2, <2>2, <2>3, <2>5
    <2> QED  BY <1>2, <2>6 DEF r
  <1> QED  BY <1>3, <1>4

\* What the tiers before each one hold, as ScheduleCovers adds it up.
IsHeld(f, initial, g, parts) ==
    f = [tier \in Nat |->
            IF tier = 0 THEN 0
            ELSE f[tier - 1] + ScheduledPartSize(initial, g, (tier - 1) * g)
                               * PartsAtSize(g, parts, (tier - 1) * g)]
Held(initial, g, parts) == CHOOSE f : IsHeld(f, initial, g, parts)

\* ScheduleCovers looks for a tier that reaches the end of the file.
LEMMA CoversByHeld ==
  ASSUME NEW initial, NEW size, NEW parts, NEW g
  PROVE  ScheduleCovers(initial, size, parts, g) <=>
           \E tier \in 0..(parts - 1) \div g :
              TierReachesEnd(ScheduledPartSize(initial, g, tier * g),
                             PartsAtSize(g, parts, tier * g),
                             Held(initial, g, parts)[tier], size)
  BY DEF ScheduleCovers, Held, IsHeld

\* The size and the number of the parts of a tier.
LEMMA TierParts ==
  ASSUME NEW initial \in Initial, NEW g \in Nat \ {0}, NEW parts \in Nat, NEW t \in Nat
  PROVE  /\ ScheduledPartSize(initial, g, t * g) = Sizes(initial)[t]
         /\ Sizes(initial)[t] \in Nat
         /\ PartsAtSize(g, parts, t * g) = IF g <= parts - t * g THEN g ELSE parts - t * g
         /\ PartsAtSize(g, parts, t * g) \in Int
  <1>1. (t * g) \div g = t
    <2>1. (t * g + 0) \div g = t /\ t * g + 0 = t * g
      BY TierOfPart
    <2> QED  BY <2>1
  <1>2. Sizes(initial)[t] \in Nat
    <2>1. Sizes(initial) \in [Nat -> Initial]
      BY SizesFacts
    <2> QED  BY <2>1 DEF Initial
  <1>3. parts - t * g \in Int /\ g \in Int
    OBVIOUS
  <1>4. PartsAtSize(g, parts, t * g) = IF g <= parts - t * g THEN g ELSE parts - t * g
    BY <1>3, MinOfInts DEF PartsAtSize
  <1> QED  BY <1>1, <1>2, <1>3, <1>4, ScheduledSize

\* The recursive function of ScheduleCovers exists: each tier adds its parts.
LEMMA HeldFacts ==
  ASSUME NEW initial \in Initial, NEW g \in Nat \ {0}, NEW parts \in Nat
  PROVE  /\ Held(initial, g, parts)[0] = 0
         /\ \A t \in Nat : Held(initial, g, parts)[t + 1] =
               Held(initial, g, parts)[t] + Sizes(initial)[t] * PartsAtSize(g, parts, t * g)
  <1> DEFINE d(t) == Sizes(initial)[t] * PartsAtSize(g, parts, t * g)
             F == [p \in Nat \X Int |-> p[2] + d(p[1])]
  <1>1. ASSUME NEW t \in Nat
        PROVE  /\ d(t) \in Int
               /\ d(t) = ScheduledPartSize(initial, g, t * g) * PartsAtSize(g, parts, t * g)
    <2> DEFINE a == Sizes(initial)[t]
               b == PartsAtSize(g, parts, t * g)
    <2>1. a \in Nat /\ b \in Int /\ ScheduledPartSize(initial, g, t * g) = a
      BY TierParts
    <2> HIDE DEF a, b
    <2>2. a * b \in Int
      BY <2>1
    <2> QED  BY <2>1, <2>2 DEF a, b
  <1> HIDE DEF d
  <1>2. F \in [Nat \X Int -> Int]
    BY <1>1
  <1>3. ASSUME NEW n \in Nat, NEW x \in Int PROVE F[<<n, x>>] = x + d(n)
    OBVIOUS
  <1> HIDE DEF F
  <1>4. PICK f : Follows(f, Int, 0, F)
    BY SMTT(40), <1>2, RecursionExists
  <1>5. /\ f \in [Nat -> Int]
        /\ \A n \in Nat : f[n] = IF n = 0 THEN 0 ELSE F[<<n - 1, f[n - 1]>>]
    BY <1>4 DEF Follows
  <1>6. IsHeld(f, initial, g, parts)
    <2>1. ASSUME NEW n \in Nat
          PROVE  f[n] = IF n = 0 THEN 0
                        ELSE f[n - 1] + ScheduledPartSize(initial, g, (n - 1) * g)
                                        * PartsAtSize(g, parts, (n - 1) * g)
      <3>1. CASE n = 0
        BY <1>5, <3>1
      <3>2. CASE n # 0
        <4>1. n - 1 \in Nat /\ f[n - 1] \in Int
          BY <1>5, <3>2
        <4>2. f[n] = f[n - 1] + d(n - 1)
          BY <1>3, <1>5, <3>2, <4>1
        <4>3. d(n - 1) = ScheduledPartSize(initial, g, (n - 1) * g)
                         * PartsAtSize(g, parts, (n - 1) * g)
          BY <1>1, <4>1
        <4> QED  BY <3>2, <4>2, <4>3
      <3> QED  BY <3>1, <3>2
    <2>2. f = [n \in Nat |-> f[n]]
      BY <1>5
    <2> QED  BY <2>1, <2>2 DEF IsHeld
  <1> DEFINE s == Held(initial, g, parts)
  <1>7. IsHeld(s, initial, g, parts)
    BY <1>6 DEF Held
  <1> HIDE DEF s
  <1>8. s[0] = 0
    BY <1>7 DEF IsHeld
  <1>9. ASSUME NEW n \in Nat PROVE s[n + 1] = s[n] + d(n)
    <2>1. n + 1 \in Nat /\ n + 1 # 0 /\ (n + 1) - 1 = n
      OBVIOUS
    <2>2. s[n + 1] = s[n] + ScheduledPartSize(initial, g, n * g) * PartsAtSize(g, parts, n * g)
      BY <1>7, <2>1 DEF IsHeld
    <2> QED  BY <1>1, <2>2
  <1> QED  BY <1>8, <1>9 DEF s, d

\* The tiers up to the one that part number parts - 1 is in: all but that one are full.
LEMMA FullTiers ==
  ASSUME NEW g \in Nat \ {0}, NEW parts \in Nat \ {0},
         NEW t \in 0..(parts - 1) \div g
  PROVE  /\ t \in Nat /\ t * g \in Nat /\ t * g < parts
         /\ t < (parts - 1) \div g => t * g + g < parts
         /\ t = (parts - 1) \div g => parts <= t * g + g
  <1> DEFINE n == parts - 1
             q == n \div g
             k == q - t
  <1>1. n \in Nat /\ parts = n + 1
    OBVIOUS
  <1> HIDE DEF n
  <1>2. q \in Nat /\ q * g <= n /\ n < q * g + g
    BY <1>1
  <1>3. t \in 0..q
    BY DEF n
  <1> HIDE DEF q
  <1>4. k \in Nat /\ q = t + k /\ t \in Nat
    BY <1>2, <1>3
  <1> HIDE DEF k
  <1>5. q * g = t * g + k * g /\ t * g \in Nat /\ k * g \in Nat
    BY <1>4
  <1>6. t < q => k * g >= g
    <2>1. SUFFICES ASSUME t < q PROVE k * g >= g
      OBVIOUS
    <2>2. k - 1 \in Nat
      BY <1>4, <2>1
    <2>3. (k - 1) * g \in Nat /\ (k - 1) * g = k * g - g
      BY <1>4, <2>2
    <2> QED  BY <1>5, <2>3
  <1>7. t = q => q * g = t * g
    OBVIOUS
  <1>8. /\ t * g < parts
        /\ t < q => t * g + g < parts
        /\ t = q => parts <= t * g + g
    BY <1>1, <1>2, <1>5, <1>6, <1>7
  <1> QED  BY <1>4, <1>5, <1>8 DEF q, n

\* The tiers before one hold the room of their parts.
LEMMA HeldIsRoom ==
  ASSUME NEW initial \in Initial, NEW g \in Nat \ {0}, NEW parts \in Nat \ {0}
  PROVE  \A t \in 0..(parts - 1) \div g : Held(initial, g, parts)[t] = Room(initial, g)[t * g]
  <1> DEFINE h == Held(initial, g, parts)
             S == Room(initial, g)
             last == (parts - 1) \div g
             T == {t \in Nat : t <= last => h[t] = S[t * g]}
  <1>0. last \in Nat
    OBVIOUS
  <1>1. h[0] = 0 /\ S[0] = 0 /\ 0 * g = 0
    BY HeldFacts, RoomFacts
  <1>2. 0 \in T
    BY <1>1
  <1>3. ASSUME NEW t \in Nat, t \in T PROVE t + 1 \in T
    <2>1. SUFFICES ASSUME t + 1 <= last PROVE h[t + 1] = S[(t + 1) * g]
      OBVIOUS
    <2>2. t \in 0..last /\ t < last
      BY <1>0, <2>1
    <2>3. t * g \in Nat /\ t * g + g < parts
      BY <2>2, FullTiers
    <2>4. PartsAtSize(g, parts, t * g) = g /\ Sizes(initial)[t] \in Nat
      <3>1. /\ PartsAtSize(g, parts, t * g) = IF g <= parts - t * g THEN g ELSE parts - t * g
            /\ Sizes(initial)[t] \in Nat
        BY TierParts
      <3>2. g <= parts - t * g
        BY <2>3
      <3> QED  BY <3>1, <3>2
    <2>5. h[t + 1] = h[t] + Sizes(initial)[t] * g
      <3>1. h[t + 1] = h[t] + Sizes(initial)[t] * PartsAtSize(g, parts, t * g)
        BY HeldFacts
      <3> QED  BY <2>4, <3>1
    <2>6. g \in 0..g
      OBVIOUS
    <2>7. S[t * g + g] = S[t * g] + g * Sizes(initial)[t]
      BY <2>6, RoomInTier
    <2>8. h[t] = S[t * g]
      BY <1>3, <2>2
    <2>9. (t + 1) * g = t * g + g /\ g * Sizes(initial)[t] = Sizes(initial)[t] * g
      BY <2>4
    <2> QED  BY <2>5, <2>7, <2>8, <2>9
  <1> HIDE DEF T, last
  <1>4. Nat \subseteq T
    BY <1>2, <1>3, NatSetInduction
  <1>5. ASSUME NEW t \in 0..last PROVE h[t] = S[t * g]
    BY <1>0, <1>4, <1>5 DEF T
  <1> QED  BY <1>5 DEF last

\* ScheduleCovers, which counts by tiers, is right about the room in all parts.
LEMMA CoversIsRoom ==
  ASSUME NEW initial \in Initial, NEW g \in Nat \ {0}, NEW parts \in Nat \ {0}, NEW size \in Nat
  PROVE  ScheduleCovers(initial, size, parts, g) <=> Room(initial, g)[parts] >= size
  <1> DEFINE h == Held(initial, g, parts)
             S == Room(initial, g)
             D == Sizes(initial)
             last == (parts - 1) \div g
             k(t) == PartsAtSize(g, parts, t * g)
             Reaches(t) == TierReachesEnd(ScheduledPartSize(initial, g, t * g), k(t), h[t], size)
  <1>0. S \in [Nat -> Nat] /\ last \in Nat
    BY RoomFacts
  <1>1. ASSUME NEW t \in 0..last
        PROVE  /\ t * g + k(t) \in Nat /\ t * g + k(t) <= parts
               /\ t = last => t * g + k(t) = parts
               /\ Reaches(t) <=> S[t * g + k(t)] >= size
    <2>1. /\ t \in Nat /\ t * g \in Nat /\ t * g < parts
          /\ t = last => parts <= t * g + g
      BY FullTiers
    <2>2. /\ ScheduledPartSize(initial, g, t * g) = D[t]
          /\ D[t] \in Nat
          /\ k(t) = IF g <= parts - t * g THEN g ELSE parts - t * g
      BY ZenonT(40), <2>1, TierParts
    <2>3. h[t] = S[t * g]
      BY HeldIsRoom
    <2>4. S[t * g] \in Nat
      BY <1>0, <2>1
    <2> HIDE DEF S, D, k, h
    <2>5. k(t) \in Nat \ {0} /\ k(t) \in 0..g
      BY <2>1, <2>2
    <2>6. S[t * g + k(t)] = S[t * g] + k(t) * D[t]
      BY ZenonT(40), <2>1, <2>5, RoomInTier DEF S, D
    <2>7. Reaches(t) <=> h[t] + D[t] * k(t) >= size
      BY <2>2, <2>3, <2>4, <2>5, TierEnd
    <2>8. D[t] * k(t) = k(t) * D[t]
      <3> DEFINE a == D[t]
                 b == k(t)
      <3>1. a \in Nat /\ b \in Nat
        BY <2>2, <2>5
      <3> HIDE DEF a, b
      <3>2. a * b = b * a
        BY <3>1
      <3> QED  BY <3>2 DEF a, b
    <2>9. Reaches(t) <=> S[t * g + k(t)] >= size
      BY <2>3, <2>6, <2>7, <2>8
    <2>10. t * g + k(t) \in Nat /\ t * g + k(t) <= parts
      BY <2>1, <2>2, <2>5
    <2>11. t = last => t * g + k(t) = parts
      BY <2>1, <2>2, <2>5
    <2> QED  BY <2>9, <2>10, <2>11
  <1>2. ScheduleCovers(initial, size, parts, g) <=> \E t \in 0..last : Reaches(t)
    BY CoversByHeld
  <1>3. ASSUME NEW t \in 0..last, Reaches(t) PROVE S[parts] >= size
    <2> DEFINE n == t * g + k(t)
    <2>1. n \in Nat /\ n <= parts /\ S[n] >= size
      BY <1>1, <1>3
    <2> HIDE DEF n
    <2>2. S[n] <= S[parts]
      BY <2>1, RoomGrows
    <2> HIDE DEF S
    <2>3. S[n] \in Nat /\ S[parts] \in Nat
      BY <1>0, <2>1
    <2> QED  BY <2>1, <2>2, <2>3
  <1>4. ASSUME S[parts] >= size PROVE Reaches(last)
    <2>1. last \in 0..last
      BY <1>0
    <2> QED  BY <1>1, <1>4, <2>1
  <1>5. last \in 0..last
    BY <1>0
  <1> HIDE DEF Reaches, S, last
  <1> QED  BY <1>2, <1>3, <1>4, <1>5 DEF S

-----------------------------------------------------------------------------
(* The search. *)

MinBlocks == MIN_MULTIPART_PART_SIZE \div BlockSize
MaxBlocks == MAX_MULTIPART_PART_SIZE \div BlockSize

\* The sizes in blocks.
LEMMA Blocks ==
  /\ MinBlocks \in Nat \ {0} /\ MinBlocks * BlockSize = MIN_MULTIPART_PART_SIZE
  /\ MaxBlocks \in Nat /\ MaxBlocks * BlockSize = MAX_MULTIPART_PART_SIZE
  /\ MinBlocks <= MaxBlocks
  /\ \A b \in MinBlocks..MaxBlocks : b * BlockSize \in Initial
  <1>1. MinBlocks \in Nat /\ MinBlocks * BlockSize = MIN_MULTIPART_PART_SIZE
    BY DEF MinBlocks
  <1>2. MaxBlocks \in Nat /\ MaxBlocks * BlockSize = MAX_MULTIPART_PART_SIZE
    BY DEF MaxBlocks
  <1>3. MinBlocks # 0
    BY <1>1
  <1>4. MinBlocks <= MaxBlocks
    <2> DEFINE k == MinBlocks - MaxBlocks
    <2>1. SUFFICES ASSUME MinBlocks > MaxBlocks PROVE FALSE
      BY <1>1, <1>2
    <2>2. k \in Nat \ {0} /\ MinBlocks = MaxBlocks + k
      BY <1>1, <1>2, <2>1
    <2> HIDE DEF k
    <2>3. MinBlocks * BlockSize = MaxBlocks * BlockSize + k * BlockSize
      BY <1>2, <2>2
    <2>4. k * BlockSize \in Nat /\ k * BlockSize > 0
      BY <2>2
    <2>5. MIN_MULTIPART_PART_SIZE = MAX_MULTIPART_PART_SIZE + k * BlockSize
      BY <1>1, <1>2, <2>3
    <2> QED  BY <2>4, <2>5
  <1>5. ASSUME NEW b \in MinBlocks..MaxBlocks PROVE b * BlockSize \in Initial
    <2> DEFINE k == MaxBlocks - b
    <2>1. b \in Nat \ {0} /\ k \in Nat /\ MaxBlocks = b + k
      BY <1>1, <1>2, <1>3
    <2> HIDE DEF k
    <2>2. b * BlockSize \in Nat /\ b * BlockSize >= 1 /\ k * BlockSize \in Nat
      BY <2>1
    <2>3. MaxBlocks * BlockSize = b * BlockSize + k * BlockSize
      BY <2>1
    <2> QED  BY <1>2, <2>2, <2>3 DEF Initial
  <1> QED  BY <1>1, <1>2, <1>3, <1>4, <1>5

\* The sizes, in blocks, with which the schedule covers; with a size, all larger ones.
Covering(size, parts, g) ==
    {b \in MinBlocks..MaxBlocks : ScheduleCovers(b * BlockSize, size, parts, g)}

Upward(C) ==
    /\ C \subseteq MinBlocks..MaxBlocks
    /\ \A a \in C : \A b \in MinBlocks..MaxBlocks : a <= b => b \in C

\* A schedule that starts larger covers as much.
LEMMA CoveringUpward ==
  ASSUME NEW size \in Nat, NEW parts \in Nat \ {0}, NEW g \in Nat \ {0}
  PROVE  Upward(Covering(size, parts, g))
  <1>1. SUFFICES ASSUME NEW a \in MinBlocks..MaxBlocks, NEW b \in MinBlocks..MaxBlocks, a <= b,
                        ScheduleCovers(a * BlockSize, size, parts, g)
                 PROVE  ScheduleCovers(b * BlockSize, size, parts, g)
    BY DEF Upward, Covering
  <1> DEFINE i == a * BlockSize
             j == b * BlockSize
             k == b - a
  <1>2. i \in Initial /\ j \in Initial
    BY Blocks
  <1>3. i <= j
    <2>1. a \in Nat /\ k \in Nat /\ b = a + k
      BY <1>1, Blocks
    <2> HIDE DEF k
    <2>2. b * BlockSize = a * BlockSize + k * BlockSize /\ a * BlockSize \in Nat
          /\ k * BlockSize \in Nat
      BY <2>1
    <2> QED  BY <2>2
  <1> HIDE DEF i, j
  <1> DEFINE x == Room(i, g)[parts]
             y == Room(j, g)[parts]
  <1>4. x >= size
    BY <1>1, <1>2, CoversIsRoom DEF i
  <1>5. x <= y
    BY <1>2, <1>3, RoomMonotone
  <1>6. x \in Nat /\ y \in Nat
    <2>1. Room(i, g) \in [Nat -> Nat] /\ Room(j, g) \in [Nat -> Nat]
      BY <1>2, RoomFacts
    <2> QED  BY <2>1
  <1> HIDE DEF x, y
  <1>7. y >= size
    BY <1>4, <1>5, <1>6
  <1> QED  BY <1>2, <1>7, CoversIsRoom DEF y, j

\* What the search returns between lower and upper.
Least(m, C, lower, upper) ==
    /\ m \in lower..upper
    /\ m = upper \/ m \in C
    /\ \A k \in lower..upper : k < m => k \notin C

\* There is such a number,
LEMMA LeastExists ==
  ASSUME NEW C, NEW lower \in Nat, NEW upper \in Nat, lower <= upper
  PROVE  \E m : Least(m, C, lower, upper)
  <1> DEFINE S == {m \in lower..upper : m = upper \/ m \in C}
  <1>1. S \in SUBSET Nat /\ upper \in S
    OBVIOUS
  <1>2. PICK m \in S : \A k \in S : m <= k
    BY <1>1, LeastNumber
  <1>3. ASSUME NEW k \in lower..upper, k < m PROVE k \notin C
    <2>1. m \in Nat /\ k \in Nat /\ ~(m <= k)
      BY <1>1, <1>3
    <2> QED  BY <1>2, <2>1
  <1>4. Least(m, C, lower, upper)
    BY <1>3 DEF Least
  <1> QED  BY <1>4

\* and only one.
LEMMA LeastUnique ==
  ASSUME NEW C, NEW lower \in Nat, NEW upper \in Nat,
         NEW m, Least(m, C, lower, upper), NEW n, Least(n, C, lower, upper)
  PROVE  m = n
  <1>1. m \in Nat /\ n \in Nat /\ m <= upper /\ n <= upper
    BY DEF Least
  <1>2. ~(m < n)
    BY <1>1 DEF Least
  <1>3. ~(n < m)
    BY <1>1 DEF Least
  <1> QED  BY <1>1, <1>2, <1>3

\* Halving keeps the result.
Middle(lower, upper) == lower + (upper - lower) \div 2

\* The middle is in the lower half.
LEMMA MiddleBetween ==
  ASSUME NEW lower \in Nat, NEW upper \in Nat, lower < upper
  PROVE  /\ Middle(lower, upper) \in Nat
         /\ lower <= Middle(lower, upper) /\ Middle(lower, upper) < upper
  BY DEF Middle

\* The least number of one half is the least of both.
LEMMA LeastByHalves ==
  ASSUME NEW C, Upward(C), NEW lower \in MinBlocks..MaxBlocks,
         NEW upper \in MinBlocks..MaxBlocks, lower < upper, NEW m
  PROVE  LET middle == Middle(lower, upper)
         IN  /\ middle \in C /\ Least(m, C, lower, middle) => Least(m, C, lower, upper)
             /\ middle \notin C /\ Least(m, C, middle + 1, upper) => Least(m, C, lower, upper)
  <1> DEFINE middle == Middle(lower, upper)
  <1>1. MinBlocks \in Nat /\ MaxBlocks \in Nat
    BY Blocks
  <1>2. lower \in Nat /\ upper \in Nat /\ upper <= MaxBlocks /\ MinBlocks <= lower
    BY <1>1
  <1>3. middle \in Nat /\ lower <= middle /\ middle < upper
    BY <1>2, MiddleBetween
  <1>4. middle \in MinBlocks..MaxBlocks
    BY <1>1, <1>2, <1>3
  <1> HIDE DEF middle
  <1>5. ASSUME middle \in C, Least(m, C, lower, middle) PROVE Least(m, C, lower, upper)
    <2>1. m \in Nat /\ lower <= m /\ m <= middle /\ m \in C
      BY <1>2, <1>3, <1>5 DEF Least
    <2>2. ASSUME NEW k \in lower..upper, k < m PROVE k \notin C
      <3>1. k \in lower..middle
        BY <1>2, <1>3, <2>1, <2>2
      <3> QED  BY <1>5, <2>2, <3>1 DEF Least
    <2>3. m \in lower..upper
      BY <1>2, <1>3, <2>1
    <2> QED  BY <2>1, <2>2, <2>3 DEF Least
  <1>6. ASSUME middle \notin C, Least(m, C, middle + 1, upper) PROVE Least(m, C, lower, upper)
    <2>1. m \in Nat /\ middle + 1 <= m /\ m <= upper /\ (m = upper \/ m \in C)
      BY <1>2, <1>3, <1>6 DEF Least
    <2>2. ASSUME NEW k \in lower..upper, k < m PROVE k \notin C
      <3>1. CASE k >= middle + 1
        <4>1. k \in (middle + 1)..upper
          BY <1>2, <1>3, <3>1
        <4> QED  BY <1>6, <2>2, <4>1 DEF Least
      <3>2. CASE k < middle + 1
        <4>1. k <= middle
          BY <1>2, <1>3, <3>2
        <4> QED  BY <1>4, <1>6, <4>1 DEF Upward
      <3> QED  BY <1>2, <1>3, <3>1, <3>2
    <2>3. m \in lower..upper
      BY <1>2, <1>3, <2>1
    <2> QED  BY <2>1, <2>2, <2>3 DEF Least
  <1> QED  BY <1>5, <1>6 DEF middle

\* The function of the search.
IsSearch(f, size, parts, g) ==
    f = [range \in (MinBlocks..MaxBlocks) \X (MinBlocks..MaxBlocks) |->
            IF range[1] >= range[2] THEN range[1]
            ELSE IF ScheduleCovers(Middle(range[1], range[2]) * BlockSize, size, parts, g)
                 THEN f[<<range[1], Middle(range[1], range[2])>>]
                 ELSE f[<<Middle(range[1], range[2]) + 1, range[2]>>]]
Search(size, parts, g) == CHOOSE f : IsSearch(f, size, parts, g)

\* InitialPartSize is the search from the smallest to the largest size.
LEMMA SearchedSize ==
  ASSUME NEW size, NEW parts, NEW g
  PROVE  InitialPartSize(size, parts, g) = Search(size, parts, g)[<<MinBlocks, MaxBlocks>>] * BlockSize
  BY DEF InitialPartSize, MinBlocks, MaxBlocks, Search, IsSearch, Middle

\* One call of the search, where C are the sizes that cover.
Halves(f, C) ==
    \A lower \in MinBlocks..MaxBlocks, upper \in MinBlocks..MaxBlocks :
        f[<<lower, upper>>] = IF lower >= upper THEN lower
                          ELSE IF Middle(lower, upper) \in C
                               THEN f[<<lower, Middle(lower, upper)>>]
                               ELSE f[<<Middle(lower, upper) + 1, upper>>]

Found(C, lower, upper) ==
    IF lower >= upper THEN lower ELSE CHOOSE m : Least(m, C, lower, upper)

\* There is such a function: the one that gives what the search is to find.
LEMMA HalvesExists ==
  ASSUME NEW C, Upward(C)
  PROVE  LET f == [range \in (MinBlocks..MaxBlocks) \X (MinBlocks..MaxBlocks) |-> Found(C, range[1], range[2])]
         IN  Halves(f, C)
  <1> DEFINE find(lower, upper) == Found(C, lower, upper)
             f == [range \in (MinBlocks..MaxBlocks) \X (MinBlocks..MaxBlocks) |-> find(range[1], range[2])]
  <1>1. MinBlocks \in Nat /\ MaxBlocks \in Nat
    BY Blocks
  <1>2. ASSUME NEW lower \in MinBlocks..MaxBlocks, NEW upper \in MinBlocks..MaxBlocks, lower <= upper
        PROVE  Least(find(lower, upper), C, lower, upper)
    <2>1. lower \in Nat /\ upper \in Nat
      BY <1>1
    <2>2. CASE lower = upper
      <3>1. find(lower, upper) = lower
        BY <2>1, <2>2 DEF Found
      <3> HIDE DEF find
      <3> QED  BY <2>1, <2>2, <3>1 DEF Least
    <2>3. CASE lower # upper
      <3>1. ~(lower >= upper)
        BY <1>2, <2>1, <2>3
      <3>2. find(lower, upper) = CHOOSE m : Least(m, C, lower, upper)
        BY <3>1 DEF Found
      <3>3. \E m : Least(m, C, lower, upper)
        BY <1>2, <2>1, LeastExists
      <3> HIDE DEF find
      <3> QED  BY <3>2, <3>3
    <2> QED  BY <2>2, <2>3
  <1>3. ASSUME NEW lower \in MinBlocks..MaxBlocks, NEW upper \in MinBlocks..MaxBlocks
        PROVE  f[<<lower, upper>>] = find(lower, upper)
    OBVIOUS
  <1>4. ASSUME NEW lower \in MinBlocks..MaxBlocks, NEW upper \in MinBlocks..MaxBlocks, lower >= upper
        PROVE  find(lower, upper) = lower
    BY <1>4 DEF Found
  <1> HIDE DEF find, f
  <1>5. ASSUME NEW lower \in MinBlocks..MaxBlocks, NEW upper \in MinBlocks..MaxBlocks
        PROVE  f[<<lower, upper>>] = IF lower >= upper THEN lower
                                 ELSE IF Middle(lower, upper) \in C
                                      THEN f[<<lower, Middle(lower, upper)>>]
                                      ELSE f[<<Middle(lower, upper) + 1, upper>>]
    <2> DEFINE middle == Middle(lower, upper)
    <2>1. lower \in Nat /\ upper \in Nat /\ MinBlocks <= lower /\ upper <= MaxBlocks
      BY <1>1
    <2>2. CASE lower >= upper
      BY <1>3, <1>4, <2>2
    <2>3. CASE ~(lower >= upper)
      <3>1. lower < upper /\ lower <= upper
        BY <2>1, <2>3
      <3>2. middle \in Nat /\ lower <= middle /\ middle < upper
        BY <2>1, <3>1, MiddleBetween
      <3> HIDE DEF middle
      <3>3. middle \in MinBlocks..MaxBlocks /\ middle + 1 \in MinBlocks..MaxBlocks /\ middle + 1 <= upper
        BY <1>1, <2>1, <3>2
      <3>4. Least(find(lower, upper), C, lower, upper)
        BY <1>2, <3>1
      <3>5. CASE middle \in C
        <4>1. Least(find(lower, middle), C, lower, middle)
          BY <1>2, <3>2, <3>3
        <4>2. Least(find(lower, middle), C, lower, upper)
          BY <3>1, <3>5, <4>1, LeastByHalves DEF middle
        <4>3. find(lower, upper) = find(lower, middle)
          BY <2>1, <3>4, <4>2, LeastUnique
        <4>4. f[<<lower, upper>>] = find(lower, upper) /\ f[<<lower, middle>>] = find(lower, middle)
          BY <1>3, <3>3
        <4>5. f[<<lower, upper>>] = f[<<lower, middle>>]
          BY <4>3, <4>4
        <4> QED  BY <2>3, <3>5, <4>5 DEF middle
      <3>6. CASE middle \notin C
        <4>1. Least(find(middle + 1, upper), C, middle + 1, upper)
          BY <1>2, <3>3
        <4>2. Least(find(middle + 1, upper), C, lower, upper)
          BY <3>1, <3>6, <4>1, LeastByHalves DEF middle
        <4>3. find(lower, upper) = find(middle + 1, upper)
          BY <2>1, <3>4, <4>2, LeastUnique
        <4>4. /\ f[<<lower, upper>>] = find(lower, upper)
              /\ f[<<middle + 1, upper>>] = find(middle + 1, upper)
          BY <1>3, <3>3
        <4>5. f[<<lower, upper>>] = f[<<middle + 1, upper>>]
          BY <4>3, <4>4
        <4> QED  BY <2>3, <3>6, <4>5 DEF middle
      <3> QED  BY <3>5, <3>6
    <2> QED  BY <2>2, <2>3
  <1>6. Halves(f, C)
    BY <1>5 DEF Halves
  <1> QED  BY <1>6 DEF f, find

\* And whatever halves finds it.
LEMMA HalvesFinds ==
  ASSUME NEW C, Upward(C), NEW f, Halves(f, C)
  PROVE  Least(f[<<MinBlocks, MaxBlocks>>], C, MinBlocks, MaxBlocks)
  <1> DEFINE T == {n \in Nat : \A lower \in MinBlocks..MaxBlocks, upper \in MinBlocks..MaxBlocks :
                      lower <= upper /\ upper - lower <= n =>
                          Least(f[<<lower, upper>>], C, lower, upper)}
  <1>1. MinBlocks \in Nat /\ MaxBlocks \in Nat /\ MinBlocks <= MaxBlocks
    BY Blocks
  <1>2. ASSUME NEW lower \in MinBlocks..MaxBlocks PROVE Least(f[<<lower, lower>>], C, lower, lower)
    <2>1. lower \in Nat /\ lower >= lower
      BY <1>1
    <2>2. f[<<lower, lower>>] = lower
      BY <2>1 DEF Halves
    <2> QED  BY <2>1, <2>2 DEF Least
  <1>3. 0 \in T
    <2>1. ASSUME NEW lower \in MinBlocks..MaxBlocks, NEW upper \in MinBlocks..MaxBlocks,
                 lower <= upper, upper - lower <= 0
          PROVE  Least(f[<<lower, upper>>], C, lower, upper)
      <3>1. lower = upper
        BY <1>1, <2>1
      <3> QED  BY <1>2, <3>1
    <2> QED  BY <2>1
  <1>4. ASSUME NEW n \in Nat, n \in T PROVE n + 1 \in T
    <2>1. ASSUME NEW lower \in MinBlocks..MaxBlocks, NEW upper \in MinBlocks..MaxBlocks,
                 lower <= upper, upper - lower <= n + 1
          PROVE  Least(f[<<lower, upper>>], C, lower, upper)
      <3> DEFINE middle == Middle(lower, upper)
      <3>1. lower \in Nat /\ upper \in Nat /\ MinBlocks <= lower /\ upper <= MaxBlocks
        BY <1>1
      <3>2. CASE lower = upper
        BY <1>2, <3>2
      <3>3. CASE lower # upper
        <4>1. lower < upper /\ ~(lower >= upper)
          BY <2>1, <3>1, <3>3
        <4>2. middle \in Nat /\ lower <= middle /\ middle < upper
          BY <3>1, <4>1, MiddleBetween
        <4> HIDE DEF middle
        <4>3. middle \in MinBlocks..MaxBlocks /\ middle + 1 \in MinBlocks..MaxBlocks /\ middle + 1 <= upper
              /\ middle - lower <= n /\ upper - (middle + 1) <= n
          BY <1>1, <2>1, <3>1, <4>2
        <4>4. Least(f[<<lower, middle>>], C, lower, middle)
          BY <1>4, <4>2, <4>3
        <4>5. Least(f[<<middle + 1, upper>>], C, middle + 1, upper)
          BY <1>4, <4>3
        <4>6. CASE middle \in C
          <5>1. f[<<lower, upper>>] = f[<<lower, middle>>]
            BY <4>1, <4>6 DEF Halves, middle
          <5>2. Least(f[<<lower, middle>>], C, lower, upper)
            BY <4>1, <4>4, <4>6, LeastByHalves DEF middle
          <5> QED  BY <5>1, <5>2
        <4>7. CASE middle \notin C
          <5>1. f[<<lower, upper>>] = f[<<middle + 1, upper>>]
            BY <4>1, <4>7 DEF Halves, middle
          <5>2. Least(f[<<middle + 1, upper>>], C, lower, upper)
            BY <4>1, <4>5, <4>7, LeastByHalves DEF middle
          <5> QED  BY <5>1, <5>2
        <4> QED  BY <4>6, <4>7
      <3> QED  BY <3>2, <3>3
    <2> QED  BY <2>1
  <1> HIDE DEF T
  <1>5. Nat \subseteq T
    BY <1>3, <1>4, NatSetInduction
  <1>6. MinBlocks \in MinBlocks..MaxBlocks /\ MaxBlocks \in MinBlocks..MaxBlocks /\ MaxBlocks - MinBlocks \in Nat
    BY <1>1
  <1>7. MaxBlocks - MinBlocks \in T
    BY <1>5, <1>6
  <1> QED  BY <1>1, <1>6, <1>7 DEF T

\* The code's search finds the least size that covers.
LEMMA SearchFinds ==
  ASSUME NEW size \in Nat, NEW parts \in Nat \ {0}, NEW g \in Nat \ {0}
  PROVE  Least(Search(size, parts, g)[<<MinBlocks, MaxBlocks>>], Covering(size, parts, g), MinBlocks, MaxBlocks)
  <1> DEFINE C == Covering(size, parts, g)
             f == Search(size, parts, g)
             w == [range \in (MinBlocks..MaxBlocks) \X (MinBlocks..MaxBlocks) |-> Found(C, range[1], range[2])]
  <1>1. Upward(C)
    BY CoveringUpward
  <1>2. ASSUME NEW lower \in MinBlocks..MaxBlocks, NEW upper \in MinBlocks..MaxBlocks, ~(lower >= upper)
        PROVE  Middle(lower, upper) \in C <=>
                  ScheduleCovers(Middle(lower, upper) * BlockSize, size, parts, g)
    <2>1. MinBlocks \in Nat /\ MaxBlocks \in Nat
      BY Blocks
    <2>2. lower \in Nat /\ upper \in Nat /\ MinBlocks <= lower /\ upper <= MaxBlocks /\ lower < upper
      BY <1>2, <2>1
    <2>3. /\ Middle(lower, upper) \in Nat
          /\ lower <= Middle(lower, upper) /\ Middle(lower, upper) < upper
      BY <2>2, MiddleBetween
    <2>4. Middle(lower, upper) \in MinBlocks..MaxBlocks
      BY <2>1, <2>2, <2>3
    <2> QED  BY <2>4 DEF Covering
  <1>3. Halves(w, C)
    BY <1>1, HalvesExists
  <1> HIDE DEF C
  <1>4. w = [range \in (MinBlocks..MaxBlocks) \X (MinBlocks..MaxBlocks) |-> w[range]]
    OBVIOUS
  <1> HIDE DEF w
  <1>5. IsSearch(w, size, parts, g)
    <2>1. ASSUME NEW lower \in MinBlocks..MaxBlocks, NEW upper \in MinBlocks..MaxBlocks
          PROVE  w[<<lower, upper>>] =
                   IF lower >= upper THEN lower
                   ELSE IF ScheduleCovers(Middle(lower, upper) * BlockSize, size, parts, g)
                        THEN w[<<lower, Middle(lower, upper)>>]
                        ELSE w[<<Middle(lower, upper) + 1, upper>>]
      BY <1>2, <1>3 DEF Halves
    <2>2. ASSUME NEW range \in (MinBlocks..MaxBlocks) \X (MinBlocks..MaxBlocks)
          PROVE  /\ range[1] \in MinBlocks..MaxBlocks /\ range[2] \in MinBlocks..MaxBlocks
                 /\ range = <<range[1], range[2]>>
      OBVIOUS
    <2>3. ASSUME NEW range \in (MinBlocks..MaxBlocks) \X (MinBlocks..MaxBlocks)
          PROVE  w[range] =
                   IF range[1] >= range[2] THEN range[1]
                   ELSE IF ScheduleCovers(Middle(range[1], range[2]) * BlockSize, size, parts, g)
                        THEN w[<<range[1], Middle(range[1], range[2])>>]
                        ELSE w[<<Middle(range[1], range[2]) + 1, range[2]>>]
      BY <2>1, <2>2
    <2> QED  BY <1>4, <2>3 DEF IsSearch
  <1>6. IsSearch(f, size, parts, g)
    BY <1>5 DEF Search
  <1> HIDE DEF f
  <1>7. Halves(f, C)
    <2>1. ASSUME NEW lower \in MinBlocks..MaxBlocks, NEW upper \in MinBlocks..MaxBlocks
          PROVE  f[<<lower, upper>>] =
                   IF lower >= upper THEN lower
                   ELSE IF ScheduleCovers(Middle(lower, upper) * BlockSize, size, parts, g)
                        THEN f[<<lower, Middle(lower, upper)>>]
                        ELSE f[<<Middle(lower, upper) + 1, upper>>]
      BY <1>6 DEF IsSearch
    <2> QED  BY <1>2, <2>1 DEF Halves
  <1>8. Least(f[<<MinBlocks, MaxBlocks>>], C, MinBlocks, MaxBlocks)
    BY <1>1, <1>7, HalvesFinds
  <1> QED  BY <1>8 DEF f, C

\* InitialPartSize is a multiple of a block, the schedule that starts with it has room for
\* the file, and the one that starts with a block less has not.
LEMMA InitialIsLeast ==
  ASSUME NEW size \in Nat, NEW parts \in Nat, Accepts(size, parts), NEW g \in Nat \ {0}
  PROVE  LET initial == InitialPartSize(size, parts, g)
         IN  /\ initial \in Initial
             /\ Room(initial, g)[parts] >= size
             /\ initial > MIN_MULTIPART_PART_SIZE =>
                  /\ initial - BlockSize \in Initial
                  /\ Room(initial - BlockSize, g)[parts] < size
  <1> DEFINE b == Search(size, parts, g)[<<MinBlocks, MaxBlocks>>]
             initial == InitialPartSize(size, parts, g)
             C == Covering(size, parts, g)
  <1>1. parts \in Nat \ {0} /\ size <= MAX_MULTIPART_PART_SIZE * parts
    BY DEF Accepts
  <1>2. Least(b, C, MinBlocks, MaxBlocks)
    BY <1>1, SearchFinds
  <1>3. initial = b * BlockSize
    BY SearchedSize
  <1> HIDE DEF b, initial
  <1>4. /\ MinBlocks \in Nat \ {0} /\ MaxBlocks \in Nat /\ MinBlocks <= MaxBlocks
        /\ MinBlocks * BlockSize = MIN_MULTIPART_PART_SIZE
        /\ MaxBlocks * BlockSize = MAX_MULTIPART_PART_SIZE
    BY Blocks
  <1>5. b \in MinBlocks..MaxBlocks /\ b \in Nat
    BY <1>2, <1>4 DEF Least
  <1>6. ASSUME NEW k \in MinBlocks..MaxBlocks
        PROVE  /\ k * BlockSize \in Initial
               /\ k \in C <=> Room(k * BlockSize, g)[parts] >= size
    <2>1. k * BlockSize \in Initial
      BY Blocks
    <2> DEFINE i == k * BlockSize
    <2>2. i \in Initial
      BY <2>1
    <2>3. k \in C <=> ScheduleCovers(i, size, parts, g)
      BY DEF Covering
    <2> HIDE DEF i, C
    <2>4. ScheduleCovers(i, size, parts, g) <=> Room(i, g)[parts] >= size
      BY <1>1, <2>2, CoversIsRoom
    <2> QED  BY <2>1, <2>3, <2>4 DEF i
  <1>7. MaxBlocks \in C
    <2>1. Room(MAX_MULTIPART_PART_SIZE, g)[parts] = parts * MAX_MULTIPART_PART_SIZE
      BY RoomOfLargest
    <2>2. parts * MAX_MULTIPART_PART_SIZE = MAX_MULTIPART_PART_SIZE * parts
          /\ parts * MAX_MULTIPART_PART_SIZE \in Nat
      BY <1>1
    <2>3. Room(MAX_MULTIPART_PART_SIZE, g)[parts] >= size
      BY <1>1, <2>1, <2>2
    <2>4. MaxBlocks \in MinBlocks..MaxBlocks
      BY <1>4
    <2> QED  BY <1>4, <1>6, <2>3, <2>4
  <1> HIDE DEF C
  <1>8. b \in C
    BY <1>2, <1>7 DEF Least
  <1>9. ASSUME initial > MIN_MULTIPART_PART_SIZE
        PROVE  initial - BlockSize \in Initial /\ Room(initial - BlockSize, g)[parts] < size
    <2>1. b # MinBlocks
      BY <1>3, <1>4, <1>9
    <2> DEFINE k == b - 1
    <2>2. k \in MinBlocks..MaxBlocks /\ k < b /\ k \in Nat /\ b = k + 1
      BY <1>4, <1>5, <2>1
    <2> HIDE DEF k
    <2>3. k \notin C
      BY <1>2, <2>2 DEF Least
    <2>4. b * BlockSize = k * BlockSize + BlockSize /\ k * BlockSize \in Nat
      BY <2>2
    <2>5. initial - BlockSize = k * BlockSize
      BY <1>3, <2>4
    <2>6. ~(Room(k * BlockSize, g)[parts] >= size) /\ k * BlockSize \in Initial
      BY <1>6, <2>2, <2>3
    <2>7. Room(k * BlockSize, g)[parts] \in Nat
      <3>1. Room(k * BlockSize, g) \in [Nat -> Nat]
        BY <2>6, RoomFacts
      <3> QED  BY <3>1
    <2> QED  BY <2>5, <2>6, <2>7
  <1> QED  BY <1>3, <1>5, <1>6, <1>8, <1>9 DEF initial

\* A tier has a part.
LEMMA GrowthIntervalType ==
  ASSUME NEW parts \in Nat \ {0}
  PROVE  GrowthInterval(parts) \in Nat \ {0}
  <1> DEFINE n == parts + PART_SIZE_TIERS - 1
             q == n \div PART_SIZE_TIERS
  <1>1. n \in Nat /\ n >= PART_SIZE_TIERS
    OBVIOUS
  <1> HIDE DEF n
  <1>2. q \in Nat /\ n < q * PART_SIZE_TIERS + PART_SIZE_TIERS
    BY <1>1
  <1> HIDE DEF q
  <1>3. q # 0
    BY <1>1, <1>2
  <1> QED  BY <1>2, <1>3 DEF GrowthInterval, q, n

-----------------------------------------------------------------------------
(* The configurations that are made. *)

\* A configuration is made of accepted limits, with the interval and the size derived from
\* them.
ConfigInv ==
    \/ config = NoConfig
    \/ \E size \in Nat, parts \in Nat :
          /\ Accepts(size, parts)
          /\ config = [max_file_size     |-> size,
                       max_parts         |-> parts,
                       growth_interval   |-> GrowthInterval(parts),
                       initial_part_size |-> InitialPartSize(size, parts, GrowthInterval(parts))]

\* No configuration has been made at first,
LEMMA ConfigInvInit == ConfigInit => ConfigInv
  BY DEF ConfigInit, ConfigInv

\* and Create makes no other.
LEMMA ConfigInvNext ==
  ASSUME ConfigInv, ReadFrom \/ UNCHANGED config PROVE ConfigInv'
  <1>1. CASE UNCHANGED config
    BY <1>1 DEF ConfigInv
  <1>2. CASE ReadFrom
    <2>1. PICK size \in FileSizes, parts \in PartCounts : Create(size, parts)
      BY <1>2 DEF ReadFrom
    <2>2. size \in Nat /\ parts \in Nat
      OBVIOUS
    <2> QED  BY <2>1, <2>2 DEF Create, ConfigInv
  <1> QED  BY <1>1, <1>2

\* So every configuration is tight.
LEMMA ConfigIsTight ==
  ASSUME ConfigInv PROVE ScheduleIsTight
  <1>1. SUFFICES ASSUME config # NoConfig PROVE
           /\ ConfigCapacity(config.initial_part_size) >= config.max_file_size
           /\ config.initial_part_size > MIN_MULTIPART_PART_SIZE =>
                 ConfigCapacity(config.initial_part_size - BlockSize) < config.max_file_size
    BY DEF ScheduleIsTight
  <1>2. PICK size \in Nat, parts \in Nat :
           /\ Accepts(size, parts)
           /\ config = [max_file_size     |-> size,
                        max_parts         |-> parts,
                        growth_interval   |-> GrowthInterval(parts),
                        initial_part_size |-> InitialPartSize(size, parts, GrowthInterval(parts))]
    BY <1>1 DEF ConfigInv
  <1> DEFINE g == GrowthInterval(parts)
             initial == InitialPartSize(size, parts, g)
  <1>3. g \in Nat \ {0}
    <2>1. parts \in Nat \ {0}
      BY <1>2 DEF Accepts
    <2> QED  BY <2>1, GrowthIntervalType
  <1>4. /\ config.max_file_size = size /\ config.max_parts = parts
        /\ config.growth_interval = g /\ config.initial_part_size = initial
    BY <1>2
  <1> HIDE DEF g
  <1>5. /\ Room(initial, g)[parts] >= size
        /\ initial > MIN_MULTIPART_PART_SIZE => Room(initial - BlockSize, g)[parts] < size
    BY <1>2, <1>3, InitialIsLeast
  <1> HIDE DEF initial
  <1>6. \A i : ConfigCapacity(i) = Room(i, g)[parts]
    BY <1>4, CapacityIsRoom DEF ConfigCapacity
  <1> QED  BY <1>4, <1>5, <1>6

\* Every configuration that ReadFrom makes has the least initial size whose schedule has
\* room for the largest file: the binary search over ScheduleCovers, which counts by tiers
\* and compares by division, is right about the sum over all parts.
THEOREM SchedulesAreTight == ConfigSpec => []ScheduleIsTight
  <1>1. ConfigInit => ConfigInv
    BY ConfigInvInit
  <1>2. ConfigInv /\ [ReadFrom]_config => ConfigInv'
    BY ConfigInvNext
  <1>3. ConfigInv => ScheduleIsTight
    BY ConfigIsTight
  <1> QED  BY <1>1, <1>2, <1>3, PTL DEF ConfigSpec

\* The same of the configurations made on the way to a session of the composed system.
THEOREM SizedSchedulesAreTight == SizedSpec => []ScheduleIsTight
  <1>1. SizedInit => ConfigInv
    BY ConfigInvInit DEF SizedInit
  <1>2. ConfigInv /\ [SizedNext]_sizedVars => ConfigInv'
    BY ConfigInvNext DEF SizedNext, sizedVars
  <1>3. ConfigInv => ScheduleIsTight
    BY ConfigIsTight
  <1> QED  BY <1>1, <1>2, <1>3, PTL DEF SizedSpec

-----------------------------------------------------------------------------
(* The room in the parts of a session. *)

USE SessionAssumption DEF SessionAssumption

Interval  == GrowthInterval(MaxParts)
FirstPart == InitialPartSize(MaxFileSize, MaxParts, Interval)

\* What the first n parts of the session hold when each has its scheduled size.
SessionRoom == Room(FirstPart, Interval)

\* The sizes of the tiers grow.
LEMMA SizesOrdered ==
  ASSUME NEW initial \in Initial, NEW n \in Nat, NEW m \in Nat, n <= m
  PROVE  Sizes(initial)[n] <= Sizes(initial)[m]
  <1> DEFINE s == Sizes(initial)
             T == {k \in Nat : s[n] <= s[n + k]}
  <1>1. s \in [Nat -> Initial] /\ \A k \in Nat : s[k] <= s[k + 1]
    BY SizesFacts, SizesGrow
  <1> HIDE DEF s
  <1>2. \A k \in Nat : s[k] \in Nat
    <2>1. \A k \in Nat : s[k] \in Initial
      BY <1>1
    <2> QED  BY <2>1 DEF Initial
  <1>3. 0 \in T
    BY <1>2
  <1>4. ASSUME NEW k \in Nat, k \in T PROVE k + 1 \in T
    <2> DEFINE j == n + k
    <2>1. j \in Nat /\ n + (k + 1) = j + 1 /\ s[n] <= s[j]
      BY <1>4
    <2> HIDE DEF j
    <2>2. s[j] <= s[j + 1] /\ s[n] \in Nat /\ s[j] \in Nat /\ s[j + 1] \in Nat
      BY <1>1, <1>2, <2>1
    <2> QED  BY SMTT(40), <2>1, <2>2
  <1> HIDE DEF T
  <1>5. Nat \subseteq T
    BY <1>3, <1>4, NatSetInduction
  <1>6. m - n \in Nat /\ n + (m - n) = m
    OBVIOUS
  <1>7. s[n] <= s[n + (m - n)]
    BY <1>5, <1>6 DEF T
  <1> QED  BY <1>6, <1>7 DEF s

\* Division keeps the order.
LEMMA DivOrdered ==
  ASSUME NEW g \in Nat \ {0}, NEW n \in Nat, NEW m \in Nat, n <= m
  PROVE  n \div g \in Nat /\ m \div g \in Nat /\ n \div g <= m \div g
  <1> DEFINE a == n \div g
             b == m \div g
  <1>1. a \in Nat /\ a * g <= n
    BY SMTT(40)
  <1>2. b \in Nat /\ m < b * g + g
    BY SMTT(40)
  <1> HIDE DEF a, b
  <1>3. a <= b
    <2>1. SUFFICES ASSUME b < a PROVE FALSE
      BY <1>1, <1>2
    <2> DEFINE k == a - (b + 1)
    <2>2. k \in Nat /\ a = b + 1 + k
      BY <1>1, <1>2, <2>1
    <2> HIDE DEF k
    <2>3. a * g = b * g + g + k * g /\ k * g \in Nat /\ b * g \in Nat
      BY <1>2, <2>2
    <2> QED  BY <1>1, <1>2, <2>3
  <1> QED  BY <1>1, <1>2, <1>3 DEF a, b

\* The session's parts follow the schedule, which covers the largest file.
LEMMA SessionSchedule ==
  /\ SessionRoom \in [Nat -> Nat] /\ SessionRoom[0] = 0
  /\ \A n \in 0..MaxParts : SessionRoom[n + 1] = SessionRoom[n] + PartSize[n]
  /\ \A n \in 0..MaxParts : PartSize[n] \in 1..MaxPartSize
  /\ \A n, m \in 0..MaxParts : n <= m => PartSize[n] <= PartSize[m]
  /\ \A n, m \in 0..MaxParts : n <= m => SessionRoom[n] <= SessionRoom[m]
  /\ SessionRoom[MaxParts] >= MaxFileSize
  <1> DEFINE g == Interval
             i == FirstPart
             s == Sizes(i)
  <1>1. Accepts(MaxFileSize, MaxParts) /\ PartSize = ConfiguredPartSize
    BY SizedAssumption DEF SizedAssumption
  <1>2. g \in Nat \ {0}
    BY GrowthIntervalType DEF Interval
  <1>3. i \in Initial /\ Room(i, g)[MaxParts] >= MaxFileSize
    BY <1>1, <1>2, InitialIsLeast DEF FirstPart
  <1>4. ASSUME NEW n \in 0..MaxParts PROVE PartSize[n] = s[n \div g]
    <2>1. PartSize[n] = ScheduledPartSize(i, g, n)
      BY <1>1 DEF ConfiguredPartSize, Interval, FirstPart
    <2> QED  BY <2>1, ScheduledSize
  <1> HIDE DEF g, i
  <1>5. /\ SessionRoom \in [Nat -> Nat] /\ SessionRoom[0] = 0
        /\ \A n \in Nat : SessionRoom[n + 1] = SessionRoom[n] + s[n \div g]
    BY <1>2, <1>3, RoomFacts DEF SessionRoom, i, g
  <1>6. ASSUME NEW n \in 0..MaxParts, NEW m \in 0..MaxParts, n <= m
        PROVE  PartSize[n] <= PartSize[m]
    <2>1. n \in Nat /\ m \in Nat
      OBVIOUS
    <2>2. n \div g \in Nat /\ m \div g \in Nat /\ n \div g <= m \div g
      BY <1>2, <1>6, <2>1, DivOrdered
    <2>3. s[n \div g] <= s[m \div g]
      BY <1>3, <2>2, SizesOrdered
    <2> QED  BY <1>4, <2>3
  <1>7. ASSUME NEW n \in 0..MaxParts, NEW m \in 0..MaxParts, n <= m
        PROVE  SessionRoom[n] <= SessionRoom[m]
    <2>1. n \in Nat /\ m \in Nat
      OBVIOUS
    <2> QED  BY <1>2, <1>3, <1>7, <2>1, RoomGrows DEF SessionRoom, i, g
  <1>8. \A n \in 0..MaxParts : SessionRoom[n + 1] = SessionRoom[n] + PartSize[n]
    <2>1. 0..MaxParts \subseteq Nat
      OBVIOUS
    <2> QED  BY <1>4, <1>5, <2>1
  <1>9. SessionRoom[MaxParts] >= MaxFileSize
    BY <1>3 DEF SessionRoom, i, g
  <1> QED  BY <1>5, <1>6, <1>7, <1>8, <1>9

\* k parts more hold at most k of the largest.
LEMMA RoomOfMany ==
  ASSUME NEW n \in 0..MaxParts
  PROVE  \A k \in Nat : n + k <= MaxParts =>
            SessionRoom[n + k] <= SessionRoom[n] + k * MaxPartSize
  <1> DEFINE T == {k \in Nat : n + k <= MaxParts =>
                      SessionRoom[n + k] <= SessionRoom[n] + k * MaxPartSize}
  <1>0. MaxPartSize \in Nat /\ n \in Nat
    OBVIOUS
  <1>1. /\ SessionRoom \in [Nat -> Nat]
        /\ \A m \in 0..MaxParts : SessionRoom[m + 1] = SessionRoom[m] + PartSize[m]
        /\ \A m \in 0..MaxParts : PartSize[m] \in 1..MaxPartSize
    BY SessionSchedule
  <1>2. 0 \in T
    BY <1>0, <1>1
  <1>3. ASSUME NEW k \in Nat, k \in T PROVE k + 1 \in T
    <2>1. SUFFICES ASSUME n + (k + 1) <= MaxParts
                   PROVE  SessionRoom[n + (k + 1)] <= SessionRoom[n] + (k + 1) * MaxPartSize
      OBVIOUS
    <2> DEFINE j == n + k
               x == k * MaxPartSize
               r == SessionRoom[n]
    <2>2. j \in 0..MaxParts /\ j \in Nat /\ n + (k + 1) = j + 1 /\ n + k <= MaxParts
      BY <1>0, <2>1
    <2>3. SessionRoom[j] <= r + x
      BY <1>3, <2>2
    <2> HIDE DEF j
    <2>4. x \in Nat /\ (k + 1) * MaxPartSize = x + MaxPartSize
      BY <1>0
    <2>5. r \in Nat /\ SessionRoom[j] \in Nat
      BY <1>0, <1>1, <2>2
    <2> HIDE DEF x, r
    <2>6. SessionRoom[j + 1] = SessionRoom[j] + PartSize[j] /\ PartSize[j] \in 1..MaxPartSize
      BY <1>1, <2>2
    <2>7. SessionRoom[j + 1] <= r + (x + MaxPartSize)
      BY <1>0, <2>3, <2>4, <2>5, <2>6
    <2> QED  BY <2>2, <2>4, <2>7 DEF r
  <1> HIDE DEF T
  <1>4. Nat \subseteq T
    BY <1>2, <1>3, NatSetInduction
  <1> QED  BY <1>4 DEF T

-----------------------------------------------------------------------------
(* How a write is cut, with the sizes of the schedule. *)

\* Why the loop over the input stops where it does, and not a part earlier.
LEMMA DirectCountStops ==
  ASSUME NEW r \in Nat, NEW base \in 0..MaxParts, NEW c, c = DirectCount(r, base)
  PROVE  /\ c \in Nat /\ base + c <= MaxParts
         /\ \/ c * MaxPartSize >= r
            \/ base + c = MaxParts
            \/ ShouldBuffer(r - c * MaxPartSize, base + c)
         /\ c > 0 => /\ (c - 1) * MaxPartSize < r
                     /\ PartSize[base + c - 1] <= r - (c - 1) * MaxPartSize
  <1> DEFINE Stop(k) == \/ k * MaxPartSize >= r
                        \/ ~HasPartCapacity(base + k)
                        \/ ShouldBuffer(r - k * MaxPartSize, base + k)
             S == {k \in 0..r : Stop(k)}
  <1>1. /\ c \in Nat /\ base + c <= MaxParts
        /\ \A k \in Nat : k < c => k * MaxPartSize < r
    BY DirectCountBounds
  <1>2. r \in S
    <2>1. r * MaxPartSize >= r
      OBVIOUS
    <2> QED  BY <2>1
  <1>3. c \in S /\ \A m \in S : c <= m
    <2>1. S \in SUBSET Nat /\ S # {}
      <3> HIDE DEF Stop
      <3> QED  BY SMTT(40), <1>2
    <2>2. c = Min(S)
      BY DEF DirectCount
    <2> HIDE DEF S
    <2> QED  BY <2>1, <2>2, MinIsLeast
  <1>4. Stop(c)
    BY <1>3
  <1>5. ~HasPartCapacity(base + c) => base + c = MaxParts
    BY <1>1 DEF HasPartCapacity
  <1>6. ASSUME c > 0
        PROVE  /\ (c - 1) * MaxPartSize < r
               /\ PartSize[base + c - 1] <= r - (c - 1) * MaxPartSize
    <2> DEFINE k == c - 1
               x == k * MaxPartSize
               n == base + k
    <2>1. k \in Nat /\ k < c /\ k \in 0..r
      BY <1>1, <1>3, <1>6
    <2>2. x \in Nat /\ x < r
      BY SMTT(40), <1>1, <2>1
    <2>3. ~Stop(k)
      <3>1. k \notin S
        <4> HIDE DEF S, k
        <4> QED  BY <1>1, <1>3, <2>1
      <3> HIDE DEF Stop, k
      <3> QED  BY <2>1, <3>1
    <2>4. ~ShouldBuffer(r - x, n)
      BY <2>3
    <2>5. n \in 0..MaxParts /\ n = base + c - 1
      <3>1. base \in Nat /\ c \in Nat /\ c > 0 /\ base + c <= MaxParts
        BY <1>1, <1>6
      <3> QED  BY ONLY <3>1, MaxParts \in Nat
    <2>6. PartSize[n] \in Nat
      BY <2>5
    <2> HIDE DEF n, x
    <2>7. PartSize[n] <= r - x
      BY <2>2, <2>4, <2>6 DEF ShouldBuffer
    <2> QED  BY <2>2, <2>5, <2>7 DEF x
  <1> QED  BY <1>1, <1>4, <1>5, <1>6

\* What PrepareWrite makes of a write that does not overflow with its full buffer.
Base(size) == Len(part_etags) + IF Flushes(buffered_part, size) THEN 1 ELSE 0
Low(size)  == next_offset + Copied(buffered_part, size)
Count(size) == DirectCount((next_offset + size) - Low(size), Base(size))
TailOf(size) == DirectEnd(Low(size), next_offset + size, Count(size))

\* PreparedWrite, in these terms.
LEMMA PreparedShape ==
  ASSUME DataTypeInv, NEW size \in Nat, NEW p, p = PreparedWrite(next_offset, size),
         ~(Flushes(buffered_part, size) /\ ~HasPartCapacity(Len(part_etags)))
  PROVE  LET hi == next_offset + size
         IN  /\ p.fits <=> \/ TailOf(size) = hi
                           \/ ShouldBuffer(hi - TailOf(size), Base(size) + Count(size))
             /\ Len(part_etags) + Len(p.parts) = Base(size) + Count(size)
             /\ p.buffer = IF TailOf(size) < hi
                           THEN [bytes    |-> Bytes(TailOf(size), hi),
                                 capacity |-> PartSize[Base(size) + Count(size)]]
                           ELSE IF buffered_part = None \/ Flushes(buffered_part, size) THEN None
                           ELSE Appended(buffered_part, next_offset, size)
             /\ next_offset \in Nat /\ Low(size) \in Nat /\ next_offset <= Low(size) /\ Low(size) <= hi
             /\ Base(size) \in 0..MaxParts
  <1> DEFINE reserved == Len(part_etags)
             flushes  == Flushes(buffered_part, size)
             lo       == next_offset + Copied(buffered_part, size)
             hi       == next_offset + size
             appended == Appended(buffered_part, next_offset, size)
             first    == [part_number |-> reserved + 1, bytes |-> appended.bytes]
             flushed  == IF flushes THEN <<first>> ELSE <<>>
             base     == reserved + Len(flushed)
             c        == DirectCount(hi - lo, base)
             tail     == DirectEnd(lo, hi, c)
             D        == DirectParts(lo, hi, base, c)
  <1>1. base = Base(size) /\ lo = Low(size) /\ Len(flushed) \in {0, 1}
    BY DEF Base, Low
  <1>2. /\ p.fits <=> tail = hi \/ ShouldBuffer(hi - tail, base + c)
        /\ p.parts = flushed \o D
        /\ p.buffer = IF tail < hi
                      THEN [bytes |-> Bytes(tail, hi), capacity |-> PartSize[base + c]]
                      ELSE IF buffered_part = None \/ flushes THEN None ELSE appended
    BY DEF PreparedWrite, DirectEnd
  <1>3. /\ next_offset \in Nat /\ reserved \in 0..MaxParts
        /\ Copied(buffered_part, size) \in 0..size
    BY SMTT(40), CopiedBounds DEF DataTypeInv
  <1>4. lo \in Nat /\ next_offset <= lo /\ lo <= hi /\ hi \in Nat
    BY <1>3
  <1>5. base \in 0..MaxParts
    BY <1>3 DEF HasPartCapacity
  <1>6. flushed \in Seq({first})
    <2> HIDE DEF first, flushes
    <2>1. flushed = <<first>> \/ flushed = <<>>
      OBVIOUS
    <2>2. <<first>> \in Seq({first}) /\ <<>> \in Seq({first})
      OBVIOUS
    <2> HIDE DEF flushed
    <2> QED  BY <2>1, <2>2
  <1>7. /\ c = DirectCount(hi - lo, base) /\ D = DirectParts(lo, hi, base, c)
        /\ base = reserved + Len(flushed) /\ tail = DirectEnd(lo, hi, c)
        /\ hi = next_offset + size
    OBVIOUS
  <1> HIDE DEF reserved, lo, hi, base, c, tail, D, flushed, first, flushes, appended
  <1>8. DirectCut(lo, hi, base, c)
    BY ONLY <1>4, <1>5, <1>7, DirectPartsCut
  <1>9. D \in Seq(PreparedPart) /\ Len(D) = c /\ c \in Nat
    BY ONLY <1>7, <1>8 DEF DirectCut
  <1>10. Len(flushed \o D) = Len(flushed) + Len(D)
    <2> DEFINE V == PreparedPart \cup {first}
    <2>1. flushed \in Seq(V) /\ D \in Seq(V)
      BY ONLY <1>6, <1>9
    <2> HIDE DEF V
    <2> QED  BY ONLY <2>1, ConcatProperties
  <1>11. c = Count(size) /\ tail = TailOf(size)
    <2>1. hi - lo = (next_offset + size) - Low(size)
      BY <1>1, <1>7
    <2>2. c = Count(size)
      BY ONLY <1>1, <1>7, <2>1, Zenon DEF Count
    <2> QED  BY ONLY <1>1, <1>7, <2>2, Zenon DEF TailOf
  <1>12. reserved + Len(p.parts) = base + c
    BY ONLY <1>1, <1>2, <1>3, <1>7, <1>9, <1>10
  <1> QED
    BY ONLY <1>1, <1>2, <1>3, <1>4, <1>5, <1>7, <1>11, <1>12 DEF reserved, flushes, appended

\* Where the loop ends.
LEMMA TailFacts ==
  ASSUME NEW lo \in Nat, NEW hi \in Nat, lo <= hi, NEW c \in Nat
  PROVE  /\ c * MaxPartSize \in Nat
         /\ DirectEnd(lo, hi, c) = IF lo + c * MaxPartSize <= hi THEN lo + c * MaxPartSize ELSE hi
         /\ DirectEnd(lo, hi, c) \in lo..hi
  <1> DEFINE x == c * MaxPartSize
             a == lo + x
  <1>1. x \in Nat
    OBVIOUS
  <1> HIDE DEF x
  <1>2. a \in Nat /\ lo <= a
    BY <1>1
  <1>3. DirectEnd(lo, hi, c) = Min({a, hi})
    BY DEF DirectEnd, x
  <1> HIDE DEF a
  <1>4. Min({a, hi}) = IF a <= hi THEN a ELSE hi
    BY <1>2, MinOfTwo
  <1>5. DirectEnd(lo, hi, c) = (IF a <= hi THEN a ELSE hi) /\ DirectEnd(lo, hi, c) \in lo..hi
    BY <1>2, <1>3, <1>4
  <1> QED  BY <1>1, <1>5 DEF a, x

\* The types of both.
LEMMA RoomTypes ==
  ASSUME NEW n \in 0..MaxParts
  PROVE  SessionRoom[n] \in Nat /\ PartSize[n] \in Nat /\ PartSize[n] >= 1
  <1>1. n \in Nat
    OBVIOUS
  <1>2. SessionRoom \in [Nat -> Nat]
    BY SessionSchedule
  <1>3. SessionRoom[n] \in Nat
    BY ONLY <1>1, <1>2
  <1>4. PartSize[n] \in 1..MaxPartSize
    BY SessionSchedule
  <1> QED  BY <1>3, <1>4

\* A write that starts behind the parts reserved so far, or at least inside the last of
\* them, is used up or leaves a rest that is buffered: the part numbers do not run out.
LEMMA InputFits ==
  ASSUME NEW lo \in Nat, NEW hi \in Nat, lo <= hi, hi <= MaxFileSize, NEW base \in 0..MaxParts,
         NEW c, c = DirectCount(hi - lo, base), NEW tail, tail = DirectEnd(lo, hi, c),
         base > 0 => lo >= SessionRoom[base - 1] + 1
  PROVE  tail = hi \/ ShouldBuffer(hi - tail, base + c)
  <1> DEFINE r == hi - lo
             x == c * MaxPartSize
  <1>1. r \in Nat
    OBVIOUS
  <1>2. /\ c \in Nat /\ base + c <= MaxParts
        /\ x >= r \/ base + c = MaxParts \/ ShouldBuffer(r - x, base + c)
    BY <1>1, DirectCountStops
  <1>3. x \in Nat /\ tail = IF lo + x <= hi THEN lo + x ELSE hi
    BY <1>2, TailFacts
  <1> HIDE DEF x
  <1>4. SUFFICES ASSUME tail # hi PROVE ShouldBuffer(hi - tail, base + c)
    OBVIOUS
  <1>5. tail = lo + x /\ tail < hi /\ hi - tail = r - x /\ x < r
    BY <1>3, <1>4
  <1>6. CASE ShouldBuffer(r - x, base + c)
    BY <1>5, <1>6
  <1>7. CASE base + c = MaxParts
    <2>1. SessionRoom[MaxParts] >= hi
      <3>1. SessionRoom[MaxParts] \in Nat /\ SessionRoom[MaxParts] >= MaxFileSize
        BY SessionSchedule
      <3> QED  BY <3>1
    <2>2. SessionRoom[MaxParts] <= SessionRoom[base] + x
      BY <1>2, <1>7, RoomOfMany DEF x
    <2>3. SessionRoom[base] \in Nat /\ SessionRoom[MaxParts] \in Nat /\ SessionRoom[0] = 0
      BY SessionSchedule
    <2>4. base > 0
      <3>1. SUFFICES ASSUME base = 0 PROVE FALSE
        OBVIOUS
      <3>2. hi <= x
        BY SMTT(40), <1>3, <2>1, <2>2, <2>3, <3>1
      <3> QED  BY <1>3, <1>5, <3>2
    <2> DEFINE b == base - 1
    <2>5. b \in 0..MaxParts /\ b \in Nat /\ b + 1 = base /\ base + c \in 0..MaxParts /\ b <= base + c
      BY SMTT(40), <1>2, <2>4
    <2>6. lo >= SessionRoom[b] + 1
      BY <2>4
    <2> HIDE DEF b
    <2>7. SessionRoom[b + 1] = SessionRoom[b] + PartSize[b] /\ PartSize[b] <= PartSize[base + c]
      BY <2>5, SessionSchedule
    <2>8. SessionRoom[b] \in Nat /\ PartSize[b] \in Nat /\ PartSize[base + c] \in Nat
      BY <2>5, RoomTypes
    <2>9. hi - tail < PartSize[base + c]
      <3> DEFINE w == SessionRoom[b]
                 p == PartSize[b]
                 q == PartSize[base + c]
                 y == SessionRoom[base]
                 z == SessionRoom[MaxParts]
      <3>1. /\ w \in Nat /\ p \in Nat /\ q \in Nat /\ y \in Nat /\ z \in Nat
            /\ lo >= w + 1 /\ p <= q /\ y = w + p /\ z >= hi /\ z <= y + x
        BY <2>1, <2>2, <2>3, <2>5, <2>6, <2>7, <2>8
      <3> HIDE DEF w, p, q, y, z
      <3>2. hi - tail < q
        BY ONLY <1>3, <1>5, <3>1, lo \in Nat, hi \in Nat
      <3> QED  BY <3>2 DEF q
    <2>10. base + c # 0
      BY <1>2, <2>4
    <2> QED  BY <2>9, <2>10 DEF ShouldBuffer
  <1>8. ~(x >= r)
    BY <1>1, <1>3, <1>5
  <1> QED  BY <1>2, <1>6, <1>7, <1>8

\* Where a write starts behind the parts reserved so far, it ends behind its own.
LEMMA InputFills ==
  ASSUME NEW lo \in Nat, NEW hi \in Nat, lo <= hi, NEW base \in 0..MaxParts,
         NEW c, c = DirectCount(hi - lo, base), NEW tail, tail = DirectEnd(lo, hi, c),
         lo >= SessionRoom[base]
  PROVE  tail \in Nat /\ tail <= hi /\ tail >= SessionRoom[base + c]
  <1> DEFINE r == hi - lo
             x == c * MaxPartSize
  <1>1. r \in Nat
    OBVIOUS
  <1>2. /\ c \in Nat /\ base + c <= MaxParts
        /\ c > 0 => /\ (c - 1) * MaxPartSize < r
                    /\ PartSize[base + c - 1] <= r - (c - 1) * MaxPartSize
    BY <1>1, DirectCountStops
  <1>3. x \in Nat /\ tail = IF lo + x <= hi THEN lo + x ELSE hi
    BY <1>2, TailFacts
  <1> HIDE DEF x
  <1>4. SessionRoom[base] \in Nat /\ SessionRoom[base + c] \in Nat
    <2>1. base \in Nat /\ base + c \in Nat
      BY <1>2
    <2>2. SessionRoom \in [Nat -> Nat]
      BY SessionSchedule
    <2> QED  BY ONLY <2>1, <2>2
  <1>5. CASE tail = lo + x
    <2>1. SessionRoom[base + c] <= SessionRoom[base] + x
      BY <1>2, RoomOfMany DEF x
    <2> DEFINE w == SessionRoom[base]
               y == SessionRoom[base + c]
    <2>2. w \in Nat /\ y \in Nat /\ y <= w + x /\ lo >= w
      BY <1>4, <2>1
    <2> HIDE DEF w, y
    <2>3. tail \in Nat /\ tail <= hi /\ tail >= y
      BY ONLY <1>3, <1>5, <2>2, lo \in Nat, hi \in Nat
    <2> QED  BY <2>3 DEF y
  <1>6. CASE tail = hi /\ c = 0
    BY <1>4, <1>6
  <1>7. CASE tail = hi /\ c > 0
    <2> DEFINE k == c - 1
               y == k * MaxPartSize
               n == base + k
    <2>1. k \in Nat /\ n \in Nat /\ n <= MaxParts /\ n + 1 = base + c /\ base + c - 1 = n
      <3>1. c \in Nat /\ c > 0 /\ base \in Nat /\ base + c <= MaxParts /\ MaxParts \in Nat
        BY <1>2, <1>7
      <3> QED  BY ONLY <3>1
    <2>2. n \in 0..MaxParts /\ base + k <= MaxParts
      BY <2>1
    <2>3. y \in Nat
      BY SMTT(40), <2>1
    <2>4. PartSize[base + c - 1] <= r - y
      BY <1>2, <1>7
    <2>5. PartSize[n] <= r - y
      BY <2>1, <2>4
    <2>6. SessionRoom[n] <= SessionRoom[base] + y
      BY <2>1, <2>2, RoomOfMany
    <2> HIDE DEF y, n
    <2>7. SessionRoom[n + 1] = SessionRoom[n] + PartSize[n]
      BY <2>2, SessionSchedule
    <2> DEFINE w == SessionRoom[base]
               z == SessionRoom[base + c]
               v == SessionRoom[n]
               p == PartSize[n]
    <2>8. /\ w \in Nat /\ z \in Nat /\ v \in Nat /\ p \in Nat
          /\ p <= r - y /\ v <= w + y /\ z = v + p /\ lo >= w
      <3>1. v \in Nat /\ p \in Nat
        BY <2>2, RoomTypes
      <3> QED  BY <1>4, <2>1, <2>5, <2>6, <2>7, <3>1
    <2> HIDE DEF w, z, v, p
    <2>9. z <= hi
      BY <1>1, <2>3, <2>8
    <2> QED  BY <1>7, <2>8, <2>9 DEF z
  <1> QED  BY <1>2, <1>3, <1>5, <1>6, <1>7

-----------------------------------------------------------------------------
(* The accepted input fills the parts that are reserved. *)

\* Nobody has failed, or is about to.
Sound == ~failed /\ \A t \in Threads : pc[t] # "LatchFailure"

\* A buffer holds something, has the size of the next part, and what it holds lies behind
\* the room of the parts reserved.
BufferRoom(buffer) ==
    buffer # None =>
        /\ Len(buffer.bytes) >= 1
        /\ buffer.capacity = PartSize[Len(part_etags)]
        /\ next_offset >= SessionRoom[Len(part_etags)] + Len(buffer.bytes)

\* The reserved parts are full, but for the last one, which a Finalize makes of what is left.
RoomInv ==
    Sound =>
        /\ Len(part_etags) > 0 => next_offset >= SessionRoom[Len(part_etags) - 1] + 1
        /\ BufferRoom(buffered_part)
        /\ lifecycle_state \notin {"FINALIZING", "FINALIZED"} =>
              next_offset >= SessionRoom[Len(part_etags)]
        /\ \A t \in Threads : pc[t] = "Finalize" => BufferRoom(local_buffered_part[t])

\* Parts that are full have a last one that is not empty.
LEMMA FullParts ==
  ASSUME NEW n \in 0..MaxParts, NEW offset \in Nat, offset >= SessionRoom[n]
  PROVE  n > 0 => offset >= SessionRoom[n - 1] + 1
  <1>1. SUFFICES ASSUME n > 0 PROVE offset >= SessionRoom[n - 1] + 1
    OBVIOUS
  <1> DEFINE k == n - 1
  <1>2. k \in 0..MaxParts /\ k + 1 = n
    BY <1>1
  <1> HIDE DEF k
  <1>3. SessionRoom[k + 1] = SessionRoom[k] + PartSize[k]
    BY <1>2, SessionSchedule
  <1> DEFINE a == SessionRoom[k]
             p == PartSize[k]
  <1>4. a \in Nat /\ p \in Nat /\ p >= 1 /\ offset >= a + p
    BY <1>2, <1>3, RoomTypes
  <1> HIDE DEF a, p
  <1>5. offset >= a + 1
    BY <1>4
  <1> QED  BY <1>5 DEF a, k

\* Whoever has bytes behind the parts reserved has a part number for them.
LEMMA PartForRest ==
  ASSUME NEW n \in 0..MaxParts, NEW k \in Nat, k >= 1, NEW offset \in 0..MaxFileSize,
         offset >= SessionRoom[n] + k
  PROVE  n < MaxParts
  <1>1. SUFFICES ASSUME n = MaxParts PROVE FALSE
    OBVIOUS
  <1> DEFINE a == SessionRoom[MaxParts]
  <1>2. MaxParts \in 0..MaxParts
    OBVIOUS
  <1>3. a \in Nat /\ a >= MaxFileSize /\ offset >= a + k
    BY <1>1, <1>2, RoomTypes, SessionSchedule
  <1> HIDE DEF a
  <1> QED  BY <1>3

\* A full buffer has a part number, and what follows it in the input starts behind its part.
LEMMA FlushRoom ==
  ASSUME DataTypeInv, NEW size \in Nat, BufferRoom(buffered_part), Flushes(buffered_part, size)
  PROVE  /\ HasPartCapacity(Len(part_etags))
         /\ Low(size) >= SessionRoom[Len(part_etags) + 1]
  <1> DEFINE n == Len(part_etags)
             b == Len(buffered_part.bytes)
             p == PartSize[n]
             a == SessionRoom[n]
             copied == Copied(buffered_part, size)
  <1>1. n \in 0..MaxParts /\ next_offset \in 0..MaxFileSize
    BY DEF DataTypeInv
  <1>2. buffered_part # None /\ copied < size
    BY DEF Flushes
  <1>3. buffered_part \in BufferedPart /\ b <= buffered_part.capacity
    BY <1>2 DEF DataTypeInv
  <1>4. b \in Nat /\ b >= 1 /\ buffered_part.capacity = p /\ next_offset >= a + b
    BY <1>2, <1>3 DEF BufferRoom, BufferedPart
  <1>5. a \in Nat /\ p \in Nat
    BY <1>1, RoomTypes
  <1>6. copied = p - b
    <2>1. copied = Min({size, p - b})
      BY <1>2, <1>4 DEF Copied
    <2>2. p - b \in Nat
      BY <1>3, <1>4, <1>5
    <2>3. Min({size, p - b}) = IF size <= p - b THEN size ELSE p - b
      BY <2>2, MinOfTwo
    <2> QED  BY <1>2, <2>1, <2>2, <2>3
  <1>7. n < MaxParts
    <2> HIDE DEF n, b
    <2> QED  BY <1>1, <1>4, PartForRest
  <1>8. SessionRoom[n + 1] = a + p
    BY <1>1, SessionSchedule
  <1>9. Low(size) = next_offset + copied
    BY DEF Low
  <1> HIDE DEF n, b, p, a, copied
  <1>10. Low(size) >= a + p
    BY <1>1, <1>4, <1>5, <1>6, <1>9
  <1> QED  BY <1>7, <1>8, <1>10 DEF HasPartCapacity, n

\* Every write within the size limit fits.
LEMMA WriteFits ==
  ASSUME DataTypeInv, RoomInv, Sound, NEW size \in 1..(MaxFileSize - next_offset)
  PROVE  PreparedWrite(next_offset, size).fits
  <1> DEFINE p == PreparedWrite(next_offset, size)
             hi == next_offset + size
             n == Len(part_etags)
  <1>1. next_offset \in Nat /\ next_offset <= MaxFileSize /\ size \in Nat /\ hi \in Nat /\ hi <= MaxFileSize
        /\ n \in 0..MaxParts
    BY DEF DataTypeInv
  <1>2. /\ n > 0 => next_offset >= SessionRoom[n - 1] + 1
        /\ BufferRoom(buffered_part)
    BY DEF RoomInv
  <1>3. ~(Flushes(buffered_part, size) /\ ~HasPartCapacity(n))
    BY <1>1, <1>2, FlushRoom
  <1>4. p = PreparedWrite(next_offset, size)
    OBVIOUS
  <1> HIDE DEF p
  <1>5. /\ p.fits <=> \/ TailOf(size) = hi
                      \/ ShouldBuffer(hi - TailOf(size), Base(size) + Count(size))
        /\ Low(size) \in Nat /\ next_offset <= Low(size) /\ Low(size) <= hi
        /\ Base(size) \in 0..MaxParts
    BY <1>1, <1>3, <1>4, PreparedShape
  <1>6. Base(size) > 0 => Low(size) >= SessionRoom[Base(size) - 1] + 1
    <2>1. CASE Flushes(buffered_part, size)
      <3>1. Base(size) = n + 1
        BY <2>1 DEF Base
      <3>2. Low(size) >= SessionRoom[Base(size)]
        BY <1>1, <1>2, <2>1, <3>1, FlushRoom
      <3> QED  BY <1>5, <3>2, FullParts
    <2>2. CASE ~Flushes(buffered_part, size)
      <3>1. Base(size) = n
        BY <1>1, <2>2 DEF Base
      <3>2. SUFFICES ASSUME n > 0 PROVE Low(size) >= SessionRoom[n - 1] + 1
        BY <3>1
      <3> DEFINE a == SessionRoom[n - 1]
      <3>3. next_offset >= a + 1
        BY <1>2, <3>2
      <3>4. n - 1 \in 0..MaxParts
        BY <1>1, <3>2
      <3>5. a \in Nat
        BY <3>4, RoomTypes
      <3> HIDE DEF a
      <3>6. Low(size) >= a + 1
        BY <1>1, <1>5, <3>3, <3>5
      <3> QED  BY <3>6 DEF a
    <2> QED  BY <2>1, <2>2
  <1> DEFINE lo == Low(size)
             base == Base(size)
             c == Count(size)
             tail == TailOf(size)
  <1>7. c = DirectCount(hi - lo, base) /\ tail = DirectEnd(lo, hi, c)
    BY DEF Count, TailOf
  <1> HIDE DEF lo, base, c, tail, hi
  <1>8. tail = hi \/ ShouldBuffer(hi - tail, base + c)
    BY <1>1, <1>5, <1>6, <1>7, InputFits DEF lo, base
  <1> QED  BY <1>5, <1>8 DEF tail, base, c, p

\* What the invariant says about PrepareWrite and Finalize.
LEMMA RoomSuffices ==
  ASSUME DataTypeInv, RoomInv
  PROVE  PartsSuffice
  <1>1. SUFFICES ASSUME Sound
                 PROVE  /\ \A size \in 1..(MaxFileSize - next_offset) :
                              PreparedWrite(next_offset, size).fits
                        /\ buffered_part # None => HasPartCapacity(Len(part_etags))
    BY DEF PartsSuffice, Sound
  <1>2. \A size \in 1..(MaxFileSize - next_offset) : PreparedWrite(next_offset, size).fits
    BY <1>1, WriteFits
  <1>3. ASSUME buffered_part # None PROVE HasPartCapacity(Len(part_etags))
    <2> DEFINE n == Len(part_etags)
               b == Len(buffered_part.bytes)
    <2>1. n \in 0..MaxParts /\ next_offset \in 0..MaxFileSize
      BY DEF DataTypeInv
    <2>2. b \in Nat
      BY <1>3 DEF DataTypeInv, BufferedPart
    <2>3. b >= 1 /\ next_offset >= SessionRoom[n] + b
      BY <1>1, <1>3 DEF RoomInv, BufferRoom
    <2> HIDE DEF n, b
    <2>4. n < MaxParts
      BY <2>1, <2>2, <2>3, PartForRest
    <2> QED  BY <2>4 DEF HasPartCapacity, n
  <1> QED  BY <1>2, <1>3

-----------------------------------------------------------------------------
(* Every step keeps the room. *)

\* An accepted write ends behind the parts it reserves, and what it leaves is buffered.
LEMMA AcceptRoom ==
  ASSUME DataTypeInv, RoomInv, Sound, lifecycle_state \notin {"FINALIZING", "FINALIZED"},
         NEW size \in Nat, NEW p, p = PreparedWrite(next_offset, size), p.fits, Reserve(p.parts),
         buffered_part' = p.buffer, next_offset' = next_offset + size
  PROVE  /\ next_offset' >= SessionRoom[Len(part_etags')]
         /\ BufferRoom(buffered_part)'
  <1> DEFINE n == Len(part_etags)
             flushes == Flushes(buffered_part, size)
             hi == next_offset + size
             lo == Low(size)
             base == Base(size)
             c == Count(size)
             tail == TailOf(size)
  <1>1. next_offset \in Nat /\ hi \in Nat /\ n \in 0..MaxParts /\ part_etags \in Seq(BOOLEAN)
    BY DEF DataTypeInv
  <1>2. BufferRoom(buffered_part) /\ next_offset >= SessionRoom[n]
    BY DEF RoomInv
  <1>3. ~(flushes /\ ~HasPartCapacity(n))
    BY PreparedOverflow
  <1>4. /\ p.fits <=> tail = hi \/ ShouldBuffer(hi - tail, base + c)
        /\ n + Len(p.parts) = base + c
        /\ p.buffer = IF tail < hi
                      THEN [bytes |-> Bytes(tail, hi), capacity |-> PartSize[base + c]]
                      ELSE IF buffered_part = None \/ flushes THEN None
                      ELSE Appended(buffered_part, next_offset, size)
        /\ lo \in Nat /\ next_offset <= lo /\ lo <= hi
        /\ base \in 0..MaxParts
    BY <1>3, PreparedShape
  <1>5. Len(part_etags') = base + c
    <2>1. p.parts \in Seq(PreparedPart)
      BY PreparedCut DEF CutsInput
    <2>2. Len(part_etags') = Len(part_etags) + Len(p.parts)
      BY ONLY <1>1, <2>1, Reserve(p.parts), ReserveProperties
    <2> QED  BY <1>4, <2>2
  <1>6. c = DirectCount(hi - lo, base) /\ tail = DirectEnd(lo, hi, c)
    BY DEF Count, TailOf
  <1>7. base = n + IF flushes THEN 1 ELSE 0
    BY DEF Base
  <1>8. flushes => lo >= SessionRoom[n + 1]
    BY <1>2, FlushRoom
  <1>9. lo = next_offset + Copied(buffered_part, size)
    BY DEF Low
  <1>10. /\ Copied(buffered_part, size) \in 0..size
         /\ buffered_part = None => Copied(buffered_part, size) = 0
         /\ ~flushes /\ buffered_part # None => ~(Copied(buffered_part, size) < size)
    BY CopiedBounds DEF DataTypeInv, Flushes
  <1> HIDE DEF lo, base, c, tail, flushes
  <1>11. c \in Nat /\ base + c <= MaxParts
    <2>1. hi - lo \in Nat
      BY <1>1, <1>4
    <2> HIDE DEF hi
    <2> QED  BY <1>4, <1>6, <2>1, DirectCountStops
  <1>12. ASSUME lo >= SessionRoom[base], flushes \/ buffered_part = None
         PROVE  /\ hi >= SessionRoom[base + c]
                /\ p.buffer # None =>
                      /\ Len(p.buffer.bytes) >= 1
                      /\ p.buffer.capacity = PartSize[base + c]
                      /\ hi >= SessionRoom[base + c] + Len(p.buffer.bytes)
    <2> DEFINE a == SessionRoom[base + c]
    <2> HIDE DEF hi
    <2>1. tail \in Nat /\ tail <= hi /\ tail >= a
      BY SMTT(40), <1>1, <1>4, <1>6, <1>12, InputFills
    <2>2. a \in Nat
      <3>1. base + c \in 0..MaxParts
        BY <1>4, <1>11
      <3> QED  BY <3>1, RoomTypes
    <2> HIDE DEF a
    <2>3. CASE tail < hi
      <3>1. p.buffer = [bytes |-> Bytes(tail, hi), capacity |-> PartSize[base + c]]
        BY <1>4, <2>3
      <3>2. Len(Bytes(tail, hi)) = hi - tail
        BY <1>1, <2>1, BytesType
      <3>3. hi - tail >= 1 /\ hi >= a /\ hi >= a + (hi - tail)
        BY <1>1, <2>1, <2>2, <2>3
      <3> QED  BY <3>1, <3>2, <3>3 DEF a
    <2>4. CASE ~(tail < hi)
      <3>1. p.buffer = None
        BY <1>4, <1>12, <2>4
      <3>2. hi >= a
        BY <1>1, <2>1, <2>2
      <3> QED  BY <3>1, <3>2 DEF a
    <2> QED  BY <2>3, <2>4
  <1>13. ASSUME ~flushes, buffered_part # None
         PROVE  /\ hi >= SessionRoom[base + c]
                /\ p.buffer # None =>
                      /\ Len(p.buffer.bytes) >= 1
                      /\ p.buffer.capacity = PartSize[base + c]
                      /\ hi >= SessionRoom[base + c] + Len(p.buffer.bytes)
    <2> DEFINE b == Len(buffered_part.bytes)
               a == SessionRoom[n]
               appended == Appended(buffered_part, next_offset, size)
    <2>1. lo = hi /\ Copied(buffered_part, size) = size
      <3> DEFINE copied == Copied(buffered_part, size)
      <3>1. copied \in 0..size /\ ~(copied < size) /\ lo = next_offset + copied
        BY <1>9, <1>10, <1>13
      <3> HIDE DEF copied
      <3>2. copied = size
        BY <3>1
      <3> QED  BY <3>1, <3>2 DEF copied
    <2>2. base = n
      BY <1>1, <1>7, <1>13
    <2>3. c = 0
      <3> DEFINE r == hi - lo
      <3>1. r = 0 /\ r \in Nat
        BY <1>1, <2>1
      <3>2. c = DirectCount(r, base)
        BY <1>6
      <3> HIDE DEF r
      <3>3. c > 0 => (c - 1) * MaxPartSize < r
        BY <1>4, <3>1, <3>2, DirectCountStops
      <3>4. c > 0 => (c - 1) * MaxPartSize \in Nat
        BY <1>11
      <3> QED  BY <1>11, <3>1, <3>3, <3>4
    <2>4. tail = hi
      <3> HIDE DEF hi
      <3>1. tail \in lo..hi
        BY <1>1, <1>4, <1>6, <1>11, TailFacts
      <3> QED  BY <1>1, <2>1, <3>1
    <2>5. p.buffer = appended
      BY <1>1, <1>4, <1>13, <2>4
    <2>6. buffered_part \in BufferedPart /\ b <= buffered_part.capacity
      BY <1>13 DEF DataTypeInv
    <2>7. b \in Nat /\ b >= 1 /\ buffered_part.capacity = PartSize[n] /\ next_offset >= a + b
          /\ buffered_part.bytes \in Seq(Byte)
      BY <1>2, <1>13, <2>6 DEF BufferRoom, BufferedPart
    <2>8. appended.bytes = buffered_part.bytes \o Bytes(next_offset, next_offset + Copied(buffered_part, size))
      BY <1>1, <2>6, AppendedBuffer
    <2>9. appended.capacity = buffered_part.capacity
      BY <2>6 DEF Appended, BufferedPart
    <2>10. Bytes(next_offset, hi) \in Seq(Byte) /\ Len(Bytes(next_offset, hi)) = hi - next_offset
      <3>1. next_offset <= hi
        BY <1>1
      <3> HIDE DEF hi
      <3> QED  BY <1>1, <3>1, BytesType
    <2>11. Len(appended.bytes) = b + size
      <3>1. appended.bytes = buffered_part.bytes \o Bytes(next_offset, hi)
        BY <2>1, <2>8
      <3> DEFINE x == buffered_part.bytes
                 y == Bytes(next_offset, hi)
      <3>2. x \in Seq(Byte) /\ y \in Seq(Byte) /\ Len(y) = size
        BY <1>1, <2>7, <2>10
      <3> HIDE DEF x, y
      <3>3. Len(x \o y) = Len(x) + Len(y)
        BY ONLY <3>2, ConcatProperties
      <3> QED  BY <3>1, <3>2, <3>3 DEF x, y
    <2>12. a \in Nat
      BY <1>1, RoomTypes
    <2> HIDE DEF a, b, appended
    <2>13. b + size >= 1 /\ hi >= a /\ hi >= a + (b + size)
      BY <1>1, <2>7, <2>12
    <2>14. base + c = n
      BY <1>1, <2>2, <2>3
    <2> QED  BY <2>5, <2>7, <2>9, <2>11, <2>13, <2>14 DEF a
  <1>14. /\ hi >= SessionRoom[base + c]
         /\ p.buffer # None =>
               /\ Len(p.buffer.bytes) >= 1
               /\ p.buffer.capacity = PartSize[base + c]
               /\ hi >= SessionRoom[base + c] + Len(p.buffer.bytes)
    <2>1. CASE flushes
      <3>1. base = n + 1
        BY <1>7, <2>1
      <3> QED  BY <1>8, <1>12, <2>1, <3>1
    <2>2. CASE ~flushes /\ buffered_part = None
      <3>1. base = n /\ lo = next_offset
        BY <1>1, <1>7, <1>9, <1>10, <2>2
      <3> QED  BY <1>2, <1>12, <2>2, <3>1
    <2>3. CASE ~flushes /\ buffered_part # None
      BY <1>13, <2>3
    <2> QED  BY <2>1, <2>2, <2>3
  <1> QED  BY <1>5, <1>14 DEF BufferRoom

\* A step of thread t that neither reserves parts nor fills a buffer.
KeepsRoom(t) ==
    /\ \A u \in Threads : u # t => pc'[u] = pc[u] /\ local_buffered_part'[u] = local_buffered_part[u]
    /\ pc'[t] # "Finalize"
    /\ next_offset' = next_offset /\ Len(part_etags') = Len(part_etags)
    /\ buffered_part' \in {buffered_part, None}
    /\ failed => failed'
    /\ pc[t] = "LatchFailure" => failed' \/ pc'[t] = "LatchFailure"
    /\ lifecycle_state \in {"FINALIZING", "FINALIZED"} =>
          failed' \/ lifecycle_state' \in {"FINALIZING", "FINALIZED"}

\* It keeps the invariant.
LEMMA KeptRoom ==
  ASSUME RoomInv, NEW t \in Threads, KeepsRoom(t)
  PROVE  RoomInv'
  <1>1. SUFFICES ASSUME Sound'
                 PROVE  /\ Len(part_etags') > 0 => next_offset' >= SessionRoom[Len(part_etags') - 1] + 1
                        /\ BufferRoom(buffered_part)'
                        /\ lifecycle_state' \notin {"FINALIZING", "FINALIZED"} =>
                              next_offset' >= SessionRoom[Len(part_etags')]
                        /\ \A u \in Threads : pc'[u] = "Finalize" => BufferRoom(local_buffered_part[u])'
    BY DEF RoomInv
  <1>2. Sound
    BY <1>1 DEF Sound, KeepsRoom
  <1>3. /\ Len(part_etags) > 0 => next_offset >= SessionRoom[Len(part_etags) - 1] + 1
        /\ BufferRoom(buffered_part)
        /\ lifecycle_state \notin {"FINALIZING", "FINALIZED"} =>
              next_offset >= SessionRoom[Len(part_etags)]
        /\ \A u \in Threads : pc[u] = "Finalize" => BufferRoom(local_buffered_part[u])
    BY <1>2 DEF RoomInv
  <1>4. next_offset' = next_offset /\ Len(part_etags') = Len(part_etags)
    BY DEF KeepsRoom
  <1>5. Len(part_etags') > 0 => next_offset' >= SessionRoom[Len(part_etags') - 1] + 1
    BY <1>3, <1>4
  <1>6. BufferRoom(buffered_part)'
    BY <1>3, <1>4 DEF KeepsRoom, BufferRoom
  <1>7. lifecycle_state' \notin {"FINALIZING", "FINALIZED"} => next_offset' >= SessionRoom[Len(part_etags')]
    BY <1>1, <1>3, <1>4 DEF KeepsRoom, Sound
  <1>8. ASSUME NEW u \in Threads, pc'[u] = "Finalize" PROVE BufferRoom(local_buffered_part[u])'
    <2>1. pc[u] = "Finalize" /\ local_buffered_part'[u] = local_buffered_part[u]
      BY <1>8 DEF KeepsRoom
    <2>2. BufferRoom(local_buffered_part[u])
      BY <1>3, <2>1
    <2> QED  BY <1>4, <2>1, <2>2 DEF BufferRoom
  <1> QED  BY <1>5, <1>6, <1>7, <1>8

USE DEF
    ControlInv, Goto, failed,
    controlVars, dataVars, initVars, failureVars, inputVars, localVars, s3Vars, histVars,
    OperationLabels, WriterLabels, UploadLabels, FinalizeLabels, FailureLabels, AbortRequests,
    WaitLabels, Labels, AcceptedLabels, LifecycleState

\* A session that finalizes, or has, stays so unless it fails.
LEMMA FinalizingStays ==
  ASSUME ControlInv, NEW t \in Threads, Step(t), lifecycle_state \in {"FINALIZING", "FINALIZED"}
  PROVE  failed' \/ lifecycle_state' \in {"FINALIZING", "FINALIZED"}
  <1>1. /\ pc[t] \notin AbortOwners
        /\ t # None
    BY DEF CleanupInv
  <1>2. CASE BeginWriteOperation(t) \/ ReleaseOperation(t) \/ ReleaseWait(t) \/ ReleaseCleanup(t)
    BY <1>2 DEF BeginWriteOperation, ReleaseOperation, ReleaseWait, ReleaseCleanup
  <1>3. CASE LatchFailure(t)
    BY <1>1, <1>3 DEF LatchFailure, LatchFailureLocked
  <1>4. CASE PrepareWrite(t) \/ EnsureMultipartUpload(t) \/ ThrowIfFailed(t) \/ UploadPart(t) \/ UpdateCursor(t)
    BY <1>4 DEF PrepareWrite, EnsureMultipartUpload, ThrowIfFailed, UploadPart, UpdateCursor
  <1>5. CASE InitializeMultipartUpload(t)
    BY <1>1, <1>5 DEF InitializeMultipartUpload, LatchFailureLocked
  <1>6. CASE BeginFinalize(t)
    BY <1>6 DEF BeginFinalize
  <1>7. CASE Finalize(t) \/ UploadSingle(t) \/ CompleteMultipartUpload(t) \/ ReceiveCompletion(t)
    BY <1>7 DEF Finalize, UploadSingle, CompleteMultipartUpload, ReceiveCompletion
  <1>8. CASE FinishFinalize(t)
    BY <1>8 DEF FinishFinalize
  <1>9. CASE Abort(t)
    BY <1>9 DEF Abort
  <1>10. CASE AbortDrain(t) \/ AbortFailureWait(t) \/ AbortCleanup(t)
    BY <1>1, <1>10 DEF AbortDrain, AbortFailureWait, AbortCleanup, AbortOwners
  <1> QED
    BY ONLY Step(t), <1>2, <1>3, <1>4, <1>5, <1>6, <1>7, <1>8, <1>9, <1>10 DEF Step

\* A step that leaves the bytes where they are keeps the room.
LEMMA HarmlessKeepsRoom ==
  ASSUME ControlInv, DataInv, NEW t \in Threads, Step(t), Harmless(t)
  PROVE  KeepsRoom(t)
  <1>1. /\ pc' = [pc EXCEPT ![t] = pc'[t]] /\ pc'[t] \notin FinalizeLabels
        /\ UNCHANGED <<next_offset, part_etags, local_buffered_part>>
        /\ buffered_part' \in {buffered_part, None}
        /\ failed => failed'
        /\ pc[t] = "LatchFailure" => failed'
    BY DEF Harmless, Quiet
  <1>2. \A u \in Threads : u # t => pc'[u] = pc[u]
    BY <1>1 DEF ControlTypeOK
  <1>3. lifecycle_state \in {"FINALIZING", "FINALIZED"} =>
           failed' \/ lifecycle_state' \in {"FINALIZING", "FINALIZED"}
    BY FinalizingStays
  <1> QED  BY <1>1, <1>2, <1>3 DEF KeepsRoom

\* A call enters the session.
LEMMA CallsKeepRoom ==
  ASSUME ControlInv, DataInv, NEW t \in Threads, Calls(t)
  PROVE  KeepsRoom(t)
  <1>1. PICK method \in {"Write", "Finalize", "Abort"},
             label \in {"BeginWriteOperation", "BeginFinalize", "Abort"} : Enter(t, method, label)
    BY DEF Calls, CallWrite, CallFinalize, CallAbort
  <1>2. pc[t] = "Idle" /\ pc' = [pc EXCEPT ![t] = label]
        /\ local_buffered_part' = [local_buffered_part EXCEPT ![t] = None]
        /\ UNCHANGED <<next_offset, part_etags, buffered_part, primary_error, lifecycle_state>>
    BY <1>1 DEF Enter
  <1>3. pc'[t] = label
        /\ \A u \in Threads : u # t => pc'[u] = pc[u] /\ local_buffered_part'[u] = local_buffered_part[u]
    BY <1>2 DEF ControlTypeOK, DataInv, DataTypeInv
  <1> QED  BY <1>2, <1>3 DEF KeepsRoom

\* A part is stored.
LEMMA UploadPartKeepsRoom ==
  ASSUME ControlInv, DataInv, NEW t \in Threads, UploadPart(t)
  PROVE  KeepsRoom(t)
  <1>1. /\ pc[t] = "UploadPart"
        /\ \E l \in {"UpdateCursor", "CompleteMultipartUpload", "EnsureMultipartUpload", "LatchFailure"} :
              pc' = [pc EXCEPT ![t] = l]
        /\ UNCHANGED <<next_offset, buffered_part, local_buffered_part, primary_error, lifecycle_state>>
    BY DEF UploadPart, Throw, NextPart, AfterParts
  <1>2. pc'[t] # "Finalize" /\ \A u \in Threads : u # t => pc'[u] = pc[u]
    BY <1>1 DEF ControlTypeOK
  <1>3. Len(part_etags') = Len(part_etags)
    <2>1. part_etags \in Seq(BOOLEAN)
      BY DEF DataInv, DataTypeInv
    <2>2. part_etags' = part_etags \/ \E i : part_etags' = [part_etags EXCEPT ![i] = TRUE]
      BY DEF UploadPart
    <2> QED  BY <2>1, <2>2
  <1> QED  BY <1>1, <1>2, <1>3 DEF KeepsRoom

\* The cursor advances, or a Finalize goes on without a new part.
LEMMA OthersKeepRoom ==
  ASSUME ControlInv, DataInv, NEW t \in Threads,
         \/ UpdateCursor(t) \/ UploadSingle(t) \/ CompleteMultipartUpload(t)
         \/ ReceiveCompletion(t) \/ FinishFinalize(t)
  PROVE  KeepsRoom(t)
  <1>1. /\ pc[t] # "LatchFailure"
        /\ \E l \in Labels \ {"Finalize"} : pc' = [pc EXCEPT ![t] = l]
        /\ UNCHANGED <<next_offset, part_etags, buffered_part, local_buffered_part, primary_error>>
        /\ lifecycle_state' \in {lifecycle_state, "FINALIZED"}
    BY DEF UpdateCursor, UploadSingle, CompleteMultipartUpload, ReceiveCompletion, FinishFinalize, Throw
  <1>2. pc'[t] # "Finalize" /\ \A u \in Threads : u # t => pc'[u] = pc[u]
    BY <1>1 DEF ControlTypeOK
  <1> QED  BY <1>1, <1>2 DEF KeepsRoom

\* A thread that is about to fail owes nothing.
LEMMA ThrowKeepsRoom ==
  ASSUME ControlTypeOK, NEW t \in Threads, NEW d, Throw(t, d)
  PROVE  RoomInv'
  <1>1. pc'[t] = "LatchFailure"
    BY DEF Throw, ControlTypeOK
  <1> QED  BY <1>1 DEF RoomInv, Sound

\* A write is rejected, accepted, or fails.
LEMMA PrepareWriteRoom ==
  ASSUME ControlInv, DataInv, RoomInv, NEW t \in Threads, PrepareWrite(t)
  PROVE  RoomInv'
  <1>1. CASE \E d : Throw(t, d)
    BY <1>1, ThrowKeepsRoom
  <1>2. CASE ~\E d : Throw(t, d)
    <2> DEFINE size == arg[t].size
               p == PreparedWrite(next_offset, size)
    <2>1. pc[t] = "PrepareWrite" /\ op[t] = "Write"
      BY DEF PrepareWrite, OperationInv
    <2>2. /\ UNCHANGED <<local_buffered_part, lifecycle_state, primary_error>>
          /\ p.fits /\ Reserve(p.parts)
          /\ buffered_part' = p.buffer /\ next_offset' = next_offset + size
          /\ pc' = [pc EXCEPT ![t] = NextPart(t, p.parts)]
      BY <1>2 DEF PrepareWrite, Rejects
    <2>3. DataTypeInv /\ size \in Nat
      BY DEF DataInv, DataTypeInv
    <2>4. p = PreparedWrite(next_offset, size)
      OBVIOUS
    <2> HIDE DEF p, size
    <2>5. lifecycle_state \notin {"FINALIZING", "FINALIZED"} /\ \A u \in Threads : pc[u] # "Finalize"
      <3>1. \A u \in Threads : pc[u] \in OperationLabels => op[u] # "Finalize"
        BY <2>1, WriterExcludesFinalize
      <3>2. lifecycle_state # "FINALIZING"
        BY <3>1 DEF DataInv, FinalizeInv
      <3>3. lifecycle_state # "FINALIZED"
        BY <2>1 DEF CleanupInv, Operating
      <3> QED  BY <2>1, <3>2, <3>3, WriterExcludesFinalize
    <2>6. pc'[t] # "Finalize" /\ \A u \in Threads : u # t => pc'[u] = pc[u]
      BY <2>2 DEF ControlTypeOK, NextPart, AfterParts
    <2>7. SUFFICES ASSUME Sound'
                   PROVE  /\ Len(part_etags') > 0 => next_offset' >= SessionRoom[Len(part_etags') - 1] + 1
                          /\ BufferRoom(buffered_part)'
                          /\ next_offset' >= SessionRoom[Len(part_etags')]
      BY <2>5, <2>6 DEF RoomInv
    <2>8. Sound
      BY <2>1, <2>2, <2>6, <2>7 DEF Sound
    <2>9. next_offset' >= SessionRoom[Len(part_etags')] /\ BufferRoom(buffered_part)'
      BY ONLY RoomInv, <2>2, <2>3, <2>4, <2>5, <2>8, AcceptRoom
    <2>10. Len(part_etags') \in 0..MaxParts /\ next_offset' \in Nat
      <3>1. DataTypeInv'
        BY PrepareWriteData DEF DataInv
      <3> QED  BY <3>1 DEF DataTypeInv
    <2>11. Len(part_etags') > 0 => next_offset' >= SessionRoom[Len(part_etags') - 1] + 1
      BY <2>9, <2>10, FullParts
    <2> QED  BY <2>9, <2>11
  <1> QED  BY <1>1, <1>2

\* A Finalize takes the buffer, or is turned away.
LEMMA BeginFinalizeRoom ==
  ASSUME ControlInv, DataInv, RoomInv, NEW t \in Threads, BeginFinalize(t)
  PROVE  RoomInv'
  <1>1. CASE pc'[t] # "Finalize"
    <2>1. Harmless(t)
      BY <1>1 DEF BeginFinalize, Settled, Report, Harmless, Quiet, Publishable, Finalizing,
                  ControlTypeOK
    <2>2. KeepsRoom(t)
      BY <2>1, HarmlessKeepsRoom DEF Step
    <2> QED  BY <2>2, KeptRoom
  <1>2. CASE pc'[t] = "Finalize"
    <2>1. /\ pc[t] = "BeginFinalize" /\ pc' = [pc EXCEPT ![t] = "Finalize"]
          /\ lifecycle_state = "ACTIVE" /\ active_operations = 0 /\ ~failed
          /\ lifecycle_state' = "FINALIZING"
          /\ local_buffered_part' = [local_buffered_part EXCEPT ![t] = buffered_part]
          /\ buffered_part' = None
          /\ UNCHANGED <<next_offset, part_etags, primary_error>>
      BY <1>2 DEF BeginFinalize, FinalizeRefused, ControlTypeOK
    <2>2. \A u \in Threads : pc[u] \notin OperationLabels
      BY <2>1, NoneOperating DEF Operating
    <2>3. \A u \in Threads : u # t => pc'[u] = pc[u]
      BY <2>1 DEF ControlTypeOK
    <2>4. local_buffered_part'[t] = buffered_part
      BY <2>1 DEF DataInv, DataTypeInv
    <2>5. Sound
      BY <2>1, <2>2 DEF Sound
    <2>6. /\ Len(part_etags) > 0 => next_offset >= SessionRoom[Len(part_etags) - 1] + 1
          /\ BufferRoom(buffered_part)
      BY <2>5 DEF RoomInv
    <2>7. BufferRoom(local_buffered_part[t])' /\ BufferRoom(buffered_part)'
      BY <2>1, <2>4, <2>6 DEF BufferRoom
    <2>8. \A u \in Threads : pc'[u] = "Finalize" => u = t
      BY <2>2, <2>3
    <2> QED  BY <2>1, <2>6, <2>7, <2>8 DEF RoomInv
  <1> QED  BY <1>1, <1>2

\* A Finalize chooses how to publish; the buffer it makes a part of is not empty.
LEMMA FinalizeRoom ==
  ASSUME ControlInv, DataInv, RoomInv, NEW t \in Threads, Finalize(t)
  PROVE  RoomInv'
  <1> DEFINE buffer == local_buffered_part[t]
  <1>1. pc[t] = "Finalize" /\ UNCHANGED <<next_offset, buffered_part, lifecycle_state, primary_error>>
    BY DEF Finalize
  <1>2. /\ ~failed /\ lifecycle_state = "FINALIZING" /\ buffered_part = None
        /\ \A u \in Threads : u # t => pc[u] \notin OperationLabels
    BY <1>1, FinalizerLayout
  <1>3. CASE \E l \in {"UploadSingle", "CompleteMultipartUpload"} :
                Goto(t, l) /\ UNCHANGED <<part_etags, localVars>>
    <2>1. pc'[t] # "Finalize" /\ \A u \in Threads : u # t => pc'[u] = pc[u]
      BY <1>3 DEF ControlTypeOK
    <2>2. KeepsRoom(t)
      BY <1>1, <1>3, <2>1 DEF KeepsRoom
    <2> QED  BY <2>2, KeptRoom
  <1>4. CASE /\ buffer # None /\ HasPartCapacity(Len(part_etags)) /\ Reserve(<<buffer>>)
             /\ Goto(t, "EnsureMultipartUpload")
    <2>1. /\ pc'[t] = "EnsureMultipartUpload"
          /\ \A u \in Threads : u # t => pc'[u] = pc[u] /\ pc'[u] \notin OperationLabels
      BY <1>2, <1>4 DEF ControlTypeOK
    <2>2. Sound
      BY <1>1, <1>2 DEF Sound
    <2> DEFINE n == Len(part_etags)
               b == Len(buffer.bytes)
               a == SessionRoom[n]
    <2>3. /\ part_etags \in Seq(BOOLEAN) /\ n \in 0..MaxParts /\ buffer \in BufferedPart
          /\ next_offset \in Nat
      BY <1>4 DEF DataInv, DataTypeInv
    <2>4. b \in Nat /\ b >= 1 /\ next_offset >= a + b
      BY <1>1, <1>4, <2>2, <2>3 DEF RoomInv, BufferRoom, BufferedPart
    <2>5. Len(part_etags') = n + 1
      <3> DEFINE parts == <<buffer>>
      <3>1. parts \in Seq(BufferedPart) /\ Len(parts) = 1 /\ Reserve(parts)
        BY <1>4, <2>3
      <3> HIDE DEF parts
      <3>2. Len(part_etags') = Len(part_etags) + Len(parts)
        BY ONLY <2>3, <3>1, ReserveProperties
      <3> QED  BY ONLY <3>1, <3>2
    <2>6. a \in Nat
      BY <2>3, RoomTypes
    <2> HIDE DEF a, b, n, buffer
    <2>7. next_offset >= a + 1
      BY <2>3, <2>4, <2>6
    <2>8. (n + 1) - 1 = n
      BY <2>3
    <2>9. next_offset' >= SessionRoom[Len(part_etags') - 1] + 1
      BY <1>1, <2>5, <2>7, <2>8 DEF a
    <2>10. BufferRoom(buffered_part)'
      BY <1>1, <1>2 DEF BufferRoom
    <2> QED  BY <1>1, <1>2, <2>1, <2>9, <2>10 DEF RoomInv
  <1>5. CASE Throw(t, "DEFINITIVE")
    BY <1>5, ThrowKeepsRoom
  <1> QED  BY <1>3, <1>4, <1>5 DEF Finalize

\* Every step of the session keeps the room.
LEMMA NextKeepsRoom ==
  ASSUME ControlInv, DataInv, RoomInv, [Next]_vars
  PROVE  RoomInv'
  <1>1. CASE UNCHANGED vars
    BY <1>1 DEF vars, RoomInv, Sound, BufferRoom
  <1>2. ASSUME NEW t \in Threads, Calls(t)
        PROVE  RoomInv'
    BY <1>2, CallsKeepRoom, KeptRoom
  <1>3. ASSUME NEW t \in Threads, Step(t)
        PROVE  RoomInv'
    <2>1. CASE \/ BeginWriteOperation(t) \/ LatchFailure(t) \/ ReleaseOperation(t)
               \/ ReleaseWait(t) \/ ReleaseCleanup(t) \/ EnsureMultipartUpload(t)
               \/ InitializeMultipartUpload(t) \/ ThrowIfFailed(t) \/ Abort(t)
               \/ AbortDrain(t) \/ AbortFailureWait(t) \/ AbortCleanup(t)
      <3>1. Harmless(t)
        BY ONLY ControlInv, DataInv, t \in Threads, <2>1, BeginWriteOperationHarmless,
           LatchFailureHarmless, ReleaseOperationHarmless, ReleaseWaitHarmless,
           ReleaseCleanupHarmless, EnsureMultipartUploadHarmless,
           InitializeMultipartUploadHarmless, ThrowIfFailedHarmless, AbortHarmless,
           AbortDrainHarmless, AbortFailureWaitHarmless, AbortCleanupHarmless
      <3>2. KeepsRoom(t)
        BY ONLY ControlInv, DataInv, t \in Threads, <1>3, <3>1, HarmlessKeepsRoom
      <3> QED  BY ONLY RoomInv, t \in Threads, <3>2, KeptRoom
    <2>2. CASE \/ UploadPart(t) \/ UpdateCursor(t) \/ UploadSingle(t)
               \/ CompleteMultipartUpload(t) \/ ReceiveCompletion(t) \/ FinishFinalize(t)
      <3>1. KeepsRoom(t)
        BY ONLY ControlInv, DataInv, t \in Threads, <2>2, UploadPartKeepsRoom, OthersKeepRoom
      <3> QED  BY ONLY RoomInv, t \in Threads, <3>1, KeptRoom
    <2>3. CASE PrepareWrite(t) \/ BeginFinalize(t) \/ Finalize(t)
      BY ONLY ControlInv, DataInv, RoomInv, t \in Threads, <2>3, PrepareWriteRoom,
         BeginFinalizeRoom, FinalizeRoom
    <2> QED  BY ONLY <1>3, <2>1, <2>2, <2>3 DEF Step
  <1> QED  BY <1>1, <1>2, <1>3 DEF Next

\* The session starts within it.
LEMMA InitRoom ==
  ASSUME Init
  PROVE  RoomInv
  <1>1. Len(part_etags) = 0 /\ next_offset = 0 /\ buffered_part = None /\ \A t \in Threads : pc[t] = "Idle"
    BY DEF Init
  <1>2. SessionRoom[0] = 0
    BY SessionSchedule
  <1> QED  BY <1>1, <1>2 DEF RoomInv, BufferRoom

\* A session whose part sizes come from the configuration is a session.
LEMMA SizedIsSession == SizedSpec => Spec
  <1>1. SizedInit => Init
    BY DEF SizedInit
  <1>2. [SizedNext]_sizedVars => [Next]_vars
    BY DEF SizedNext, sizedVars, vars
  <1> QED  BY <1>1, <1>2, PTL DEF SizedSpec, Spec

\* However a file within the size limit is cut into writes, and whatever sizes its writers
\* happen to ask for, every write and the Finalize find the part numbers they need: the
\* schedule of S3UploadConfig, made for parts of exactly the scheduled sizes, holds for the
\* parts that PrepareWrite really reserves (S3UploadSession::PrepareWrite, Finalize).
THEOREM PartsAlwaysSuffice == SizedSpec => []PartsSuffice
  <1>1. Init => RoomInv
    BY InitRoom
  <1>2. ControlInv /\ DataInv /\ RoomInv /\ [Next]_vars => RoomInv'
    BY NextKeepsRoom
  <1>3. DataInv /\ RoomInv => PartsSuffice
    BY RoomSuffices DEF DataInv
  <1>4. Spec => [](ControlInv /\ DataInv)
    BY DataInvariant
  <1> QED  BY <1>1, <1>2, <1>3, <1>4, SizedIsSession, PTL DEF Spec
=============================================================================
