-------------------------- MODULE HttpStreamProofs --------------------------
(***************************************************************************)
(* The bytes of a HTTP stream are read in order, and its end is its end,   *)
(* for every size of the resource and of the buffers.                      *)
(***************************************************************************)
EXTENDS HttpStream, TLAPS, WellFoundedInduction

------------------------------------------------------------------------------
(* What is taken from the buffers.                                         *)

\* The bytes in the buffers go on from offset o without a gap.
Chain(bs, o) ==
  /\ bs \in Seq(Buffer) /\ o \in Nat
  /\ bs # <<>> => bs[1].first + bs[1].consumed = o
  /\ \A i \in 1 .. Len(bs) : bs[i].consumed < bs[i].size /\ (i # 1 => bs[i].consumed = 0)
  /\ \A i \in 1 .. Len(bs) - 1 : bs[i].first + bs[i].size = bs[i + 1].first

\* Where they end.
EndOf(bs, o) == IF bs = <<>> THEN o ELSE bs[Len(bs)].first + bs[Len(bs)].size

\* Every non-empty set of natural numbers has a least element.
LEMMA LeastNumber ==
  ASSUME NEW S, S \subseteq Nat, S # {}
  PROVE  \E x \in S : \A y \in S : x <= y
<1>1. IsWellFoundedOn(OpToRel(<, Nat), Nat)
  BY NatLessThanWellFounded
<1>2. PICK x \in S : \A y \in S : <<y, x>> \notin OpToRel(<, Nat)
  BY <1>1, WFMin
<1>3. ASSUME NEW y \in S
      PROVE  x <= y
  <2>1. <<y, x>> \notin OpToRel(<, Nat)
    BY <1>2
  <2> QED BY <2>1 DEF OpToRel
<1> QED BY <1>3

\* A set of numbers up to n has a greatest element.
LEMMA GreatestNumber ==
  ASSUME NEW n \in Nat, NEW S, S \subseteq 0 .. n, S # {}
  PROVE  \E x \in S : \A y \in S : y <= x
<1> DEFINE T == {n - x : x \in S}
<1>1. T \subseteq Nat /\ T # {}
  <2>1. \A x \in S : n - x \in Nat
    OBVIOUS
  <2> QED BY <2>1
<1>2. PICK t \in T : \A u \in T : t <= u
  BY <1>1, LeastNumber
<1>3. PICK x \in S : t = n - x
  BY <1>2
<1>4. ASSUME NEW y \in S
      PROVE  y <= x
  <2>1. n - x <= n - y
    BY <1>2, <1>3
  <2> QED BY <2>1
<1> QED BY <1>4

LEMMA BufferFields ==
  ASSUME NEW b \in Buffer
  PROVE  /\ b.first \in Nat /\ b.size \in Nat \ {0} /\ b.consumed \in Nat
         /\ b.first <= Size /\ b.size <= MaxWrite /\ b.consumed <= MaxWrite
BY HttpAssumption DEF Buffer

\* As far as the i-th buffer there is what lies between the offset and its end.
LEMMA UnreadIs ==
  ASSUME NEW bs, NEW o, Chain(bs, o)
  PROVE  /\ Unread(bs)[0] = 0
         /\ \A i \in 1 .. Len(bs) : Unread(bs)[i] = bs[i].first + bs[i].size - o
<1> DEFINE L == Len(bs)
           Step(f) == [i \in 0 .. L |-> IF i = 0 THEN 0
                                        ELSE f[i - 1] + bs[i].size - bs[i].consumed]
           g == [i \in 0 .. L |-> IF i = 0 THEN 0 ELSE bs[i].first + bs[i].size - o]
<1>1. L \in Nat /\ o \in Nat /\ \A i \in 1 .. L : bs[i] \in Buffer
  BY DEF Chain
<1>2. ASSUME NEW i \in 1 .. L
      PROVE  /\ bs[i].first \in Nat /\ bs[i].size \in Nat /\ bs[i].consumed \in Nat
             /\ i = 1 => bs[i].first + bs[i].consumed = o
             /\ i # 1 => /\ bs[i].consumed = 0 /\ i - 1 \in 1 .. L
                         /\ bs[i - 1].first + bs[i - 1].size = bs[i].first
  <2>1. bs[i].first \in Nat /\ bs[i].size \in Nat /\ bs[i].consumed \in Nat
    BY <1>1, BufferFields
  <2>2. CASE i = 1
    <3>1. bs # <<>>
      BY <1>1
    <3> QED BY <2>1, <2>2, <3>1 DEF Chain
  <2>3. CASE i # 1
    <3>1. i - 1 \in 1 .. L - 1 /\ (i - 1) + 1 = i /\ i - 1 \in 1 .. L
      BY <1>1, <2>3
    <3> QED BY <2>1, <2>3, <3>1 DEF Chain
  <2> QED BY <2>2, <2>3
<1>3. ASSUME NEW i \in 0 .. L
      PROVE  g[i] = IF i = 0 THEN 0 ELSE g[i - 1] + bs[i].size - bs[i].consumed
  <2>1. CASE i = 0
    BY <2>1
  <2>2. CASE i = 1
    <3>1. g[0] = 0 /\ g[1] = bs[1].first + bs[1].size - o
      BY <1>1, <2>2
    <3> HIDE DEF g
    <3> QED BY <1>1, <1>2, <2>2, <3>1, SMTT(40)
  <2>3. CASE i \notin {0, 1}
    <3>1. i \in 1 .. L /\ i - 1 \in 1 .. L
      BY <1>1, <2>3
    <3>2. g[i] = bs[i].first + bs[i].size - o /\ g[i - 1] = bs[i - 1].first + bs[i - 1].size - o
      BY <3>1
    <3>3. bs[i - 1].first \in Nat /\ bs[i - 1].size \in Nat
      BY <1>2, <3>1
    <3>4. /\ bs[i].first \in Nat /\ bs[i].size \in Nat /\ bs[i].consumed = 0
          /\ bs[i - 1].first + bs[i - 1].size = bs[i].first
      BY <1>2, <2>3, <3>1
    <3>5. g[i] = g[i - 1] + bs[i].size - bs[i].consumed
      <4> HIDE DEF g, L
      <4> QED BY <1>1, <3>2, <3>3, <3>4
    <3> QED BY <2>3, <3>5
  <2> QED BY <2>1, <2>2, <2>3
<1>4. g = Step(g)
  <2>1. g = [i \in 0 .. L |-> g[i]]
    OBVIOUS
  <2> HIDE DEF g
  <2> QED BY <1>3, <2>1
<1> DEFINE u == Unread(bs)
<1>5. u = CHOOSE f : f = Step(f)
  BY DEF Unread
<1>6. u = Step(u)
  <2> HIDE DEF Step, g, u
  <2> QED BY <1>4, <1>5
<1>7. \A i \in 0 .. L : u[i] = IF i = 0 THEN 0 ELSE u[i - 1] + bs[i].size - bs[i].consumed
  <2> HIDE DEF u
  <2> QED BY <1>6
<1> HIDE DEF u, g
<1> DEFINE bad == {i \in 0 .. L : u[i] # g[i]}
<1>8. bad = {}
  <2> SUFFICES ASSUME bad # {} PROVE FALSE
    OBVIOUS
  <2>1. bad \subseteq Nat
    BY <1>1
  <2>2. PICK i \in bad : \A j \in bad : i <= j
    BY <2>1, LeastNumber
  <2>3. i # 0 => i - 1 \in 0 .. L /\ i - 1 \notin bad
    BY <1>1, <2>2
  <2> QED BY <1>3, <1>7, <2>2, <2>3
<1>9. \A i \in 0 .. L : u[i] = g[i]
  BY <1>8
<1> QED BY <1>1, <1>9 DEF g, u

\* The first i buffers are emptied, the next one is not.
LEMMA EmptiedIs ==
  ASSUME NEW bs, NEW o, Chain(bs, o), NEW n \in Nat
  PROVE  LET i == Emptied(bs, n) IN
         /\ i \in 0 .. Len(bs) /\ Unread(bs)[i] <= n
         /\ \A j \in i + 1 .. Len(bs) : n < Unread(bs)[j]
<1> DEFINE L == Len(bs)
           S == {i \in 0 .. L : Unread(bs)[i] <= n}
           P(i) == Unread(bs)[i] <= n /\ \A j \in i + 1 .. L : n < Unread(bs)[j]
<1>1. L \in Nat /\ o \in Nat /\ \A i \in 1 .. L : bs[i] \in Buffer
  BY DEF Chain
<1>2. Unread(bs)[0] = 0 /\ \A i \in 1 .. L : Unread(bs)[i] \in Int
  <2>1. \A i \in 1 .. L : bs[i].first \in Nat /\ bs[i].size \in Nat
    BY <1>1, BufferFields
  <2> QED BY <1>1, <2>1, UnreadIs
<1>3. 0 \in S
  BY <1>1, <1>2
<1>4. PICK i \in S : \A j \in S : j <= i
  BY <1>1, <1>3, GreatestNumber
<1>5. P(i)
  <2>1. ASSUME NEW j \in i + 1 .. L PROVE n < Unread(bs)[j]
    <3>1. j \in 1 .. L /\ j \in 0 .. L /\ ~(j <= i)
      BY <1>1
    <3>2. ~(Unread(bs)[j] <= n)
      BY <1>4, <3>1
    <3> QED BY <1>2, <3>1, <3>2
  <2> QED BY <2>1
<1>6. Emptied(bs, n) = CHOOSE k \in 0 .. L : P(k)
  BY DEF Emptied
<1>7. i \in 0 .. L
  OBVIOUS
<1> HIDE DEF P, L
<1>8. Emptied(bs, n) \in 0 .. L /\ P(Emptied(bs, n))
  BY <1>5, <1>6, <1>7
<1> QED BY <1>8 DEF P, L

\* Taking n bytes moves the offset by n, and the end stays where it is.
LEMMA ConsumeOK ==
  ASSUME NEW bs, NEW o, Chain(bs, o), NEW n \in Nat, n <= Available(bs)
  PROVE  Chain(Consume(bs, n), o + n) /\ EndOf(Consume(bs, n), o + n) = EndOf(bs, o)
<1> DEFINE L == Len(bs)
           i == Emptied(bs, n)
           U(j) == Unread(bs)[j]
<1>1. /\ L \in Nat /\ o \in Nat /\ bs \in Seq(Buffer)
      /\ \A j \in 1 .. L : bs[j] \in Buffer
  BY DEF Chain
<1>2. \A j \in 1 .. L : bs[j].first \in Nat /\ bs[j].size \in Nat \ {0} /\ bs[j].consumed \in Nat
  BY <1>1, BufferFields
<1>3. U(0) = 0 /\ \A j \in 1 .. L : U(j) = bs[j].first + bs[j].size - o
  BY UnreadIs
<1>4. i \in 0 .. L /\ U(i) <= n /\ \A j \in i + 1 .. L : n < U(j)
  BY EmptiedIs
<1>5. n <= U(L)
  BY DEF Available
<1>6. L = 0 <=> bs = <<>>
  BY <1>1
<1> HIDE DEF U, i, L
<1>7. CASE i = L
  <2>1. Consume(bs, n) = <<>>
    BY <1>7 DEF Consume, i, L
  <2>2. EndOf(bs, o) = o + n
    <3>1. CASE L = 0
      BY <1>1, <1>3, <1>5, <1>6, <3>1 DEF EndOf
    <3>2. CASE L # 0
      <4>1. L \in 1 .. L
        BY <1>1, <3>2
      <4>2. EndOf(bs, o) = bs[L].first + bs[L].size
        BY <1>6, <3>2 DEF EndOf, L
      <4>3. U(L) = bs[L].first + bs[L].size - o /\ bs[L].first \in Nat /\ bs[L].size \in Nat
        BY <1>2, <1>3, <4>1
      <4>4. U(L) <= n /\ n <= U(L)
        BY <1>4, <1>5, <1>7
      <4>5. o \in Nat
        BY <1>1
      <4>6. U(L) \in Int /\ U(L) = n
        BY <4>3, <4>4, <4>5
      <4>7. bs[L].first + bs[L].size = o + n
        BY <4>3, <4>5, <4>6
      <4> QED BY <4>2, <4>7
    <3> QED BY <3>1, <3>2
  <2>3. Chain(<<>>, o + n)
    BY <1>1 DEF Chain
  <2> QED BY <2>1, <2>2, <2>3 DEF EndOf
<1>8. CASE i # L
  <2> DEFINE b == [bs[i + 1] EXCEPT !.consumed = @ + n - U(i)]
             rest == SubSeq(bs, i + 2, L)
             r == <<b>> \o rest
  <2>1. i \in Nat /\ i < L /\ i + 1 \in 1 .. L /\ i + 1 \in i + 1 .. L
    BY <1>1, <1>4, <1>8
  <2>2. Consume(bs, n) = r
    BY <1>8 DEF Consume, i, L, U
  <2>3. n < bs[i + 1].first + bs[i + 1].size - o
    BY <1>3, <1>4, <2>1
  <2>4. bs[i + 1].first + bs[i + 1].consumed - U(i) = o
    <3>1. CASE i = 0
      <4>1. bs[1].first + bs[1].consumed = o
        BY <1>6, <2>1, <3>1 DEF Chain
      <4> QED BY <1>1, <1>2, <1>3, <2>1, <3>1, <4>1
    <3>2. CASE i # 0
      <4>1. i \in 1 .. L /\ i \in 1 .. L - 1 /\ i + 1 # 1
        BY <2>1, <3>2, <1>1
      <4>2. bs[i + 1].consumed = 0 /\ bs[i].first + bs[i].size = bs[i + 1].first
        BY <2>1, <4>1 DEF Chain, L
      <4>3. U(i) = bs[i].first + bs[i].size - o
        BY <1>3, <4>1
      <4> QED BY <1>1, <1>2, <2>1, <4>1, <4>2, <4>3
    <3> QED BY <3>1, <3>2
  <2>5. U(i) \in Int
    <3>1. CASE i = 0
      BY <1>3, <3>1
    <3>2. CASE i # 0
      <4>1. i \in 1 .. L
        BY <1>4, <2>1, <3>2
      <4>2. bs[i].first \in Nat /\ bs[i].size \in Nat /\ U(i) = bs[i].first + bs[i].size - o
        BY <1>2, <1>3, <4>1
      <4> QED BY <1>1, <4>2
    <3> QED BY <3>1, <3>2
  <2> DEFINE c == bs[i + 1].consumed + n - U(i)
  <2>6. /\ c \in Nat /\ c < bs[i + 1].size /\ bs[i + 1].first + c = o + n
    <3>1. bs[i + 1].first \in Nat /\ bs[i + 1].size \in Nat /\ bs[i + 1].consumed \in Nat
      BY <1>2, <2>1
    <3>2. U(i) <= n
      BY <1>4
    <3>3. c \in Nat
      BY <2>5, <3>1, <3>2
    <3>4. o \in Nat /\ c \in Nat
      BY <1>1, <3>3
    <3>5. bs[i + 1].first + c = o + n
      BY <2>4, <2>5, <3>1, <3>4
    <3>6. c < bs[i + 1].size
      <4> HIDE DEF c
      <4> QED BY <2>3, <3>1, <3>4, <3>5
    <3> QED BY <3>3, <3>5, <3>6
  <2>7. /\ b \in Buffer /\ b.first = bs[i + 1].first /\ b.size = bs[i + 1].size
        /\ b.consumed = c
    <3>1. bs[i + 1] \in Buffer
      BY <1>1, <2>1
    <3>2. b = [bs[i + 1] EXCEPT !.consumed = c]
      OBVIOUS
    <3>3. c \in 0 .. MaxWrite
      BY <2>6, <3>1, BufferFields, HttpAssumption
    <3> HIDE DEF c
    <3>4. [bs[i + 1] EXCEPT !.consumed = c] \in Buffer
      BY <3>1, <3>3 DEF Buffer
    <3> QED BY <3>1, <3>2, <3>4 DEF Buffer
  <2>8. /\ rest \in Seq(Buffer) /\ Len(rest) = L - (i + 1)
        /\ \A j \in 1 .. L - (i + 1) : rest[j] = bs[i + 1 + j]
    BY <1>1, <2>1 DEF L
  <2> HIDE DEF b, rest, c
  <2>9. /\ r \in Seq(Buffer) /\ Len(r) = L - i /\ r[1] = b
        /\ \A j \in 2 .. L - i : r[j] = bs[i + j]
    <3>1. r \in Seq(Buffer) /\ Len(r) = 1 + Len(rest) /\ r[1] = b
          /\ \A j \in 1 .. Len(rest) : r[1 + j] = rest[j]
      BY <2>7, <2>8
    <3> HIDE DEF r
    <3>2. ASSUME NEW j \in 2 .. L - i PROVE r[j] = bs[i + j]
      <4>1. j - 1 \in 1 .. L - (i + 1) /\ 1 + (j - 1) = j /\ i + 1 + (j - 1) = i + j
        BY <1>1, <2>1
      <4> QED BY <2>8, <3>1, <4>1
    <3> QED BY <1>1, <2>1, <2>8, <3>1, <3>2
  <2> HIDE DEF r
  <2>10. ASSUME NEW j \in 1 .. L - i
         PROVE  /\ r[j].first = bs[i + j].first /\ r[j].size = bs[i + j].size
                /\ i + j \in 1 .. L
                /\ r[j].consumed < r[j].size /\ (j # 1 => r[j].consumed = 0)
    <3>1. i + j \in 1 .. L
      BY <1>1, <2>1
    <3>2. CASE j = 1
      BY <2>6, <2>7, <2>9, <3>1, <3>2
    <3>3. CASE j # 1
      <4>1. r[j] = bs[i + j] /\ i + j # 1
        BY <1>1, <2>1, <2>9, <3>3
      <4> QED BY <3>1, <3>3, <4>1 DEF Chain, L
    <3> QED BY <3>2, <3>3
  <2>11. ASSUME NEW j \in 1 .. Len(r) - 1
         PROVE  r[j].first + r[j].size = r[j + 1].first
    <3>1. j \in 1 .. L - i /\ j + 1 \in 1 .. L - i /\ i + j \in 1 .. L - 1 /\ i + (j + 1) = (i + j) + 1
      BY <1>1, <2>1, <2>9
    <3>2. bs[i + j].first + bs[i + j].size = bs[(i + j) + 1].first
      BY <3>1 DEF Chain, L
    <3> QED BY <2>10, <3>1, <3>2
  <2>12. Chain(r, o + n)
    BY <1>1, <2>6, <2>7, <2>9, <2>10, <2>11 DEF Chain
  <2>13. EndOf(r, o + n) = EndOf(bs, o)
    <3>1. L - i \in 1 .. L - i /\ i + (L - i) = L /\ L # 0 /\ Len(r) # 0
      BY <1>1, <2>1, <2>9
    <3>2. r[L - i].first = bs[L].first /\ r[L - i].size = bs[L].size
      BY <2>10, <3>1
    <3> QED BY <1>6, <2>9, <3>1, <3>2 DEF EndOf, L
  <2> QED BY <2>2, <2>12, <2>13
<1> QED BY <1>7, <1>8

\* A chain does not end before it begins, and all of it is to be read.
LEMMA ChainEnds ==
  ASSUME NEW bs, NEW o, Chain(bs, o)
  PROVE  /\ EndOf(bs, o) \in Nat /\ o <= EndOf(bs, o)
         /\ Available(bs) = EndOf(bs, o) - o
<1> DEFINE L == Len(bs)
<1>1. L \in Nat /\ o \in Nat /\ \A j \in 1 .. L : bs[j] \in Buffer
  BY DEF Chain
<1>2. L = 0 <=> bs = <<>>
  BY DEF Chain
<1>3. \A j \in 1 .. L : bs[j].first \in Nat /\ bs[j].size \in Nat /\ bs[j].consumed \in Nat
  BY <1>1, BufferFields
<1>4. Unread(bs)[0] = 0 /\ \A j \in 1 .. L : Unread(bs)[j] = bs[j].first + bs[j].size - o
  BY UnreadIs
<1> DEFINE bad == {j \in 1 .. L : bs[j].first + bs[j].size < o}
<1>5. bad = {}
  <2> SUFFICES ASSUME bad # {} PROVE FALSE
    OBVIOUS
  <2>0. bad \subseteq Nat
    OBVIOUS
  <2>1. PICK j \in bad : \A k \in bad : j <= k
    BY <2>0, LeastNumber
  <2>2. /\ j \in 1 .. L /\ bs[j].first + bs[j].size < o
        /\ bs[j].first \in Nat /\ bs[j].size \in Nat /\ bs[j].consumed \in Nat
    BY <1>3, <2>1
  <2>3. CASE j = 1
    <3>1. bs[1].first + bs[1].consumed = o /\ bs[1].consumed < bs[1].size
      BY <1>2, <2>2, <2>3 DEF Chain
    <3> QED BY <1>1, <2>2, <2>3, <3>1
  <2>4. CASE j # 1
    <3>1. j - 1 \in 1 .. L - 1 /\ j - 1 \in 1 .. L /\ (j - 1) + 1 = j /\ ~(j <= j - 1)
      BY <1>1, <2>2, <2>4
    <3>2. bs[j - 1].first + bs[j - 1].size = bs[j].first
      BY <3>1 DEF Chain
    <3>3. bs[j - 1].first \in Nat /\ bs[j - 1].size \in Nat
      BY <1>3, <3>1
    <3>4. bs[j - 1].first + bs[j - 1].size < o
      BY <1>1, <2>2, <3>2
    <3> QED BY <2>1, <3>1, <3>4
  <2> QED BY <2>3, <2>4
<1>6. CASE L = 0
  <2>1. EndOf(bs, o) = o /\ Available(bs) = 0
    BY <1>2, <1>4, <1>6 DEF EndOf, Available
  <2> QED BY <1>1, <2>1
<1>7. CASE L # 0
  <2>1. L \in 1 .. L
    BY <1>1, <1>7
  <2>2. EndOf(bs, o) = bs[L].first + bs[L].size
    BY <1>2, <1>7 DEF EndOf
  <2>3. Available(bs) = bs[L].first + bs[L].size - o
    BY <1>4, <2>1 DEF Available
  <2>4. ~(bs[L].first + bs[L].size < o)
    BY <1>5, <2>1
  <2>5. bs[L].first \in Nat /\ bs[L].size \in Nat
    BY <1>3, <2>1
  <2> HIDE DEF L
  <2> QED BY <1>1, <2>2, <2>3, <2>4, <2>5
<1> QED BY <1>6, <1>7

\* A buffer that begins where the chain ends goes on with it.
LEMMA AppendOK ==
  ASSUME NEW bs, NEW o, Chain(bs, o),
         NEW b \in Buffer, b.first = EndOf(bs, o), b.consumed = 0
  PROVE  Chain(Append(bs, b), o) /\ EndOf(Append(bs, b), o) = b.first + b.size
<1> DEFINE L == Len(bs)
           r == Append(bs, b)
<1>1. L \in Nat /\ o \in Nat /\ bs \in Seq(Buffer)
  BY DEF Chain
<1>2. /\ r \in Seq(Buffer) /\ Len(r) = L + 1 /\ r[L + 1] = b /\ r # <<>>
      /\ \A j \in 1 .. L : r[j] = bs[j]
  BY <1>1
<1>3. b.size \in Nat \ {0} /\ b.first \in Nat
  BY BufferFields
<1>4. L = 0 <=> bs = <<>>
  BY <1>1
<1> HIDE DEF r
<1>5. r[1].first + r[1].consumed = o
  <2>1. CASE L = 0
    BY <1>1, <1>2, <1>3, <1>4, <2>1 DEF EndOf
  <2>2. CASE L # 0
    <3>1. r[1] = bs[1] /\ bs # <<>>
      BY <1>1, <1>2, <1>4, <2>2
    <3> QED BY <3>1 DEF Chain
  <2> QED BY <2>1, <2>2
<1>6. ASSUME NEW j \in 1 .. Len(r)
      PROVE  r[j].consumed < r[j].size /\ (j # 1 => r[j].consumed = 0)
  <2>1. CASE j \in 1 .. L
    BY <1>2, <2>1 DEF Chain
  <2>2. CASE j = L + 1
    BY <1>2, <1>3, <2>2
  <2> QED BY <1>1, <1>2, <2>1, <2>2
<1>7. ASSUME NEW j \in 1 .. Len(r) - 1
      PROVE  r[j].first + r[j].size = r[j + 1].first
  <2>1. j \in 1 .. L /\ r[j] = bs[j]
    BY <1>1, <1>2
  <2>2. CASE j = L
    <3>1. bs # <<>> /\ r[j + 1] = b
      BY <1>1, <1>2, <1>4, <2>1, <2>2
    <3> QED BY <2>1, <2>2, <3>1 DEF EndOf
  <2>3. CASE j # L
    <3>1. j \in 1 .. L - 1 /\ r[j + 1] = bs[j + 1]
      BY <1>1, <1>2, <2>1, <2>3
    <3> QED BY <2>1, <3>1 DEF Chain
  <2> QED BY <2>2, <2>3
<1>8. Chain(r, o)
  BY <1>1, <1>2, <1>5, <1>6, <1>7 DEF Chain
<1>9. EndOf(r, o) = b.first + b.size
  BY <1>2 DEF EndOf
<1> QED BY <1>8, <1>9 DEF r

------------------------------------------------------------------------------
(* The invariant.                                                          *)

\* What is buffered goes on from the offset; libcurl goes on from its end, and
\* a connection that is gone has got there, unless it has failed.
StreamInv ==
  /\ HttpTypeOK
  /\ Chain(buffers, offset) /\ EndOf(buffers, offset) <= Size
  /\ wanted \in Nat
  /\ reader \in {"free", "reopen"} => wanted <= Size
  /\ reader \in {"reopen", "closed"} => easy = "none"
  /\ reader = "add" => easy = "init"
  /\ ~locked => reader = "idle"
  /\ easy = "init" => position = offset /\ buffers = <<>>
  /\ easy = "open" => position = EndOf(buffers, offset)
  /\ easy = "none" /\ locked /\ reader \notin {"free", "reopen", "close", "closed"} =>
       \/ told \/ EndOf(buffers, offset) = Size
       \/ ended = "failed" /\ (error \/ io = "done")

\* What is left to show of a step that keeps the buffers.
LEMMA BuffersKept ==
  ASSUME StreamInv, UNCHANGED <<buffers, offset>>
  PROVE  Chain(buffers, offset)' /\ EndOf(buffers, offset)' = EndOf(buffers, offset)
<1>1. buffers' = buffers /\ offset' = offset
  OBVIOUS
<1> QED BY <1>1 DEF StreamInv, Chain, EndOf

LEMMA InitOK ==
  ASSUME Init PROVE StreamInv
<1>1. Chain(<<>>, 0) /\ EndOf(<<>>, 0) = 0
  BY DEF Chain, EndOf
<1>2. HttpTypeOK
  <2>1. buffers = <<>> /\ buffers \in Seq(Buffer) /\ DOMAIN buffers = {}
    BY DEF Init
  <2>2. 0 \in 0 .. Size
    BY HttpAssumption
  <2> QED BY <2>1, <2>2 DEF Init, HttpTypeOK
<1>3. buffers = <<>> /\ offset = 0
  BY DEF Init
<1>4. Chain(buffers, offset) /\ EndOf(buffers, offset) = 0
  BY <1>1, <1>3
<1> QED BY <1>2, <1>4, HttpAssumption DEF Init, StreamInv

LEMMA CallOK ==
  ASSUME StreamInv, NEW n \in Nat, NEW where \in {"fill", "close"}, Call(where, n)
  PROVE  StreamInv'
<1>1. Chain(buffers, offset)' /\ EndOf(buffers, offset)' = EndOf(buffers, offset)
  BY BuffersKept DEF Call, sharedVars
<1>2. HttpTypeOK'
  BY ZenonT(60) DEF StreamInv, HttpTypeOK, Call, curlVars, sharedVars
<1> QED BY <1>1, <1>2 DEF StreamInv, HttpTypeOK, Call, curlVars, sharedVars

LEMMA FillWaitOK ==
  ASSUME StreamInv, FillWait PROVE StreamInv'
<1>1. Chain(buffers, offset)' /\ EndOf(buffers, offset)' = EndOf(buffers, offset)
  BY BuffersKept DEF FillWait, sharedVars
<1>2. HttpTypeOK'
  BY ZenonT(60) DEF StreamInv, HttpTypeOK, FillWait, Goto, curlVars, sharedVars
<1> QED BY <1>1, <1>2 DEF StreamInv, HttpTypeOK, FillWait, Goto, curlVars, sharedVars

LEMMA FillNothingOK ==
  ASSUME StreamInv, FillNothing PROVE StreamInv'
<1>1. Chain(buffers, offset)' /\ EndOf(buffers, offset)' = EndOf(buffers, offset)
  BY BuffersKept DEF FillNothing
<1>2. HttpTypeOK'
  BY DEF StreamInv, HttpTypeOK, FillNothing, Return, curlVars
<1> QED BY <1>1, <1>2 DEF StreamInv, HttpTypeOK, FillNothing, Return, curlVars

LEMMA ReadDataOK ==
  ASSUME StreamInv, ReadData PROVE StreamInv'
<1> DEFINE n == IF wanted < Available(buffers) THEN wanted ELSE Available(buffers)
<1>1. buffers' = Consume(buffers, n) /\ offset' = offset + n
  BY DEF ReadData
<1>2. n \in Nat /\ n <= Available(buffers) /\ offset + n <= EndOf(buffers, offset)
  BY ChainEnds DEF StreamInv, Chain
<1> HIDE DEF n
<1>3. Chain(buffers', offset') /\ EndOf(buffers', offset') = EndOf(buffers, offset)
  BY <1>1, <1>2, ConsumeOK DEF StreamInv
<1>4. Chain(buffers, offset)' /\ EndOf(buffers, offset)' = EndOf(buffers, offset)
  BY <1>3 DEF Chain, EndOf
<1>5. offset' \in 0 .. Size
  BY <1>1, <1>2, ChainEnds, HttpAssumption DEF StreamInv, Chain
<1>6. buffers' \in Seq(Buffer) /\ \A i \in DOMAIN buffers' : buffers'[i].consumed < buffers'[i].size
  BY <1>3 DEF Chain
<1>7. /\ reader' \in {"resume", "idle"} /\ (reader' = "resume" => locked)
      /\ locked' \in BOOLEAN /\ told' = told /\ (locked' => locked \/ reader = "fill")
      /\ result' \in {result, "data"} /\ wanted' = wanted /\ (~locked' => reader' = "idle")
  BY DEF ReadData, Goto, Return, StreamInv, HttpTypeOK
<1>8. /\ reader = "fill" /\ buffers # <<>> /\ ~error
      /\ UNCHANGED <<easy, position, halted, ended, paused, error, ready, io>>
  BY DEF ReadData, curlVars
<1>9. HttpTypeOK'
  BY <1>5, <1>6, <1>7, <1>8, ZenonT(60) DEF StreamInv, HttpTypeOK
<1> QED BY <1>4, <1>7, <1>8, <1>9 DEF StreamInv, HttpTypeOK

LEMMA SeekOK ==
  ASSUME StreamInv, NEW target \in Targets, Seek(target)
  PROVE  StreamInv'
<1>1. target \in Nat /\ target <= Size
  BY HttpAssumption
<1>2. /\ reader = "idle" /\ locked /\ wanted' = target
      /\ reader' \in {"idle", "free"} /\ result' \in {result, "sought"}
      /\ UNCHANGED <<easy, position, halted, ended, paused, error, ready, locked, told, io>>
  BY DEF Seek, curlVars
<1>3. /\ Chain(buffers, offset)' /\ EndOf(buffers, offset)' = EndOf(buffers, offset)
      /\ offset' \in 0 .. Size
      /\ buffers = <<>> => buffers' = <<>> /\ offset' = offset
  <2>1. CASE target >= offset
    <3> DEFINE n == Forward(target)
    <3>1. buffers' = Consume(buffers, n) /\ offset' = offset + n
      BY <2>1 DEF Seek
    <3>2. n \in Nat /\ n <= Available(buffers) /\ offset + n <= EndOf(buffers, offset)
      BY <1>1, <2>1, ChainEnds DEF StreamInv, Chain, Forward
    <3> HIDE DEF n
    <3>3. Chain(buffers', offset') /\ EndOf(buffers', offset') = EndOf(buffers, offset)
      BY <3>1, <3>2, ConsumeOK DEF StreamInv
    <3>4. Chain(buffers, offset)' /\ EndOf(buffers, offset)' = EndOf(buffers, offset)
      BY <3>3 DEF Chain, EndOf
    <3>5. offset' \in 0 .. Size
      BY <3>1, <3>2, ChainEnds, HttpAssumption DEF StreamInv, Chain
    <3>6. ASSUME buffers = <<>> PROVE buffers' = <<>> /\ offset' = offset
      <4>1. EndOf(buffers, offset) = offset /\ Len(buffers) = 0
        BY <3>6 DEF EndOf
      <4>2. n = 0
        BY <3>2, <4>1 DEF StreamInv, Chain
      <4>3. Emptied(buffers, n) \in 0 .. 0
        BY <3>2, <4>1, EmptiedIs DEF StreamInv
      <4>4. Consume(buffers, n) = <<>>
        BY <4>1, <4>3 DEF Consume
      <4> QED BY <3>1, <4>2, <4>4, <3>6 DEF StreamInv, Chain
    <3> QED BY <3>4, <3>5, <3>6
  <2>2. CASE ~(target >= offset)
    <3>1. UNCHANGED <<buffers, offset>>
      BY <2>2 DEF Seek
    <3> QED BY <3>1, BuffersKept DEF StreamInv, HttpTypeOK
  <2> QED BY <2>1, <2>2
<1>4. buffers' \in Seq(Buffer) /\ \A i \in DOMAIN buffers' : buffers'[i].consumed < buffers'[i].size
  BY <1>3 DEF Chain
<1>5. HttpTypeOK'
  <2>1. offset' \in 0 .. Size /\ HttpTypeOK
    BY <1>3 DEF StreamInv
  <2> QED BY <1>2, <1>4, <2>1, ZenonT(60) DEF HttpTypeOK
<1> QED BY <1>1, <1>2, <1>3, <1>5 DEF StreamInv, HttpTypeOK

LEMMA ReopenOK ==
  ASSUME StreamInv, Reopen PROVE StreamInv'
<1>1. /\ reader = "reopen" /\ easy = "none" /\ wanted \in 0 .. Size
      /\ buffers' = <<>> /\ offset' = wanted
      /\ UNCHANGED <<paused, error, io>>
  BY HttpAssumption DEF StreamInv, Reopen
<1>2. Chain(<<>>, wanted) /\ EndOf(<<>>, wanted) = wanted
  BY <1>1 DEF Chain, EndOf
<1>3. Chain(buffers, offset)' /\ EndOf(buffers, offset)' = wanted
  BY <1>1, <1>2 DEF Chain, EndOf
<1>4. buffers' \in Seq(Buffer) /\ DOMAIN buffers' = {}
  BY <1>1
<1>5. CASE UNCHANGED <<curlVars, ready>> /\ \E what \in {"sought", "error"} : Return(what, FALSE)
  <2>1. HttpTypeOK'
    BY <1>1, <1>4, <1>5 DEF StreamInv, HttpTypeOK, Return, curlVars
  <2> QED BY <1>1, <1>3, <1>5, <2>1 DEF StreamInv, HttpTypeOK, Return, curlVars
<1>6. CASE /\ easy' = "init" /\ position' = wanted /\ halted' = FALSE /\ ended' = "no"
           /\ ready' = FALSE
           /\ reader' = "add" /\ told' = FALSE
           /\ UNCHANGED <<locked, wanted, result>>
  <2>1. HttpTypeOK'
    BY <1>1, <1>4, <1>6 DEF StreamInv, HttpTypeOK
  <2> QED BY <1>1, <1>3, <1>6, <2>1 DEF StreamInv, HttpTypeOK
<1> QED BY <1>5, <1>6 DEF Reopen

LEMMA WaitReadyOK ==
  ASSUME StreamInv, WaitReady PROVE StreamInv'
<1>1. Chain(buffers, offset)' /\ EndOf(buffers, offset)' = EndOf(buffers, offset)
  BY BuffersKept DEF WaitReady
<1>2. HttpTypeOK'
  BY ZenonT(60) DEF StreamInv, HttpTypeOK, WaitReady, Goto, Return, curlVars
<1> QED BY <1>1, <1>2 DEF StreamInv, HttpTypeOK, WaitReady, Goto, Return, curlVars

LEMMA ResumeOK ==
  ASSUME StreamInv, Resume PROVE StreamInv'
<1>1. Chain(buffers, offset)' /\ EndOf(buffers, offset)' = EndOf(buffers, offset)
  BY BuffersKept DEF Resume
<1>2. HttpTypeOK'
  BY DEF StreamInv, HttpTypeOK, Resume, Return
<1> QED BY <1>1, <1>2 DEF StreamInv, HttpTypeOK, Resume, Return

LEMMA FreeOK ==
  ASSUME StreamInv, Free PROVE StreamInv'
<1>1. Chain(buffers, offset)' /\ EndOf(buffers, offset)' = EndOf(buffers, offset)
  BY BuffersKept DEF Free, sharedVars
<1>2. HttpTypeOK'
  BY ZenonT(60) DEF StreamInv, HttpTypeOK, Free, Goto, sharedVars
<1> QED BY <1>1, <1>2 DEF StreamInv, HttpTypeOK, Free, Goto, sharedVars

LEMMA AddOK ==
  ASSUME StreamInv, Add PROVE StreamInv'
<1>1. Chain(buffers, offset)' /\ EndOf(buffers, offset)' = EndOf(buffers, offset)
  BY BuffersKept DEF Add, sharedVars
<1>2. EndOf(<<>>, offset) = offset
  BY DEF EndOf
<1>3. HttpTypeOK'
  BY DEF StreamInv, HttpTypeOK, Add, Goto, Return, sharedVars
<1> QED BY <1>1, <1>2, <1>3 DEF StreamInv, HttpTypeOK, Add, Goto, Return, sharedVars

\* A broadcast moves none but a waiting reader.
LEMMA WakeMoves ==
  ASSUME HttpTypeOK, Wake
  PROVE  \/ reader' = reader
         \/ reader = "fill wait" /\ reader' = "fill"
         \/ reader = "ready wait" /\ reader' = "ready"
BY DEF HttpTypeOK, Wake

LEMMA WriteOK ==
  ASSUME StreamInv, NEW n \in 1 .. MaxWrite, Write(n) PROVE StreamInv'
<1>1. /\ easy = "open" /\ position + n <= Size /\ position = EndOf(buffers, offset)
      /\ n \in Nat /\ position \in 0 .. Size /\ Size \in Nat
      /\ UNCHANGED <<easy, ended, error, offset, locked, wanted, result, told, io>>
  <2>1. /\ easy = "open" /\ position + n <= Size
        /\ UNCHANGED <<easy, ended, error, offset, locked, wanted, result, told, io>>
    BY DEF Write, Receiving
  <2>2. position = EndOf(buffers, offset) /\ position \in 0 .. Size
    BY <2>1 DEF StreamInv, HttpTypeOK
  <2> QED BY <2>1, <2>2, HttpAssumption
<1>2. CASE Total(buffers) + n >= MaxBuffered
  <2>1. paused' = TRUE /\ halted' = TRUE /\ UNCHANGED <<position, buffers, ready, reader>>
    BY <1>2 DEF Write
  <2>2. Chain(buffers, offset)' /\ EndOf(buffers, offset)' = EndOf(buffers, offset)
    BY <1>1, <2>1, BuffersKept
  <2>3. HttpTypeOK'
    BY <1>1, <2>1, ZenonT(60) DEF StreamInv, HttpTypeOK
  <2> QED BY <1>1, <2>1, <2>2, <2>3 DEF StreamInv, HttpTypeOK
<1>3. CASE ~(Total(buffers) + n >= MaxBuffered)
  <2> DEFINE b == [first |-> position, size |-> n, consumed |-> 0]
  <2>1. /\ buffers' = Append(buffers, b) /\ position' = position + n /\ ready' = TRUE
        /\ Wake /\ UNCHANGED <<paused, halted>>
    BY <1>3 DEF Write
  <2>2. b \in Buffer /\ b.first = position /\ b.size = n /\ b.consumed = 0
    BY <1>1, HttpAssumption DEF Buffer
  <2> HIDE DEF b
  <2>3. Chain(Append(buffers, b), offset) /\ EndOf(Append(buffers, b), offset) = position + n
    BY <1>1, <2>2, AppendOK DEF StreamInv
  <2>4. Chain(buffers, offset)' /\ EndOf(buffers, offset)' = position + n
    BY <1>1, <2>1, <2>3 DEF Chain, EndOf
  <2>5. buffers' \in Seq(Buffer) /\ \A i \in DOMAIN buffers' : buffers'[i].consumed < buffers'[i].size
    BY <2>4 DEF Chain
  <2>6. position' \in 0 .. Size
    BY <1>1, <2>1
  <2>7. \/ reader' = reader
        \/ reader = "fill wait" /\ reader' = "fill"
        \/ reader = "ready wait" /\ reader' = "ready"
    BY <2>1, WakeMoves DEF StreamInv
  <2>8. HttpTypeOK'
    <3>1. HttpTypeOK
      BY DEF StreamInv
    <3> QED BY <1>1, <2>1, <2>5, <2>6, <2>7, <3>1, ZenonT(60) DEF HttpTypeOK
  <2> QED BY <1>1, <2>1, <2>4, <2>6, <2>7, <2>8 DEF StreamInv, HttpTypeOK
<1> QED BY <1>2, <1>3

LEMMA FinishOK ==
  ASSUME StreamInv, NEW how \in {"whole", "failed"}, Finish(how) PROVE StreamInv'
<1>1. Chain(buffers, offset)' /\ EndOf(buffers, offset)' = EndOf(buffers, offset)
  BY BuffersKept DEF Finish, sharedVars
<1>2. HttpTypeOK'
  BY ZenonT(60) DEF StreamInv, HttpTypeOK, Finish, Receiving, sharedVars, readerVars
<1> QED BY <1>1, <1>2 DEF StreamInv, HttpTypeOK, Finish, Receiving, sharedVars, readerVars

LEMMA RequestDoneOK ==
  ASSUME StreamInv, RequestDone PROVE StreamInv'
<1>1. Chain(buffers, offset)' /\ EndOf(buffers, offset)' = EndOf(buffers, offset)
  BY BuffersKept DEF RequestDone
<1>2. \/ reader' = reader
      \/ reader = "fill wait" /\ reader' = "fill"
      \/ reader = "ready wait" /\ reader' = "ready"
  BY WakeMoves DEF StreamInv, RequestDone
<1>3. HttpTypeOK'
  BY <1>2, ZenonT(60) DEF StreamInv, HttpTypeOK, RequestDone, curlVars
<1> QED BY <1>1, <1>2, <1>3 DEF StreamInv, HttpTypeOK, RequestDone, curlVars

\* Every step keeps the invariant.
LEMMA StreamStep ==
  ASSUME StreamInv, [Next]_vars PROVE StreamInv'
<1>1. CASE UNCHANGED vars
  <2>1. Chain(buffers, offset)' /\ EndOf(buffers, offset)' = EndOf(buffers, offset)
    BY <1>1, BuffersKept DEF vars, sharedVars
  <2>2. UNCHANGED <<easy, position, halted, ended, buffers, paused, error, ready, offset,
                    locked, reader, wanted, result, told, io>>
    BY <1>1 DEF vars, curlVars, sharedVars, readerVars
  <2>3. HttpTypeOK'
    <3>1. HttpTypeOK
      BY DEF StreamInv
    <3>2. buffers' \in Seq(Buffer) /\ \A i \in DOMAIN buffers' : buffers'[i].consumed < buffers'[i].size
      BY <2>2, <3>1 DEF HttpTypeOK
    <3>3. easy' = easy /\ position' = position /\ ended' = ended /\ offset' = offset
          /\ reader' = reader /\ result' = result /\ io' = io
      BY <2>2
    <3>4. /\ {halted', paused'} \subseteq BOOLEAN /\ {error', ready'} \subseteq BOOLEAN
          /\ {locked', told'} \subseteq BOOLEAN
      BY <2>2, <3>1 DEF HttpTypeOK
    <3> QED BY <3>1, <3>2, <3>3, <3>4 DEF HttpTypeOK
  <2> QED BY <2>1, <2>2, <2>3 DEF StreamInv
<1>2. ASSUME NEW n \in 1 .. MaxWrite, Call("fill", n) PROVE StreamInv'
  BY <1>2, CallOK
<1>3. ASSUME NEW target \in Targets, Seek(target) PROVE StreamInv'
  BY <1>3, SeekOK
<1>4. CASE Call("close", 0)
  BY <1>4, CallOK
<1>5. CASE Decoder
  BY <1>5, FillWaitOK, FillNothingOK, ReadDataOK, ReopenOK, WaitReadyOK DEF Decoder
<1>6. CASE IoThread
  BY <1>6, ResumeOK, FreeOK, AddOK, RequestDoneOK, WriteOK, FinishOK DEF IoThread
<1>7. CASE Finish("failed")
  BY <1>7, FinishOK
<1> QED BY <1>1, <1>2, <1>3, <1>4, <1>5, <1>6, <1>7 DEF Next

LEMMA StreamIsSound == Spec => []StreamInv
BY InitOK, StreamStep, PTL DEF Spec

------------------------------------------------------------------------------
(* The theorems.                                                           *)

(* The bytes are read in order, across buffers, pauses and new connections  *)
(* (CurlInputPlugin.cxx:801-841, 927-951, 1050-1071).                       *)
THEOREM BytesStayInOrder == Spec => []BytesInOrder
<1>1. StreamInv => BytesInOrder
  <2> SUFFICES ASSUME StreamInv PROVE BytesInOrder
    OBVIOUS
  <2>1. Chain(buffers, offset)
    BY DEF StreamInv
  <2>2. buffers # <<>> => /\ buffers[1].first + buffers[1].consumed = offset
                          /\ Last(buffers) = buffers[Len(buffers)]
    BY <2>1 DEF Chain, Last
  <2>3. easy = "open" => position = IF buffers = <<>> THEN offset
                                    ELSE Last(buffers).first + Last(buffers).size
    BY <2>2 DEF StreamInv, EndOf
  <2> QED BY <2>1, <2>2, <2>3 DEF BytesInOrder, Chain
<1> QED BY <1>1, StreamIsSound, PTL

(* A read that returns nothing and no error has come to the end of the      *)
(* stream, unless the failure has been told or is on its way                *)
(* (CurlInputPlugin.cxx:496-531, 708-721).                                  *)
THEOREM EndIsTheEnd == Spec => EndIsEnd
<1> DEFINE Ends == reader = "fill" /\ reader' = "idle" /\ result' = "end"
<1>1. ASSUME StreamInv, [Next]_vars, Ends PROVE FillNothing
  <2>1. ~UNCHANGED vars
    BY <1>1 DEF vars, readerVars
  <2>2. ~Resume /\ ~Free /\ ~Add /\ ~FillWait /\ ~Reopen /\ ~WaitReady
    BY <1>1 DEF Resume, Free, Add, FillWait, Goto, Reopen, WaitReady
  <2>3. ~RequestDone /\ \A how : ~Finish(how)
    BY <1>1 DEF RequestDone, Wake, Finish, readerVars
  <2>4. \A n : ~Write(n)
    BY <1>1 DEF Write, Wake
  <2>5. ~ReadData
    BY <1>1 DEF ReadData, Goto, Return
  <2>6. \A n, where : ~Call(where, n) /\ ~Seek(n)
    BY <1>1 DEF Call, Seek
  <2> QED BY <1>1, <2>1, <2>2, <2>3, <2>4, <2>5, <2>6 DEF Next, Decoder, IoThread
<1>2. ASSUME StreamInv, FillNothing, Ends
      PROVE  offset = Size \/ told \/ (ended = "failed" /\ io = "done")
  <2>1. ~error /\ buffers = <<>> /\ easy = "none" /\ locked
    BY <1>2 DEF FillNothing, Return, StreamInv, HttpTypeOK
  <2>2. EndOf(buffers, offset) = offset
    BY <2>1 DEF EndOf
  <2> QED BY <1>2, <2>1, <2>2 DEF StreamInv
<1>3. ASSUME StreamInv, [Next]_vars
      PROVE  [Ends => offset = Size \/ told \/ (ended = "failed" /\ io = "done")]_vars
  BY <1>1, <1>2, <1>3
<1> QED BY <1>3, StreamIsSound, PTL DEF Spec, EndIsEnd

(* The stream's variables keep their types, and what is buffered is neither *)
(* empty nor beyond the end (CurlInputPlugin.cxx:723-771, 801-841).         *)
THEOREM HttpStreamKeepsTypes == Spec => []HttpTypeOK
<1>1. StreamInv => HttpTypeOK
  BY DEF StreamInv
<1> QED BY <1>1, StreamIsSound, PTL
=============================================================================
