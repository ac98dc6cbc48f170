-------------------------- MODULE IpRewrite_proofs --------------------------
(***************************************************************************)
(* Theorems about the packets the entries of the sorter rewrite, for any   *)
(* width of a word.                                                        *)
(***************************************************************************)
EXTENDS IpRewrite, SequenceTheorems, TLAPS

\* What a one's complement sum is modulo
K == M - 1

\* The headers: six words at most
Words(ws) == Len(ws) \in 0 .. 6 /\ \A j \in 1 .. Len(ws) : ws[j] \in Word

LEMMA WordIs == K \in Int /\ K > 3 /\ M = K + 1 /\ Word = 0 .. K
BY WordAssumption DEF K, Word

-----------------------------------------------------------------------------
(* The sums                                                                *)

\* Sums of the first words, as both definitions go through them
LEMMA TotalSteps ==
    ASSUME NEW ws, Words(ws)
    PROVE  \E t : /\ t[0] = 0 /\ Total(ws) = t[Len(ws)]
                  /\ \A n \in 1 .. Len(ws) : t[n] = t[n - 1] + ws[n]
<1> DEFINE L == Len(ws)
           Is(t) == t = [n \in 0 .. L |-> IF n = 0 THEN 0 ELSE t[n - 1] + ws[n]]
           g == [n \in 0 .. L |->
                   IF n = 0 THEN 0 ELSE IF n = 1 THEN 0 + ws[1] ELSE IF n = 2 THEN 0 + ws[1] + ws[2]
                   ELSE IF n = 3 THEN 0 + ws[1] + ws[2] + ws[3]
                   ELSE IF n = 4 THEN 0 + ws[1] + ws[2] + ws[3] + ws[4]
                   ELSE IF n = 5 THEN 0 + ws[1] + ws[2] + ws[3] + ws[4] + ws[5]
                   ELSE 0 + ws[1] + ws[2] + ws[3] + ws[4] + ws[5] + ws[6]]
           t == CHOOSE t : Is(t)
<1>1. L \in 0 .. 6
  BY DEF Words
<1>2. ASSUME NEW n \in 0 .. 6, n <= L PROVE g[n] = IF n = 0 THEN 0 ELSE g[n - 1] + ws[n]
  <2>1. n = 0 \/ n = 1 \/ n = 2 \/ n = 3 \/ n = 4 \/ n = 5 \/ n = 6
    OBVIOUS
  <2>2. CASE n = 0
    BY <1>1, <1>2, <2>2
  <2>3. CASE n = 1
    BY <1>1, <1>2, <2>3
  <2>4. CASE n = 2
    BY <1>1, <1>2, <2>4
  <2>5. CASE n = 3
    BY <1>1, <1>2, <2>5
  <2>6. CASE n = 4
    BY <1>1, <1>2, <2>6
  <2>7. CASE n = 5
    BY <1>1, <1>2, <2>7
  <2>8. CASE n = 6
    BY <1>1, <1>2, <2>8
  <2>9. QED
    BY <2>1, <2>2, <2>3, <2>4, <2>5, <2>6, <2>7, <2>8
<1>3. Is(g)
  BY <1>1, <1>2
<1>4. Is(t)
  BY <1>3
<1>5. Total(ws) = t[L]
  BY DEF Total
<1> HIDE DEF t
<1>6. t[0] = 0 /\ \A n \in 1 .. L : t[n] = t[n - 1] + ws[n]
  BY <1>1, <1>4
<1>7. QED
  BY <1>5, <1>6

LEMMA OnesSumSteps ==
    ASSUME NEW ws, Words(ws)
    PROVE  \E s : /\ s[0] = 0 /\ OnesSum(ws) = s[Len(ws)]
                  /\ \A n \in 1 .. Len(ws) : s[n] = EndAroundAdd(s[n - 1], ws[n])
<1> DEFINE L == Len(ws)
           A(a, b) == EndAroundAdd(a, b)
           Is(s) == s = [n \in 0 .. L |-> IF n = 0 THEN 0 ELSE EndAroundAdd(s[n - 1], ws[n])]
           g == [n \in 0 .. L |->
                   IF n = 0 THEN 0 ELSE IF n = 1 THEN A(0, ws[1]) ELSE IF n = 2 THEN A(A(0, ws[1]), ws[2])
                   ELSE IF n = 3 THEN A(A(A(0, ws[1]), ws[2]), ws[3])
                   ELSE IF n = 4 THEN A(A(A(A(0, ws[1]), ws[2]), ws[3]), ws[4])
                   ELSE IF n = 5 THEN A(A(A(A(A(0, ws[1]), ws[2]), ws[3]), ws[4]), ws[5])
                   ELSE A(A(A(A(A(A(0, ws[1]), ws[2]), ws[3]), ws[4]), ws[5]), ws[6])]
           s == CHOOSE s : Is(s)
<1>1. L \in 0 .. 6
  BY DEF Words
<1>2. ASSUME NEW n \in 0 .. 6, n <= L PROVE g[n] = IF n = 0 THEN 0 ELSE EndAroundAdd(g[n - 1], ws[n])
  <2>1. n = 0 \/ n = 1 \/ n = 2 \/ n = 3 \/ n = 4 \/ n = 5 \/ n = 6
    OBVIOUS
  <2>2. CASE n = 0
    BY <1>1, <1>2, <2>2
  <2>3. CASE n = 1
    BY <1>1, <1>2, <2>3
  <2>4. CASE n = 2
    BY <1>1, <1>2, <2>4
  <2>5. CASE n = 3
    BY <1>1, <1>2, <2>5
  <2>6. CASE n = 4
    BY <1>1, <1>2, <2>6
  <2>7. CASE n = 5
    BY <1>1, <1>2, <2>7
  <2>8. CASE n = 6
    BY <1>1, <1>2, <2>8
  <2>9. QED
    BY <2>1, <2>2, <2>3, <2>4, <2>5, <2>6, <2>7, <2>8
<1>3. Is(g)
  BY <1>1, <1>2
<1>4. Is(s)
  BY <1>3
<1>5. OnesSum(ws) = s[L]
  BY DEF OnesSum
<1> HIDE DEF s
<1>6. s[0] = 0 /\ \A n \in 1 .. L : s[n] = EndAroundAdd(s[n - 1], ws[n])
  BY <1>1, <1>4
<1>7. QED
  BY <1>5, <1>6

\* t reduced by at most n times K is s, and only zero gives zero
Reduces(t, s, n) ==
    /\ t \in Nat /\ s \in 0 .. K /\ (t = 0 <=> s = 0)
    /\ \E c \in 0 .. n : t = s + c * K

LEMMA AddReduces ==
    ASSUME NEW t, NEW s, NEW n \in Nat, Reduces(t, s, n), NEW w \in Word
    PROVE  Reduces(t + w, EndAroundAdd(s, w), n + 1)
<1> USE WordIs
<1>1. PICK c \in 0 .. n : t = s + c * K
  BY DEF Reduces
<1>2. t \in Nat /\ s \in 0 .. K /\ (t = 0 <=> s = 0)
  BY DEF Reduces
<1>3. (c + 1) * K = c * K + K /\ c * K \in Int
  OBVIOUS
<1>4. CASE s + w < M
  <2>1. EndAroundAdd(s, w) = s + w
    BY <1>4 DEF EndAroundAdd
  <2>2. t + w = (s + w) + c * K /\ c \in 0 .. n + 1
    BY <1>1, <1>2, <1>3
  <2>3. QED
    BY <1>2, <1>4, <2>1, <2>2 DEF Reduces
<1>5. CASE ~(s + w < M)
  <2>1. EndAroundAdd(s, w) = s + w - K
    BY <1>2, <1>5 DEF EndAroundAdd
  <2>2. t + w = (s + w - K) + (c + 1) * K /\ c + 1 \in 0 .. n + 1
    BY <1>1, <1>2, <1>3
  <2>3. QED
    BY <1>2, <1>5, <2>1, <2>2 DEF Reduces
<1>6. QED
  BY <1>4, <1>5

LEMMA SumReduces ==
    ASSUME NEW ws, Words(ws)
    PROVE  Reduces(Total(ws), OnesSum(ws), 6)
<1>1. PICK t : /\ t[0] = 0 /\ Total(ws) = t[Len(ws)]
               /\ \A n \in 1 .. Len(ws) : t[n] = t[n - 1] + ws[n]
  BY TotalSteps
<1>2. PICK s : /\ s[0] = 0 /\ OnesSum(ws) = s[Len(ws)]
               /\ \A n \in 1 .. Len(ws) : s[n] = EndAroundAdd(s[n - 1], ws[n])
  BY OnesSumSteps
<1>3. PICK L \in 0 .. 6 : L = Len(ws)
  BY DEF Words
<1> DEFINE R == {n \in 0 .. L : Reduces(t[n], s[n], n)}
<1>4. 0 \in R
  <2>1. 0 = 0 + 0 * K /\ 0 \in 0 .. 0
    BY WordIs
  <2>2. Reduces(0, 0, 0)
    BY <2>1, WordIs DEF Reduces
  <2>3. QED
    BY <1>1, <1>2, <1>3, <2>2
<1>5. ASSUME NEW n \in 1 .. L, n - 1 \in R PROVE n \in R
  <2>1. Reduces(t[n], s[n], n - 1 + 1) /\ n - 1 + 1 = n
    BY <1>1, <1>2, <1>3, <1>5, AddReduces DEF Words
  <2>2. QED
    BY <1>3, <2>1
<1> HIDE DEF R
<1>6. L \in R
  <2>1. L >= 1 => 1 \in R
    BY <1>3, <1>4, <1>5
  <2>2. L >= 2 => 2 \in R
    BY <2>1, <1>3, <1>5
  <2>3. L >= 3 => 3 \in R
    BY <2>2, <1>3, <1>5
  <2>4. L >= 4 => 4 \in R
    BY <2>3, <1>3, <1>5
  <2>5. L >= 5 => 5 \in R
    BY <2>4, <1>3, <1>5
  <2>6. L >= 6 => 6 \in R
    BY <2>5, <1>3, <1>5
  <2>7. QED
    BY <1>3, <1>4, <2>1, <2>2, <2>3, <2>4, <2>5, <2>6
<1>7. Reduces(Total(ws), OnesSum(ws), L)
  BY <1>1, <1>2, <1>3, <1>6 DEF R
<1>8. 0 .. L \subseteq 0 .. 6
  OBVIOUS
<1>9. QED
  BY <1>7, <1>8 DEF Reduces

\* A sum of zero words only is not valid, and neither is one that leaves a
\* remainder
Multiple(t) == \E m \in 1 .. 7 : t = m * K

LEMMA SumsUpIs ==
    ASSUME NEW ws, Words(ws)
    PROVE  SumsUp(ws) <=> Multiple(Total(ws))
<1> USE WordIs
<1> DEFINE t == Total(ws)  s == OnesSum(ws)
<1>1. t \in Nat /\ s \in 0 .. K /\ (t = 0 <=> s = 0) /\ \E c \in 0 .. 6 : t = s + c * K
  BY SumReduces DEF Reduces
<1> HIDE DEF t, s
<1>2. PICK c \in 0 .. 6 : t = s + c * K
  BY <1>1
<1>3. ASSUME s = K PROVE Multiple(t)
  <2>1. t = (c + 1) * K /\ c + 1 \in 1 .. 7
    BY <1>2, <1>3
  <2>2. QED
    BY <2>1 DEF Multiple
<1>4. ASSUME NEW m \in 1 .. 7, t = m * K PROVE s = K
  <2>1. s = (m - c) * K /\ s # 0
    BY <1>1, <1>2, <1>4
  <2>2. m - c = 1
    <3>1. m - c <= 0 => (m - c) * K <= 0
      OBVIOUS
    <3>2. m - c >= 2 => (m - c) * K >= 2 * K
      OBVIOUS
    <3>3. QED
      BY <1>1, <2>1, <3>1, <3>2
  <2>3. QED
    BY <2>1, <2>2
<1>5. QED
  BY <1>3, <1>4 DEF SumsUp, K, Multiple, t, s

LEMMA TotalOf3 ==
    ASSUME NEW a \in Word, NEW b \in Word, NEW c \in Word
    PROVE  Words(<<a, b, c>>) /\ Total(<<a, b, c>>) = a + b + c
<1> DEFINE ws == <<a, b, c>>
<1>1. Words(ws) /\ Len(ws) = 3
  BY DEF Words
<1>2. PICK t : t[0] = 0 /\ Total(ws) = t[3] /\ \A n \in 1 .. 3 : t[n] = t[n - 1] + ws[n]
  BY <1>1, TotalSteps
<1>3. t[1] = a /\ t[2] = t[1] + b /\ t[3] = t[2] + c
  BY <1>2, WordIs
<1>4. QED
  BY <1>1, <1>2, <1>3

LEMMA TotalOf4 ==
    ASSUME NEW a \in Word, NEW b \in Word, NEW c \in Word, NEW d \in Word
    PROVE  Words(<<a, b, c, d>>) /\ Total(<<a, b, c, d>>) = a + b + c + d
<1> DEFINE ws == <<a, b, c, d>>
<1>1. Words(ws) /\ Len(ws) = 4
  BY DEF Words
<1>2. PICK t : t[0] = 0 /\ Total(ws) = t[4] /\ \A n \in 1 .. 4 : t[n] = t[n - 1] + ws[n]
  BY <1>1, TotalSteps
<1>3. t[1] = a /\ t[2] = t[1] + b /\ t[3] = t[2] + c /\ t[4] = t[3] + d
  BY <1>2, WordIs
<1>4. QED
  BY <1>1, <1>2, <1>3

LEMMA TotalOf5 ==
    ASSUME NEW a \in Word, NEW b \in Word, NEW c \in Word, NEW d \in Word, NEW e \in Word
    PROVE  Words(<<a, b, c, d, e>>) /\ Total(<<a, b, c, d, e>>) = a + b + c + d + e
<1> DEFINE ws == <<a, b, c, d, e>>
<1>1. Words(ws) /\ Len(ws) = 5
  BY DEF Words
<1>2. PICK t : t[0] = 0 /\ Total(ws) = t[5] /\ \A n \in 1 .. 5 : t[n] = t[n - 1] + ws[n]
  BY <1>1, TotalSteps
<1>3. t[1] = a /\ t[2] = t[1] + b /\ t[3] = t[2] + c /\ t[4] = t[3] + d /\ t[5] = t[4] + e
  BY <1>2, WordIs
<1>4. QED
  BY <1>1, <1>2, <1>3

LEMMA TotalOf6 ==
    ASSUME NEW a \in Word, NEW b \in Word, NEW c \in Word, NEW d \in Word, NEW e \in Word, NEW f \in Word
    PROVE  Words(<<a, b, c, d, e, f>>) /\ Total(<<a, b, c, d, e, f>>) = a + b + c + d + e + f
<1> DEFINE ws == <<a, b, c, d, e, f>>
<1>1. Words(ws) /\ Len(ws) = 6
  BY DEF Words
<1>2. PICK t : t[0] = 0 /\ Total(ws) = t[6] /\ \A n \in 1 .. 6 : t[n] = t[n - 1] + ws[n]
  BY <1>1, TotalSteps
<1>3. t[1] = a /\ t[2] = t[1] + b /\ t[3] = t[2] + c /\ t[4] = t[3] + d /\ t[5] = t[4] + e /\ t[6] = t[5] + f
  BY <1>2, WordIs
<1>4. QED
  BY <1>1, <1>2, <1>3

\* Two foldings are enough for a few words: the sum that is computed completes
\* the sum of the words to a valid one
LEMMA FoldIs ==
    ASSUME NEW t \in Nat, t <= 5 * K
    PROVE  LET f == M - 1 - (Fold(t) % M) IN f \in Word /\ Multiple(t + f)
<1> USE WordIs
<1> DEFINE q == t \div M  r == t % M  u == q + r
<1>1. q \in Nat /\ r \in 0 .. K /\ t = q * M + r
  BY WordAssumption
<1>2. q \in 0 .. 4
  <2>1. q >= 5 => q * M >= 5 * M
    BY <1>1
  <2>2. QED
    BY <1>1, <2>1
<1>3. t = u + q * K /\ u \in 0 .. K + 4
  <2>1. q * M = q * K + q
    BY <1>1, <1>2
  <2>2. QED
    BY <1>1, <1>2, <2>1
<1>4. Fold(t) = u + u \div M
  BY DEF Fold
<1> HIDE DEF q, r, u
<1>5. CASE u < M
  <2>1. u \div M = 0 /\ u % M = u
    BY <1>3, <1>5
  <2>2. M - 1 - (Fold(t) % M) = K - u
    <3>1. Fold(t) = u
      BY <1>3, <1>4, <2>1
    <3>2. QED
      BY <2>1, <3>1
  <2>3. t + (K - u) = (q + 1) * K /\ q + 1 \in 1 .. 7
    BY <1>2, <1>3
  <2>4. K - u \in Word
    BY <1>3, <1>5
  <2>5. QED
    BY <2>2, <2>3, <2>4 DEF Multiple
<1>6. CASE ~(u < M)
  <2>1. u \div M = 1
    BY <1>3, <1>6
  <2>2. (u + 1) % M = u - K
    <3>1. u + 1 = 1 * M + (u - K) /\ u - K \in 0 .. M - 1
      BY <1>3, <1>6
    <3>2. QED
      BY <3>1, <1>3
  <2>3. M - 1 - (Fold(t) % M) = K - (u - K)
    BY <1>4, <2>1, <2>2
  <2>4. t + (K - (u - K)) = (q + 2) * K /\ q + 2 \in 1 .. 7
    BY <1>2, <1>3
  <2>5. K - (u - K) \in Word
    BY <1>3, <1>6
  <2>6. QED
    BY <2>3, <2>4, <2>5 DEF Multiple
<1>7. QED
  BY <1>3, <1>5, <1>6

\* So the sums computed over a header of four words, and over one of five
LEMMA CksumOf4 ==
    ASSUME NEW a \in Word, NEW b \in Word, NEW c \in Word, NEW d \in Word
    PROVE  /\ sin_ip4_cksum(<<a, b, c, d>>) \in Word
           /\ Multiple(a + b + c + d + sin_ip4_cksum(<<a, b, c, d>>))
<1>1. PICK t : t = a + b + c + d
  OBVIOUS
<1>2. t \in Nat /\ t <= 5 * K
  BY <1>1, WordIs
<1>3. Total(<<a, b, c, d>>) = t
  BY <1>1, TotalOf4
<1>4. QED
  BY <1>1, <1>2, <1>3, FoldIs DEF sin_ip4_cksum

LEMMA CksumOf5 ==
    ASSUME NEW a \in Word, NEW b \in Word, NEW c \in Word, NEW d \in Word, NEW e \in Word
    PROVE  /\ sin_ip4_cksum(<<a, b, c, d, e>>) \in Word
           /\ Multiple(a + b + c + d + e + sin_ip4_cksum(<<a, b, c, d, e>>))
<1>1. PICK t : t = a + b + c + d + e
  OBVIOUS
<1>2. t \in Nat /\ t <= 5 * K
  BY <1>1, WordIs
<1>3. Total(<<a, b, c, d, e>>) = t
  BY <1>1, TotalOf5
<1>4. QED
  BY <1>1, <1>2, <1>3, FoldIs DEF sin_ip4_cksum

-----------------------------------------------------------------------------
(* The invariant: what arrives is valid, and what has been rewritten is a   *)
(* reply or a valid datagram                                               *)

Echoes == [len : Nat, ip4 : BOOLEAN, proto : {1}, rest : Word, sum : Word, src : Word, dst : Word,
           type : Word, data : Word, cksum : Word]
Datagrams == [len : Nat, ip4 : BOOLEAN, proto : {6, 17}, rest : Word, sum : Word, src : Word, dst : Word,
              sport : Word, dport : Word, data : Word, cksum : Word]

ValidDatagram(p) == SumsUp(IpWords(p)) /\ (p.cksum = 0 \/ SumsUp(UdpWords(p) \o <<p.cksum>>))

IrInv ==
    \/ /\ pkt \in Echoes
       /\ (done = FALSE /\ SumsUp(IcmpWords(pkt))) \/ (done = TRUE /\ sin_ip4_icmp_repl_taste(pkt))
    \/ /\ pkt \in Datagrams
       /\ ValidDatagram(pkt)

LEMMA Kinds ==
    /\ \A p \in Echoes : IsEcho(p) /\ p.proto = 1
    /\ \A p \in Datagrams : ~IsEcho(p) /\ p.proto # 1
BY DEF Echoes, Datagrams, IsEcho

LEMMA JoinOne ==
    ASSUME NEW S, NEW s \in Seq(S), NEW u \in Seq(S), NEW v \in Seq(S),
           Len(u) = 1, Len(v) = Len(s) + 1, \A j \in 1 .. Len(s) : s[j] = v[j], u[1] = v[Len(v)]
    PROVE  s \o u = v
<1>1. PICK n \in Nat : n = Len(s)
  OBVIOUS
<1>2. /\ s \o u \in Seq(S) /\ Len(s \o u) = Len(s) + Len(u)
      /\ \A j \in 1 .. Len(s) + Len(u) : (s \o u)[j] = IF j <= Len(s) THEN s[j] ELSE u[j - Len(s)]
  BY ConcatProperties, Zenon
<1>3. ASSUME NEW j \in 1 .. n + 1 PROVE (s \o u)[j] = v[j]
  <2>1. CASE j <= n
    BY <1>1, <1>2, <2>1
  <2>2. CASE ~(j <= n)
    <3>1. j = n + 1 /\ j - n = 1
      BY <2>2
    <3>2. QED
      BY <1>1, <1>2, <2>2, <3>1
  <2>3. QED
    BY <2>1, <2>2
<1>4. QED
  BY <1>1, <1>2, <1>3, SeqEqual

LEMMA UdpWordsAre ==
    ASSUME NEW p \in Datagrams
    PROVE  UdpWords(p) \o <<p.cksum>> = <<p.src, p.dst, p.sport, p.dport, p.data, p.cksum>>
<1>1. PICK s, u, v : /\ s = <<p.src, p.dst, p.sport, p.dport, p.data>> /\ u = <<p.cksum>>
                     /\ v = <<p.src, p.dst, p.sport, p.dport, p.data, p.cksum>>
  OBVIOUS
<1>2. s \in Seq(Word) /\ u \in Seq(Word) /\ v \in Seq(Word) /\ Len(s) = 5 /\ Len(u) = 1 /\ Len(v) = 6
  <2>1. s \in Seq(Word) /\ Len(s) = 5
    BY <1>1 DEF Datagrams
  <2>2. u \in Seq(Word) /\ Len(u) = 1
    BY <1>1 DEF Datagrams
  <2>3. v \in Seq(Word) /\ Len(v) = 6
    BY <1>1 DEF Datagrams
  <2>4. QED
    BY <2>1, <2>2, <2>3
<1>3. (\A j \in 1 .. Len(s) : s[j] = v[j]) /\ u[1] = v[Len(v)] /\ Len(v) = Len(s) + 1
  BY <1>1, <1>2
<1>4. s \o u = v
  BY <1>2, <1>3, JoinOne
<1>5. QED
  BY <1>1, <1>4 DEF UdpWords

LEMMA DatagramSums ==
    ASSUME NEW p \in Datagrams
    PROVE  /\ SumsUp(IpWords(p)) <=> Multiple(p.rest + p.sum + p.src + p.dst)
           /\ SumsUp(UdpWords(p) \o <<p.cksum>>) <=>
                Multiple(p.src + p.dst + p.sport + p.dport + p.data + p.cksum)
<1>1. /\ p.rest \in Word /\ p.sum \in Word /\ p.src \in Word /\ p.dst \in Word
      /\ p.sport \in Word /\ p.dport \in Word /\ p.data \in Word /\ p.cksum \in Word
  BY DEF Datagrams
<1>2. SumsUp(IpWords(p)) <=> Multiple(p.rest + p.sum + p.src + p.dst)
  BY <1>1, SumsUpIs, TotalOf4 DEF IpWords
<1>3. SumsUp(UdpWords(p) \o <<p.cksum>>) <=>
        Multiple(p.src + p.dst + p.sport + p.dport + p.data + p.cksum)
  <2>1. PICK a \in Word, b \in Word, c \in Word, d \in Word, e \in Word, f \in Word :
          a = p.src /\ b = p.dst /\ c = p.sport /\ d = p.dport /\ e = p.data /\ f = p.cksum
    BY <1>1
  <2>2. Words(<<a, b, c, d, e, f>>) /\ Total(<<a, b, c, d, e, f>>) = a + b + c + d + e + f
    BY TotalOf6
  <2>3. SumsUp(<<a, b, c, d, e, f>>) <=> Multiple(a + b + c + d + e + f)
    BY <2>2, SumsUpIs
  <2>4. UdpWords(p) \o <<p.cksum>> = <<a, b, c, d, e, f>>
    BY <2>1, UdpWordsAre
  <2>5. QED
    BY <2>1, <2>3, <2>4
<1>4. QED
  BY <1>2, <1>3

LEMMA EchoSum ==
    ASSUME NEW p \in Echoes
    PROVE  SumsUp(IcmpWords(p)) <=> Multiple(p.type + p.data + p.cksum)
<1>1. p.type \in Word /\ p.data \in Word /\ p.cksum \in Word
  BY DEF Echoes
<1>2. QED
  BY <1>1, SumsUpIs, TotalOf3 DEF IcmpWords

LEMMA IrInvInit == IrInit => IrInv
<1> SUFFICES ASSUME IrInit PROVE IrInv
  OBVIOUS
<1>1. done = FALSE
  BY DEF IrInit
<1> DEFINE Echo(len, ip4, proto, rest, sum, src, dst, A) ==
             /\ proto = 1
             /\ \E type \in Word, data \in A, cksum \in Word :
                  /\ SumsUp(<<type, data, cksum>>)
                  /\ pkt = [len |-> len, ip4 |-> ip4, proto |-> proto,
                            rest |-> rest, sum |-> sum, src |-> src, dst |-> dst,
                            type |-> type, data |-> data, cksum |-> cksum]
           Datagram(len, ip4, proto, rest, sum, src, dst) ==
             /\ proto # 1
             /\ \E sport \in Word, dport \in Word, data \in Rests, cksum \in Word :
                  /\ cksum = 0 \/ SumsUp(<<src, dst, sport, dport, data, cksum>>)
                  /\ pkt = [len |-> len, ip4 |-> ip4, proto |-> proto,
                            rest |-> rest, sum |-> sum, src |-> src, dst |-> dst,
                            sport |-> sport, dport |-> dport, data |-> data, cksum |-> cksum]
           Headers(len, ip4, proto, A) ==
             \E rest \in Rests, sum \in Word, src \in A, dst \in A :
                /\ SumsUp(<<rest, sum, src, dst>>)
                /\ Echo(len, ip4, proto, rest, sum, src, dst, A) \/ Datagram(len, ip4, proto, rest, sum, src, dst)
<1>2. PICK len \in {41, 42, 49, 50}, ip4 \in BOOLEAN, proto \in {1, 6, 17}, A \in {Word, {0}} :
        Headers(len, ip4, proto, A)
  <2>1. PICK len \in {41, 42, 49, 50}, ip4 \in BOOLEAN, proto \in {1, 6, 17} :
          Headers(len, ip4, proto, IF ip4 /\ len = 50 /\ proto # 6 THEN Word ELSE {0})
    BY DEF IrInit
  <2>2. (IF ip4 /\ len = 50 /\ proto # 6 THEN Word ELSE {0}) \in {Word, {0}}
    OBVIOUS
  <2>3. PICK A : A = IF ip4 /\ len = 50 /\ proto # 6 THEN Word ELSE {0}
    OBVIOUS
  <2> HIDE DEF Headers
  <2>4. Headers(len, ip4, proto, A) /\ A \in {Word, {0}}
    BY <2>1, <2>2, <2>3
  <2>5. QED
    BY <2>4
<1> HIDE DEF Echo, Datagram
<1>3. PICK rest \in Rests, sum \in Word, src \in A, dst \in A :
           /\ SumsUp(<<rest, sum, src, dst>>)
           /\ Echo(len, ip4, proto, rest, sum, src, dst, A) \/ Datagram(len, ip4, proto, rest, sum, src, dst)
  BY <1>2, Zenon DEF Headers
<1> HIDE DEF Headers
<1>4. rest \in Word /\ len \in Nat /\ A \subseteq Word /\ src \in Word /\ dst \in Word
  BY IpRewriteAssumption, WordIs
<1>5. CASE Echo(len, ip4, proto, rest, sum, src, dst, A)
  <2>1. proto = 1
    BY <1>5 DEF Echo
  <2>2. PICK type \in Word, data \in A, cksum \in Word :
          /\ SumsUp(<<type, data, cksum>>)
          /\ pkt = [len |-> len, ip4 |-> ip4, proto |-> proto,
                    rest |-> rest, sum |-> sum, src |-> src, dst |-> dst,
                    type |-> type, data |-> data, cksum |-> cksum]
    BY <1>5 DEF Echo
  <2>3. data \in Word
    BY <1>4
  <2>4. pkt \in Echoes
    BY <1>4, <2>1, <2>2, <2>3 DEF Echoes
  <2>5. IcmpWords(pkt) = <<type, data, cksum>>
    BY <2>2 DEF IcmpWords
  <2>6. QED
    BY <1>1, <2>2, <2>4, <2>5 DEF IrInv
<1>6. CASE Datagram(len, ip4, proto, rest, sum, src, dst)
  <2>1. proto # 1
    BY <1>6 DEF Datagram
  <2>2. PICK sport \in Word, dport \in Word, data \in Rests, cksum \in Word :
          /\ cksum = 0 \/ SumsUp(<<src, dst, sport, dport, data, cksum>>)
          /\ pkt = [len |-> len, ip4 |-> ip4, proto |-> proto,
                    rest |-> rest, sum |-> sum, src |-> src, dst |-> dst,
                    sport |-> sport, dport |-> dport, data |-> data, cksum |-> cksum]
    BY <1>6 DEF Datagram
  <2>3. data \in Word /\ proto \in {6, 17}
    BY <2>1, IpRewriteAssumption
  <2>4. pkt \in Datagrams
    BY <1>4, <2>2, <2>3 DEF Datagrams
  <2>5. IpWords(pkt) = <<rest, sum, src, dst>> /\ pkt.cksum = cksum
    BY <2>2 DEF IpWords
  <2>6. UdpWords(pkt) \o <<pkt.cksum>> = <<src, dst, sport, dport, data, cksum>>
    BY <2>2, <2>4, UdpWordsAre
  <2>7. QED
    BY <1>3, <2>2, <2>4, <2>5, <2>6 DEF IrInv, ValidDatagram
<1>7. QED
  BY <1>3, <1>5, <1>6

\* What the type of an echo request leaves
LEMMA ReplyType ==
    ASSUME NEW type \in Word, type % TypeM = EchoReq
    PROVE  type - EchoReq \in Word /\ (type - EchoReq) % TypeM = 0
<1> USE WordIs
<1> DEFINE q == type \div TypeM
<1>1. TypeM \in Nat /\ TypeM > 0 /\ EchoReq \in Nat /\ EchoReq < TypeM
  BY IpRewriteAssumption
<1>2. q \in Nat /\ type = q * TypeM + EchoReq
  BY <1>1
<1> HIDE DEF q
<1>3. q * TypeM \in Nat /\ type - EchoReq = q * TypeM
  BY <1>1, <1>2
<1>4. (q * TypeM) % TypeM = 0
  BY <1>1, <1>2
<1>5. QED
  BY <1>1, <1>2, <1>3, <1>4

LEMMA EchoRewritten ==
    ASSUME IrInv, RewriteEcho
    PROVE  /\ pkt \in Echoes /\ SumsUp(IcmpWords(pkt)) /\ pkt' \in Echoes /\ done' = TRUE
           /\ pkt'.type = pkt.type - EchoReq /\ pkt'.data = pkt.data
           /\ pkt'.cksum = (pkt.cksum + EchoReq) % M
           /\ sin_ip4_icmp_repl_taste(pkt')
<1> USE WordIs
<1>1. done = FALSE /\ done' = TRUE /\ sin_ip4_icmp_taste(pkt)
  BY DEF RewriteEcho, IrInv
<1>2. pkt \in Echoes /\ SumsUp(IcmpWords(pkt))
  BY <1>1, Kinds DEF IrInv, sin_ip4_icmp_taste, IcmpTaste
<1>3. PICK c : c = sin_ip4_cksum(IpWords(SwapAddrs(pkt)))
  OBVIOUS
<1>4. pkt' = [SwapAddrs(pkt) EXCEPT !.sum = c, !.type = @ - EchoReq, !.cksum = (@ + EchoReq) % M]
  BY <1>3 DEF RewriteEcho
<1>5. /\ pkt'.type = pkt.type - EchoReq /\ pkt'.data = pkt.data /\ pkt'.cksum = (pkt.cksum + EchoReq) % M
      /\ pkt'.len = pkt.len /\ pkt'.ip4 = pkt.ip4 /\ pkt'.proto = pkt.proto
  BY <1>2, <1>4 DEF SwapAddrs, Echoes
<1>6. c \in Word
  <2>1. PICK p : p = SwapAddrs(pkt)
    OBVIOUS
  <2>2. p.rest \in Word /\ p.sum \in Word /\ p.src \in Word /\ p.dst \in Word
    BY <1>2, <2>1 DEF SwapAddrs, Echoes
  <2>3. PICK x \in Word, y \in Word, z \in Word, w \in Word : IpWords(p) = <<x, y, z, w>>
    BY <2>2 DEF IpWords
  <2>4. sin_ip4_cksum(<<x, y, z, w>>) \in Word
    BY CksumOf4
  <2>5. QED
    BY <1>3, <2>1, <2>3, <2>4
<1>7. pkt.type % TypeM = EchoReq
  BY <1>1 DEF sin_ip4_icmp_taste, IcmpTaste
<1>8. pkt.type - EchoReq \in Word /\ (pkt.type - EchoReq) % TypeM = 0
  BY <1>2, <1>7, ReplyType DEF Echoes
<1>9. (pkt.cksum + EchoReq) % M \in Word
  BY <1>2, IpRewriteAssumption DEF Echoes
<1>10. pkt' \in Echoes
  BY <1>2, <1>4, <1>6, <1>8, <1>9 DEF SwapAddrs, Echoes
<1>11. sin_ip4_icmp_repl_taste(pkt')
  BY <1>1, <1>5, <1>8 DEF sin_ip4_icmp_taste, sin_ip4_icmp_repl_taste, IcmpTaste
<1>12. QED
  BY <1>1, <1>2, <1>5, <1>10, <1>11

\* Both builds: q is what the mirror leaves in a release
LEMMA DatagramMirrored ==
    ASSUME IrInv, Mirror
    PROVE  pkt' \in Datagrams /\ ValidDatagram(pkt')
<1> USE WordIs
<1>1. pkt \in Datagrams /\ ValidDatagram(pkt)
  BY Kinds DEF IrInv, Mirror, udpm_taste
<1>2. PICK q : q = [SwapAddrs(pkt) EXCEPT !.sport = pkt.dport, !.dport = pkt.sport]
  OBVIOUS
<1>3. /\ q \in Datagrams /\ q.rest = pkt.rest /\ q.sum = pkt.sum /\ q.src = pkt.dst /\ q.dst = pkt.src
      /\ q.sport = pkt.dport /\ q.dport = pkt.sport /\ q.data = pkt.data /\ q.cksum = pkt.cksum
  BY <1>1, <1>2 DEF SwapAddrs, Datagrams
<1>4. PICK a \in Word, b \in Word, c \in Word, d \in Word, e \in Word, f \in Word, s \in Word, u \in Word :
        /\ a = pkt.rest /\ b = pkt.sum /\ c = pkt.src /\ d = pkt.dst
        /\ e = pkt.sport /\ f = pkt.dport /\ s = pkt.data /\ u = pkt.cksum
  <2>1. /\ pkt.rest \in Word /\ pkt.sum \in Word /\ pkt.src \in Word /\ pkt.dst \in Word
        /\ pkt.sport \in Word /\ pkt.dport \in Word /\ pkt.data \in Word /\ pkt.cksum \in Word
    BY <1>1 DEF Datagrams
  <2>2. QED
    BY ONLY <2>1
<1>5. CASE pkt' = q
  <2>1. a + b + d + c = a + b + c + d /\ d + c + f + e + s + u = c + d + e + f + s + u
    OBVIOUS
  <2>2. SumsUp(IpWords(q)) <=> SumsUp(IpWords(pkt))
    BY <1>1, <1>3, <1>4, <2>1, DatagramSums
  <2>3. SumsUp(UdpWords(q) \o <<q.cksum>>) <=> SumsUp(UdpWords(pkt) \o <<pkt.cksum>>)
    BY <1>1, <1>3, <1>4, <2>1, DatagramSums
  <2>4. QED
    BY <1>1, <1>3, <1>5, <2>2, <2>3 DEF ValidDatagram
<1>6. CASE pkt' = [q EXCEPT !.sum = sin_ip4_cksum(IpWords([q EXCEPT !.sum = 0])),
                            !.cksum = sin_ip_chksum(UdpWords(q))]
  <2>1. PICK x, y : x = sin_ip4_cksum(IpWords([q EXCEPT !.sum = 0])) /\ y = sin_ip_chksum(UdpWords(q))
    OBVIOUS
  <2>2. IpWords([q EXCEPT !.sum = 0]) = <<a, 0, d, c>>
    BY <1>3, <1>4 DEF IpWords, Datagrams
  <2>3. UdpWords(q) = <<d, c, f, e, s>>
    BY <1>3, <1>4 DEF UdpWords
  <2>4. x \in Word /\ Multiple(a + 0 + d + c + x)
    <3>1. 0 \in Word
      OBVIOUS
    <3>2. QED
      BY <2>1, <2>2, <3>1, CksumOf4
  <2>5. y \in Word /\ Multiple(d + c + f + e + s + y)
    BY <2>1, <2>3, CksumOf5 DEF sin_ip_chksum
  <2>6. PICK p : p = [q EXCEPT !.sum = x, !.cksum = y]
    OBVIOUS
  <2>7. /\ p \in Datagrams /\ p.rest = a /\ p.sum = x /\ p.src = d /\ p.dst = c
        /\ p.sport = f /\ p.dport = e /\ p.data = s /\ p.cksum = y
    BY <1>3, <1>4, <2>4, <2>5, <2>6 DEF Datagrams
  <2>8. Multiple(p.rest + p.sum + p.src + p.dst)
    <3>1. a + x + d + c = a + 0 + d + c + x
      BY <2>4
    <3>2. QED
      BY <2>4, <2>7, <3>1
  <2>9. Multiple(p.src + p.dst + p.sport + p.dport + p.data + p.cksum)
    BY <2>5, <2>7
  <2>10. ValidDatagram(p)
    BY <2>7, <2>8, <2>9, DatagramSums DEF ValidDatagram
  <2>11. QED
    BY <1>6, <2>1, <2>6, <2>7, <2>10
<1>7. QED
  BY <1>2, <1>5, <1>6 DEF Mirror

LEMMA IrInvNext == IrInv /\ [RewriteEcho \/ Mirror]_irVars => IrInv'
<1> SUFFICES ASSUME IrInv, [RewriteEcho \/ Mirror]_irVars PROVE IrInv'
  OBVIOUS
<1>1. CASE RewriteEcho
  BY <1>1, EchoRewritten DEF IrInv
<1>2. CASE Mirror
  BY <1>2, DatagramMirrored DEF IrInv
<1>3. CASE UNCHANGED irVars
  BY <1>3 DEF irVars, IrInv
<1>4. QED
  BY <1>1, <1>2, <1>3

LEMMA IrAlways == IrSpec => []IrInv
<1>1. QED
  BY IrInvInit, IrInvNext, PTL DEF IrSpec

-----------------------------------------------------------------------------
(* Theorems                                                                *)

\* What the mirror sends back has valid sums, whether the build computes them
\* afresh or leaves them alone.
THEOREM RewriteMirroredValid == IrSpec => []MirroredValid
<1>1. IrInv => MirroredValid
  BY Kinds DEF IrInv, MirroredValid, ValidDatagram
<1>2. QED
  BY <1>1, IrAlways, PTL

\* What has been answered is a reply for whoever gets it, and no entry takes it
\* for a request or for a datagram.
THEOREM RewriteEchoEnds == IrSpec => []EchoEnds
<1>1. IrInv => EchoEnds
  <2> SUFFICES ASSUME IrInv, done, IsEcho(pkt)
               PROVE  sin_ip4_icmp_repl_taste(pkt) /\ ~sin_ip4_icmp_taste(pkt) /\ ~udpm_taste(pkt)
    BY DEF EchoEnds
  <2>1. sin_ip4_icmp_repl_taste(pkt)
    BY Kinds DEF IrInv
  <2>2. pkt.proto = 1 /\ pkt.type % TypeM = 0
    BY <2>1 DEF sin_ip4_icmp_repl_taste, IcmpTaste
  <2>3. QED
    BY <2>1, <2>2, IpRewriteAssumption DEF sin_ip4_icmp_taste, IcmpTaste, udpm_taste
<1>2. QED
  BY <1>1, IrAlways, PTL

\* The sum of a reply, updated by adding what the type has lost, is right exactly
\* when the addition does not carry.
THEOREM RewriteEchoSum == IrSpec => EchoSumOffByCarry
<1>1. IrInv /\ RewriteEcho => (SumsUp(IcmpWords(pkt')) <=> pkt.cksum + EchoReq < M)
  <2> SUFFICES ASSUME IrInv, RewriteEcho
               PROVE  SumsUp(IcmpWords(pkt')) <=> pkt.cksum + EchoReq < M
    OBVIOUS
  <2> USE WordIs
  <2>1. PICK p : p = pkt'
    OBVIOUS
  <2>2. /\ pkt \in Echoes /\ SumsUp(IcmpWords(pkt)) /\ p \in Echoes
        /\ p.type = pkt.type - EchoReq /\ p.data = pkt.data /\ p.cksum = (pkt.cksum + EchoReq) % M
    BY <2>1, EchoRewritten
  <2>3. PICK a \in Word, b \in Word, c \in Word : a = pkt.type /\ b = pkt.data /\ c = pkt.cksum
    BY <2>2 DEF Echoes
  <2>4. EchoReq \in Word /\ EchoReq > 0
    BY IpRewriteAssumption
  <2>5. PICK m \in 1 .. 7 : a + b + c = m * K
    BY <2>2, <2>3, EchoSum DEF Multiple
  <2>6. PICK t : t = a - EchoReq + b + ((c + EchoReq) % M)
    OBVIOUS
  <2>7. SumsUp(IcmpWords(p)) <=> Multiple(t)
    BY <2>2, <2>3, <2>6, EchoSum
  <2>8. CASE c + EchoReq < M
    <3>1. (c + EchoReq) % M = c + EchoReq
      BY <2>4, <2>8
    <3>2. t = m * K
      BY <2>4, <2>5, <2>6, <3>1
    <3>3. QED
      BY <2>1, <2>3, <2>7, <2>8, <3>2 DEF Multiple
  <2>9. CASE ~(c + EchoReq < M)
    <3>1. (c + EchoReq) % M = c + EchoReq - M
      BY <2>4, <2>9
    <3>2. t = m * K - K - 1
      BY <2>4, <2>5, <2>6, <3>1
    <3>3. ASSUME NEW n \in 1 .. 7, t = n * K PROVE FALSE
      BY <3>2, <3>3
    <3>4. QED
      BY <2>1, <2>3, <2>7, <2>9, <3>3 DEF Multiple
  <2>10. QED
    BY <2>8, <2>9
<1>2. IrInv /\ [RewriteEcho \/ Mirror]_irVars =>
        [RewriteEcho => (SumsUp(IcmpWords(pkt')) <=> pkt.cksum + EchoReq < M)]_irVars
  BY <1>1
<1>3. QED
  BY <1>2, IrAlways, PTL DEF IrSpec, EchoSumOffByCarry
=============================================================================
