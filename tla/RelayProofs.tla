-------------------------------- MODULE RelayProofs -----------------------------
(***************************************************************************)
(* Theorems about Relay, for every BUF_SIZE and every set of lengths of   *)
(* the messages: no byte of the request and none of the answer is lost,   *)
(* doubled or moved, the body is counted once, and the exchange is the    *)
(* stream that module Stream promises.                                    *)
(*                                                                         *)
(* The three invariants are not inductive alone.  What they rest on is the*)
(* protocol of the interests: a client whose request is being passed on is*)
(* not read again, so that the body handler never receives into a buffer  *)
(* that is partly sent (StageInv), and no half of an event of a connection*)
(* is left in the batch when that connection is gone (BatchInv).          *)
(***************************************************************************)
EXTENDS Relay, TLAPS, WellFoundedInduction, NaturalsInduction, SequenceTheorems

-------------------------------------------------------------------------------
(* The inductive invariant.                                                *)

Conn == {"front", "back"}
Half == Conn \X {"in", "out"}
PeerType == [wrote : Nat, taken : Nat, closed : {"no", "end", "reset"}]

IsBuffer(b) == /\ b \in [data : Seq(Nat), begin : Nat]
               /\ b.begin <= Len(b.data)
               /\ Len(b.data) <= Buf

TypeInv ==
    /\ msg \in [head : Heads, length : Bodies, reply : Replies, found : BOOLEAN]
    /\ client \in PeerType /\ client.taken <= client.wrote
    /\ upstream \in PeerType /\ upstream.taken <= upstream.wrote
    /\ stage \in {"line", "headers", "body", "done"} /\ counted \in Nat
    /\ IsBuffer(rb) /\ IsBuffer(sb)
    /\ on \in SUBSET {"in", "out"} /\ pon \in BOOLEAN /\ uc \in BOOLEAN
    /\ expired \in SUBSET Conn /\ batch \in Seq(Half) /\ phase \in {"wait", "batch", "aborted"}
    /\ passed \in Seq(Nat) /\ delivered \in Seq(Nat) /\ over \in BOOLEAN

Pending(c, bit) == \E i \in 1 .. Len(batch) : batch[i] = <<c, bit>>
Live == "front" \notin expired /\ phase # "aborted" /\ ~over

\* No half is there twice, and behind the client's output only the upstream follows.
Distinct ==
    \A i, j \in 1 .. Len(batch) :
       i < j => /\ batch[i] # batch[j]
                /\ batch[i] = <<"front", "out">> => batch[j][1] = "back"

BatchInv ==
    /\ Pending("back", "in") \/ Pending("back", "out") => uc
    /\ Distinct
    /\ over => batch = <<>> /\ ~uc
    /\ uc /\ "front" \in expired => "back" \in expired

StageInv ==
    /\ stage = "line" => ~uc
    /\ stage = "line" /\ Live => rb = Empty /\ client.taken = 0
    /\ stage \in {"line", "headers"} => passed = <<>> /\ counted = 0
    /\ pon \/ Pending("back", "out") => stage \in {"body", "done"}
    /\ uc /\ Live /\ stage \in {"body", "done"} /\ ("in" \in on \/ Pending("front", "in"))
          => rb = Empty

\* The client writes one request.
Written == client.wrote <= msg.head + msg.length

IInv == /\ TypeInv /\ BatchInv /\ StageInv /\ Written
        /\ RequestKept /\ ReplyKept /\ BodyCounted

-------------------------------------------------------------------------------
(* Induction up to a number.                                               *)

\* What holds of 0 and passes from each number below n to the next holds up to n.
LEMMA UpTo ==
    ASSUME NEW n \in Nat, NEW G, 0 \in G, \A i \in 0 .. n - 1 : i \in G => i + 1 \in G
    PROVE  \A i \in 0 .. n : i \in G
<1> SUFFICES ASSUME NEW t \in 0 .. n, t \notin G
             PROVE  FALSE
  OBVIOUS
<1> DEFINE T == {i \in 0 .. n : i \notin G}
<1>1. T \subseteq Nat /\ t \in T
  OBVIOUS
<1> HIDE DEF T
<1>2. PICK x \in T : \A y \in T : <<y, x>> \notin OpToRel(<, Nat)
  BY <1>1, WFMin, NatLessThanWellFounded, Zenon
<1>3. \A y \in T : ~(y < x)
  BY <1>1, <1>2, Zenon DEF OpToRel
<1>4. x \in 0 .. n /\ x \notin G /\ x # 0
  BY DEF T
<1>5. x - 1 \in 0 .. n - 1 /\ x - 1 \notin T
  BY <1>3, <1>4 DEF T
<1>6. x - 1 \in G
  BY <1>5 DEF T
<1> QED
  BY <1>4, <1>5, <1>6

-------------------------------------------------------------------------------
(* What Unpaged computes.                                                  *)

Step(s, f, i) ==
  IF i = 0 THEN <<>> ELSE IF s[i] = 0 THEN f[i - 1] ELSE Append(f[i - 1], s[i])
Kept(s) == CHOOSE f : f = [i \in 0 .. Len(s) |-> Step(s, f, i)]

\* The pages are left out byte by byte.
LEMMA UnpagedIs == ASSUME NEW s PROVE Unpaged(s) = Kept(s)[Len(s)]
  BY DEF Unpaged, Kept, Step

\* The recursion is well founded: there is a function it defines.
LEMMA KeptExists ==
    ASSUME NEW s \in Seq(Nat)
    PROVE  Kept(s) = [i \in 0 .. Len(s) |-> Step(s, Kept(s), i)]
<1>0. Len(s) \in Nat
  BY LenProperties
<1> DEFINE G == {m \in 0 .. Len(s) : \E f : f = [i \in 0 .. m |-> Step(s, f, i)]}
<1>1. 0 \in G
  <2> DEFINE f == [i \in 0 .. 0 |-> <<>>]
  <2>1. f = [i \in 0 .. 0 |-> Step(s, f, i)]
    BY DEF Step
  <2> QED BY <2>1
<1>2. ASSUME NEW m \in 0 .. Len(s) - 1, m \in G
      PROVE  m + 1 \in G
  <2>1. PICK f : f = [i \in 0 .. m |-> Step(s, f, i)]
    BY <1>2
  <2> DEFINE g == [i \in 0 .. m + 1 |-> IF i = m + 1 THEN Step(s, f, i) ELSE f[i]]
  <2>2. ASSUME NEW i \in 0 .. m + 1
        PROVE  g[i] = Step(s, g, i)
    <3>1. i # 0 => g[i - 1] = f[i - 1]
      OBVIOUS
    <3>2. Step(s, g, i) = Step(s, f, i)
      BY <3>1 DEF Step
    <3>3. \A j \in 0 .. m : f[j] = Step(s, f, j)
      BY <2>1, Zenon
    <3>4. g[i] = Step(s, f, i)
      BY <3>3
    <3> QED BY <3>2, <3>4
  <2>3. g = [i \in 0 .. m + 1 |-> Step(s, g, i)]
    <3> DEFINE h == [i \in 0 .. m + 1 |-> Step(s, g, i)]
    <3>1. DOMAIN g = 0 .. m + 1 /\ DOMAIN h = 0 .. m + 1 /\ \A i \in 0 .. m + 1 : g[i] = h[i]
      BY <2>2
    <3>2. g = [i \in 0 .. m + 1 |-> g[i]] /\ h = [i \in 0 .. m + 1 |-> h[i]]
      OBVIOUS
    <3> HIDE DEF g, h
    <3> QED BY <3>1, <3>2 DEF h
  <2> HIDE DEF g
  <2> QED BY <2>3
<1> HIDE DEF G
<1>3. \A m \in 0 .. Len(s) : m \in G
  BY <1>0, <1>1, <1>2, UpTo
<1>4. \E f : f = [i \in 0 .. Len(s) |-> Step(s, f, i)]
  BY <1>3 DEF G
<1> QED
  BY <1>4 DEF Kept

\* What is kept of each prefix of s.
LEMMA KeptIs ==
    ASSUME NEW s \in Seq(Nat)
    PROVE  /\ Kept(s)[0] = <<>>
           /\ \A i \in 1 .. Len(s) :
                Kept(s)[i] = IF s[i] = 0 THEN Kept(s)[i - 1] ELSE Append(Kept(s)[i - 1], s[i])
           /\ \A i \in 0 .. Len(s) : Kept(s)[i] \in Seq(Nat)
<1> DEFINE K == Kept(s)
<1>0. Len(s) \in Nat
  BY LenProperties
<1>1. K = [i \in 0 .. Len(s) |-> Step(s, K, i)]
  BY KeptExists
<1> HIDE DEF K
<1>2. \A i \in 0 .. Len(s) : K[i] = Step(s, K, i)
  BY <1>1
<1>3. K[0] = <<>>
  BY <1>2 DEF Step
<1>4. \A i \in 1 .. Len(s) : K[i] = IF s[i] = 0 THEN K[i - 1] ELSE Append(K[i - 1], s[i])
  BY <1>2 DEF Step
<1>5. \A i \in 0 .. Len(s) : K[i] \in Seq(Nat)
  <2> DEFINE G == {i \in 0 .. Len(s) : K[i] \in Seq(Nat)}
  <2>1. 0 \in G
    <3>1. K[0] \in Seq(Nat)
      BY <1>3, EmptySeq, Zenon
    <3> QED BY <1>0, <3>1
  <2>2. ASSUME NEW i \in 0 .. Len(s) - 1, i \in G
        PROVE  i + 1 \in G
    <3>1. s[i + 1] \in Nat /\ K[i] \in Seq(Nat)
      BY <2>2
    <3>2. K[i + 1] = IF s[i + 1] = 0 THEN K[i] ELSE Append(K[i], s[i + 1])
      BY <1>4
    <3>3. Append(K[i], s[i + 1]) \in Seq(Nat)
      BY <3>1, AppendProperties, Zenon
    <3>4. K[i + 1] \in Seq(Nat)
      BY <3>1, <3>2, <3>3, Zenon
    <3> QED BY <1>0, <3>4
  <2> HIDE DEF G
  <2>3. \A i \in 0 .. Len(s) : i \in G
    BY <1>0, <2>1, <2>2, UpTo
  <2> QED BY <2>3 DEF G
<1> QED
  BY <1>3, <1>4, <1>5 DEF K

\* What is left without the pages is a sequence of bytes.
LEMMA UnpagedType == \A s \in Seq(Nat) : Unpaged(s) \in Seq(Nat)
  BY UnpagedIs, KeptIs

\* A byte more at the end of the second is a byte more at the end of both.
LEMMA ConcatAppend ==
    ASSUME NEW s \in Seq(Nat), NEW t \in Seq(Nat), NEW x \in Nat
    PROVE  Append(s \o t, x) = s \o Append(t, x)
<1>1. <<x>> \in Seq(Nat) /\ s \o t \in Seq(Nat)
  BY ConcatProperties
<1>2. Append(s \o t, x) = (s \o t) \o <<x>> /\ Append(t, x) = t \o <<x>>
  BY <1>1, AppendIsConcat
<1>3. (s \o t) \o <<x>> = s \o (t \o <<x>>)
  BY <1>1, ConcatAssociative
<1> QED BY <1>2, <1>3, Zenon

\* Pages are left out piece by piece.
LEMMA UnpagedConcat ==
    ASSUME NEW s \in Seq(Nat), NEW t \in Seq(Nat)
    PROVE  Unpaged(s \o t) = Unpaged(s) \o Unpaged(t)
<1> DEFINE u == s \o t
           K == Kept(u)
           A == Kept(s)
           B == Kept(t)
<1>0. Len(s) \in Nat /\ Len(t) \in Nat
  BY LenProperties
<1>1. /\ u \in Seq(Nat) /\ Len(u) = Len(s) + Len(t)
      /\ \A i \in 1 .. Len(s) : u[i] = s[i]
      /\ \A i \in 1 .. Len(t) : u[Len(s) + i] = t[i]
  OBVIOUS
<1>2. /\ K[0] = <<>> /\ A[0] = <<>> /\ B[0] = <<>>
      /\ \A i \in 1 .. Len(u) : K[i] = IF u[i] = 0 THEN K[i - 1] ELSE Append(K[i - 1], u[i])
      /\ \A i \in 1 .. Len(s) : A[i] = IF s[i] = 0 THEN A[i - 1] ELSE Append(A[i - 1], s[i])
      /\ \A i \in 1 .. Len(t) : B[i] = IF t[i] = 0 THEN B[i - 1] ELSE Append(B[i - 1], t[i])
      /\ \A i \in 0 .. Len(s) : A[i] \in Seq(Nat)
      /\ \A i \in 0 .. Len(t) : B[i] \in Seq(Nat)
  BY <1>1, KeptIs
<1> HIDE DEF K, A, B, u
<1>3. \A i \in 0 .. Len(s) : K[i] = A[i]
  <2> DEFINE G == {i \in 0 .. Len(s) : K[i] = A[i]}
  <2>1. 0 \in G
    BY <1>2
  <2>2. ASSUME NEW i \in 0 .. Len(s) - 1, i \in G
        PROVE  i + 1 \in G
    <3> DEFINE j == i + 1
    <3>1. j \in 0 .. Len(s) /\ j \in 1 .. Len(s) /\ j \in 1 .. Len(u) /\ j - 1 = i
      BY <1>0, <1>1
    <3> HIDE DEF j
    <3>2. K[i] = A[i]
      BY <2>2
    <3>3. K[j] = A[j]
      BY <1>1, <1>2, <3>1, <3>2, Zenon
    <3> QED BY <3>1, <3>3 DEF j
  <2> HIDE DEF G
  <2>3. \A i \in 0 .. Len(s) : i \in G
    BY <1>0, <2>1, <2>2, UpTo
  <2> QED BY <2>3 DEF G
<1>4. \A i \in 0 .. Len(t) : K[Len(s) + i] = A[Len(s)] \o B[i]
  <2> DEFINE G == {i \in 0 .. Len(t) : K[Len(s) + i] = A[Len(s)] \o B[i]}
  <2>1. 0 \in G
    <3>1. A[Len(s)] \in Seq(Nat) /\ Len(s) \in 0 .. Len(s) /\ Len(s) + 0 = Len(s)
      BY <1>0, <1>2
    <3>2. K[Len(s) + 0] = A[Len(s)]
      BY <1>3, <3>1
    <3>3. A[Len(s)] = A[Len(s)] \o B[0]
      BY <1>2, <3>1, ConcatEmptySeq, Zenon
    <3>4. K[Len(s) + 0] = A[Len(s)] \o B[0]
      BY <3>2, <3>3, Zenon
    <3>5. 0 \in 0 .. Len(t)
      BY <1>0
    <3> QED BY <3>4, <3>5, Zenon
  <2>2. ASSUME NEW i \in 0 .. Len(t) - 1, i \in G
        PROVE  i + 1 \in G
    <3> DEFINE j == Len(s) + (i + 1)
    <3>1. /\ j \in 1 .. Len(u) /\ j - 1 = Len(s) + i /\ i + 1 \in 1 .. Len(t)
          /\ u[j] = t[i + 1] /\ (i + 1) - 1 = i /\ t[i + 1] \in Nat
      BY <1>0, <1>1
    <3>0. K[Len(s) + i] = A[Len(s)] \o B[i]
      BY <2>2
    <3>2. K[j] = IF u[j] = 0 THEN K[j - 1] ELSE Append(K[j - 1], u[j])
      BY <1>2, <3>1
    <3>3. B[i + 1] = IF t[i + 1] = 0 THEN B[i] ELSE Append(B[i], t[i + 1])
      BY <1>2, <3>1
    <3>4. A[Len(s)] \in Seq(Nat) /\ B[i] \in Seq(Nat)
      BY <1>2
    <3> HIDE DEF j
    <3>5. Append(A[Len(s)] \o B[i], t[i + 1]) = A[Len(s)] \o Append(B[i], t[i + 1])
      BY <3>1, <3>4, ConcatAppend, Zenon
    <3>6. K[j] = A[Len(s)] \o B[i + 1]
      BY <3>0, <3>1, <3>2, <3>3, <3>5, Zenon
    <3>7. i + 1 \in 0 .. Len(t)
      BY <1>0
    <3> QED BY <3>6, <3>7 DEF j
  <2> HIDE DEF G
  <2>3. \A i \in 0 .. Len(t) : i \in G
    BY <1>0, <2>1, <2>2, UpTo
  <2> QED BY <2>3 DEF G
<1>5. K[Len(u)] = A[Len(s)] \o B[Len(t)]
  <2>1. Len(t) \in 0 .. Len(t)
    BY <1>0
  <2> QED BY <1>1, <1>4, <2>1, Zenon
<1> QED
  BY <1>5, UnpagedIs DEF K, A, B, u

\* A page alone leaves nothing, and without pages everything is left.
LEMMA UnpagedEmpty == Unpaged(<<>>) = <<>>
<1>1. <<>> \in Seq(Nat) /\ Len(<<>>) = 0
  OBVIOUS
<1> QED BY <1>1, UnpagedIs, KeptIs

\* A page at the end is left out.
LEMMA UnpagedPage == ASSUME NEW s \in Seq(Nat) PROVE Unpaged(Append(s, 0)) = Unpaged(s)
<1> DEFINE p == <<0>>
<1>1. p \in Seq(Nat) /\ Len(p) = 1 /\ p[1] = 0 /\ Append(s, 0) = s \o p
  OBVIOUS
<1> HIDE DEF p
<1>2. Kept(p)[1] = <<>>
  BY <1>1, KeptIs
<1>3. Unpaged(p) = <<>> /\ Unpaged(s) \in Seq(Nat)
  BY <1>1, <1>2, UnpagedIs, UnpagedType
<1>4. Unpaged(s \o p) = Unpaged(s) \o Unpaged(p)
  BY <1>1, UnpagedConcat, Zenon
<1>5. Unpaged(s) \o <<>> = Unpaged(s)
  BY <1>3, ConcatEmptySeq, Zenon
<1> QED BY <1>1, <1>3, <1>4, <1>5, Zenon

\* Where there is no page everything is left.
LEMMA UnpagedBytes ==
    ASSUME NEW s \in Seq(Nat), \A i \in 1 .. Len(s) : s[i] # 0
    PROVE  Unpaged(s) = s
<1> DEFINE K == Kept(s)
<1>1. K[0] = <<>>
  BY KeptIs
<1>2. \A i \in 1 .. Len(s) : K[i] = IF s[i] = 0 THEN K[i - 1] ELSE Append(K[i - 1], s[i])
  BY KeptIs
<1> HIDE DEF K
<1>3. Len(s) \in Nat
  BY LenProperties
<1> DEFINE G == {i \in 0 .. Len(s) : K[i] = SubSeq(s, 1, i)}
<1>4. 0 \in G
  <2>1. SubSeq(s, 1, 0) = <<>>
    <3>1. 1 \in Int /\ 0 \in Int /\ 0 < 1
      OBVIOUS
    <3> QED BY <3>1, SubSeqEmpty, Zenon
  <2>2. 0 \in 0 .. Len(s) /\ K[0] = SubSeq(s, 1, 0)
    BY <1>1, <1>3, <2>1
  <2> QED BY <2>2, Zenon
<1>5. ASSUME NEW i \in 0 .. Len(s) - 1, i \in G
      PROVE  i + 1 \in G
  <2> DEFINE j == i + 1
  <2>1. j \in 1 .. Len(s) /\ 1 \in 1 .. Len(s) /\ j \in 1 .. Len(s) /\ j - 1 = i
    BY <1>3
  <2> HIDE DEF j
  <2>2. K[i] = SubSeq(s, 1, i) /\ s[j] \in Nat /\ SubSeq(s, 1, i) \in Seq(Nat)
    BY <1>3, <1>5, <2>1, ElementOfSeq, SubSeqProperties
  <2>3. SubSeq(s, 1, j) = SubSeq(s, 1, i) \o <<s[j]>>
    BY <2>1, SubSeqRecursiveSecond
  <2>4. K[j] = SubSeq(s, 1, j)
    BY <1>2, <2>1, <2>2, <2>3, AppendIsConcat
  <2> QED BY <1>3, <2>1, <2>4 DEF j
<1> HIDE DEF G
<1>6. \A i \in 0 .. Len(s) : i \in G
  BY <1>3, <1>4, <1>5, UpTo
<1>7. Len(s) \in G
  BY <1>3, <1>6
<1>8. K[Len(s)] = s
  BY <1>7, SubSeqFull DEF G
<1> QED BY <1>8, UnpagedIs DEF K

-------------------------------------------------------------------------------
(* The buffers of base/buffer.h.                                           *)

\* The parts of a buffer.
LEMMA BufferIs ==
    ASSUME NEW b, IsBuffer(b)
    PROVE  /\ b.data \in Seq(Nat) /\ b.begin \in Nat /\ Len(b.data) \in Nat
           /\ b.begin <= Len(b.data) /\ Len(b.data) <= Buf
           /\ b = [data |-> b.data, begin |-> b.begin]
  BY LenProperties DEF IsBuffer

\* A buffer of its parts.
LEMMA BufferOf ==
    ASSUME NEW d \in Seq(Nat), NEW i \in Nat, i <= Len(d), Len(d) <= Buf
    PROVE  IsBuffer([data |-> d, begin |-> i])
  BY DEF IsBuffer

\* What is to be sent, or to be parsed, is what follows begin.
LEMMA RestIs ==
    ASSUME NEW b, IsBuffer(b)
    PROVE  /\ Rest(b) \in Seq(Nat)
           /\ Len(Rest(b)) = Len(b.data) - b.begin
           /\ \A i \in 1 .. Len(b.data) - b.begin : Rest(b)[i] = b.data[b.begin + i]
<1>1. /\ b.data \in Seq(Nat) /\ b.begin \in Nat /\ Len(b.data) \in Nat
      /\ b.begin <= Len(b.data)
  BY BufferIs
<1>2. \A i \in b.begin + 1 .. Len(b.data) : b.data[i] \in Nat
  BY <1>1, ElementOfSeq
<1>3. b.begin + 1 \in Int /\ Len(b.data) \in Int
  BY <1>1
<1>4. /\ Rest(b) \in Seq(Nat)
      /\ Len(Rest(b)) = IF b.begin + 1 <= Len(b.data) THEN Len(b.data) - (b.begin + 1) + 1 ELSE 0
      /\ \A i \in 1 .. Len(b.data) - (b.begin + 1) + 1 :
            Rest(b)[i] = b.data[(b.begin + 1) + i - 1]
  BY <1>2, <1>3, SubSeqProperties DEF Rest
<1>5. Len(Rest(b)) = Len(b.data) - b.begin
  BY <1>1, <1>4
<1>6. \A i \in 1 .. Len(b.data) - b.begin : Rest(b)[i] = b.data[b.begin + i]
  <2> SUFFICES ASSUME NEW i \in 1 .. Len(b.data) - b.begin
               PROVE  Rest(b)[i] = b.data[b.begin + i]
    OBVIOUS
  <2>1. i \in 1 .. Len(b.data) - (b.begin + 1) + 1 /\ (b.begin + 1) + i - 1 = b.begin + i
    BY <1>1
  <2> QED BY <1>4, <2>1
<1> QED BY <1>4, <1>5, <1>6

\* With begin at data that is everything.
LEMMA RestBegin ==
    ASSUME NEW b, IsBuffer(b), b.begin = 0
    PROVE  Rest(b) = b.data
<1>1. b.data \in Seq(Nat) /\ 0 + 1 = 1
  BY BufferIs
<1> QED BY <1>1, SubSeqFull DEF Rest

\* sy_buffer_clear: nothing is left.
LEMMA EmptyIs == IsBuffer(Empty) /\ Rest(Empty) = <<>>
<1>1. <<>> \in Seq(Nat) /\ Len(<<>>) = 0
  BY EmptySeq
<1>2. 0 \in Nat /\ 0 <= Len(<<>>) /\ Len(<<>>) <= Buf
  BY <1>1, SizeAssumption
<1>3. IsBuffer([data |-> <<>>, begin |-> 0])
  BY <1>1, <1>2, BufferOf, Zenon
<1>4. IsBuffer(Empty) /\ Empty.begin = 0 /\ Empty.data = <<>>
  BY <1>3 DEF Empty
<1> QED BY <1>4, RestBegin, Zenon

\* The bytes with the numbers behind n.
NextBytes(n, k) == [i \in 1 .. k |-> n + i]

\* Min chooses one of the two, and the least.
LEMMA MinOfTwo ==
    ASSUME NEW m \in Nat, NEW n \in Nat
    PROVE  /\ Min({m, n}) \in {m, n} /\ Min({m, n}) <= m /\ Min({m, n}) <= n
  BY DEF Min

\* sy_buffer_recv takes no more than was written and no more than fits.
LEMMA TakenIs ==
    ASSUME NEW b, IsBuffer(b), NEW p \in PeerType, p.taken <= p.wrote
    PROVE  /\ Taken(b, p) \in Nat
           /\ p.taken + Taken(b, p) <= p.wrote
           /\ Len(b.data) + Taken(b, p) <= Buf
           /\ Took(b, p) \in PeerType
           /\ Took(b, p).taken = p.taken + Taken(b, p) /\ Took(b, p).wrote = p.wrote
           /\ Took(b, p).taken <= Took(b, p).wrote
<1>1. p.taken \in Nat /\ p.wrote \in Nat /\ p.wrote - p.taken \in Nat
  BY DEF PeerType
<1>2. Len(b.data) \in Nat /\ Buf \in Nat /\ Margin(b) \in Nat /\ Margin(b) = Buf - Len(b.data)
  BY SizeAssumption, BufferIs DEF Margin
<1>3. /\ Taken(b, p) \in Nat /\ Taken(b, p) <= p.wrote - p.taken /\ Taken(b, p) <= Margin(b)
  BY <1>1, <1>2, MinOfTwo DEF Taken
<1>4. Took(b, p) = [p EXCEPT !.taken = p.taken + Taken(b, p)]
  BY DEF Took
<1>5. /\ Took(b, p) \in PeerType
      /\ Took(b, p).taken = p.taken + Taken(b, p) /\ Took(b, p).wrote = p.wrote
  BY <1>1, <1>3, <1>4 DEF PeerType
<1> QED BY <1>1, <1>2, <1>3, <1>5

\* sy_buffer_recv puts the next bytes of the peer behind those it has.
LEMMA FilledIs ==
    ASSUME NEW b, IsBuffer(b), NEW p \in PeerType, p.taken <= p.wrote
    PROVE  /\ IsBuffer(Filled(b, p))
           /\ NextBytes(p.taken, Taken(b, p)) \in Seq(Nat)
           /\ Filled(b, p).data = b.data \o NextBytes(p.taken, Taken(b, p))
           /\ Filled(b, p).begin = b.begin
           /\ Len(Filled(b, p).data) = Len(b.data) + Taken(b, p)
<1> DEFINE t == Taken(b, p)
           q == NextBytes(p.taken, t)
<1>1. t \in Nat /\ Len(b.data) + t <= Buf /\ p.taken \in Nat
  BY TakenIs DEF PeerType
<1>2. b.data \in Seq(Nat) /\ b.begin \in Nat /\ Len(b.data) \in Nat /\ b.begin <= Len(b.data)
  BY BufferIs
<1>3. b \in [data : Seq(Nat), begin : Nat]
  BY DEF IsBuffer
<1>4. Filled(b, p) = [b EXCEPT !.data = b.data \o q]
  BY DEF Filled, NextBytes
<1> HIDE DEF t
<1>5. q \in Seq(Nat) /\ Len(q) = t
  BY <1>1 DEF NextBytes
<1> HIDE DEF q
<1>6. b.data \o q \in Seq(Nat) /\ Len(b.data \o q) = Len(b.data) + t
  BY <1>2, <1>5, ConcatProperties
<1>7. Filled(b, p) = [data |-> b.data \o q, begin |-> b.begin]
  BY <1>3, <1>4
<1>8. b.begin <= Len(b.data \o q) /\ Len(b.data \o q) <= Buf
  BY <1>1, <1>2, <1>6
<1>9. IsBuffer([data |-> b.data \o q, begin |-> b.begin])
  BY <1>2, <1>6, <1>8, BufferOf
<1>10. /\ IsBuffer(Filled(b, p)) /\ q \in Seq(Nat)
       /\ Filled(b, p).data = b.data \o q /\ Filled(b, p).begin = b.begin
       /\ Len(Filled(b, p).data) = Len(b.data) + t
  BY <1>5, <1>6, <1>7, <1>9
<1> QED BY <1>10, Zenon DEF t, q

\* What was to be sent is still there, with what came behind it.
LEMMA RestFilled ==
    ASSUME NEW b, IsBuffer(b), NEW p \in PeerType, p.taken <= p.wrote
    PROVE  Rest(Filled(b, p)) = Rest(b) \o NextBytes(p.taken, Taken(b, p))
<1> DEFINE f == Filled(b, p)
           q == NextBytes(p.taken, Taken(b, p))
           l == Rest(f)
           r == Rest(b) \o q
<1>1. /\ IsBuffer(f) /\ q \in Seq(Nat) /\ f.data = b.data \o q /\ f.begin = b.begin
  BY FilledIs
<1> HIDE DEF f, q
<1>2. /\ b.data \in Seq(Nat) /\ Len(b.data) \in Nat /\ b.begin \in Nat
      /\ b.begin <= Len(b.data) /\ Len(q) \in Nat
  BY <1>1, BufferIs, LenProperties
<1>3. Len(f.data) = Len(b.data) + Len(q)
  BY <1>1, <1>2, ConcatProperties
<1>4. /\ Rest(b) \in Seq(Nat) /\ Len(Rest(b)) = Len(b.data) - b.begin
      /\ \A i \in 1 .. Len(b.data) - b.begin : Rest(b)[i] = b.data[b.begin + i]
  BY RestIs
<1>5. /\ l \in Seq(Nat) /\ Len(l) = Len(f.data) - f.begin
      /\ \A i \in 1 .. Len(f.data) - f.begin : l[i] = f.data[f.begin + i]
  BY <1>1, RestIs, Zenon
<1>6. /\ r \in Seq(Nat) /\ Len(r) = Len(Rest(b)) + Len(q)
      /\ \A i \in 1 .. Len(Rest(b)) + Len(q) :
            r[i] = IF i <= Len(Rest(b)) THEN Rest(b)[i] ELSE q[i - Len(Rest(b))]
  BY <1>1, <1>4, ConcatProperties, Zenon
<1>7. \A i \in 1 .. Len(b.data) + Len(q) :
         f.data[i] = IF i <= Len(b.data) THEN b.data[i] ELSE q[i - Len(b.data)]
  BY <1>1, <1>2, ConcatProperties
<1> HIDE DEF l, r
<1>8. Len(l) = Len(r)
  BY <1>1, <1>2, <1>3, <1>4, <1>5, <1>6
<1>10. \A i \in 1 .. Len(l) : l[i] = r[i]
  <2> SUFFICES ASSUME NEW i \in 1 .. Len(l)
               PROVE  l[i] = r[i]
    OBVIOUS
  <2> DEFINE j == b.begin + i
  <2>1. /\ j \in 1 .. Len(b.data) + Len(q) /\ i \in 1 .. Len(Rest(b)) + Len(q)
        /\ i \in 1 .. Len(f.data) - f.begin
        /\ i <= Len(Rest(b)) <=> j <= Len(b.data)
        /\ i <= Len(Rest(b)) => i \in 1 .. Len(b.data) - b.begin
        /\ i - Len(Rest(b)) = j - Len(b.data)
    <3>1. f.begin = b.begin /\ Len(f.data) = Len(b.data) + Len(q) /\ Len(l) = Len(f.data) - f.begin
      BY <1>1, <1>3, <1>5, Zenon
    <3>2. Len(Rest(b)) = Len(b.data) - b.begin
      BY <1>4, Zenon
    <3>3. Len(b.data) \in Nat /\ b.begin \in Nat /\ b.begin <= Len(b.data) /\ Len(q) \in Nat
      BY <1>2, Zenon
    <3>4. /\ i \in 1 .. Len(f.data) - f.begin
          /\ i \in 1 .. Len(Rest(b)) + Len(q)
      BY <3>1, <3>2, <3>3
    <3>5. j \in 1 .. Len(b.data) + Len(q)
      BY <3>1, <3>3, <3>4
    <3>6. /\ i <= Len(Rest(b)) <=> j <= Len(b.data)
          /\ i - Len(Rest(b)) = j - Len(b.data)
      BY <3>2, <3>3, <3>4
    <3>7. i <= Len(Rest(b)) => i \in 1 .. Len(b.data) - b.begin
      BY <3>2, <3>3, <3>4
    <3> QED BY <3>4, <3>5, <3>6, <3>7, Zenon
  <2>2. l[i] = f.data[j]
    BY <1>1, <1>5, <2>1
  <2> HIDE DEF j
  <2>3. r[i] = IF i <= Len(Rest(b)) THEN Rest(b)[i] ELSE q[i - Len(Rest(b))]
    BY <1>6, <2>1, Zenon
  <2>4. f.data[j] = IF j <= Len(b.data) THEN b.data[j] ELSE q[j - Len(b.data)]
    BY <1>7, <2>1, Zenon
  <2>5. i <= Len(Rest(b)) => Rest(b)[i] = b.data[j]
    BY <1>4, <2>1, Zenon DEF j
  <2> QED BY <2>1, <2>2, <2>3, <2>4, <2>5, Zenon
<1>9. l = r
  BY <1>5, <1>6, <1>8, <1>10, SeqEqual, Zenon
<1> QED BY <1>9 DEF l, r, f, q

\* sy_buffer_send: what was to be sent is what was sent and what is left.
LEMMA SentIs ==
    ASSUME NEW b, IsBuffer(b), NEW n \in 0 .. Len(Rest(b))
    PROVE  /\ IsBuffer(Sent(b, n))
           /\ SubSeq(Rest(b), 1, n) \in Seq(Nat)
           /\ Rest(b) = SubSeq(Rest(b), 1, n) \o Rest(Sent(b, n))
<1>1. /\ b.data \in Seq(Nat) /\ b.begin \in Nat /\ Len(b.data) \in Nat
      /\ b.begin <= Len(b.data) /\ Len(b.data) <= Buf /\ b \in [data : Seq(Nat), begin : Nat]
  BY BufferIs DEF IsBuffer
<1>2. Rest(b) \in Seq(Nat) /\ Len(Rest(b)) = Len(b.data) - b.begin
  BY RestIs
<1> DEFINE m == b.begin + n
<1>3. m \in b.begin .. Len(b.data) /\ n \in Nat /\ m \in Nat
  BY <1>1, <1>2
<1>4. SubSeq(Rest(b), 1, n) = SubSeq(b.data, b.begin + 1, m)
  <2>1. CASE n = 0
    <3>1. 1 \in Int /\ 0 \in Int /\ 0 < 1 /\ b.begin + 1 \in Int /\ m \in Int /\ m < b.begin + 1
      BY <1>1, <2>1
    <3>2. SubSeq(Rest(b), 1, 0) = <<>> /\ SubSeq(b.data, b.begin + 1, m) = <<>>
      BY <3>1, SubSeqEmpty, Zenon
    <3> QED BY <2>1, <3>2
  <2>2. CASE n # 0
    <3> DEFINE i == b.begin + 1
               j == Len(b.data)
    <3>0. n \in 1 .. Len(b.data) - b.begin
      BY <1>2, <2>2
    <3>1. /\ i \in 1 .. Len(b.data) /\ j \in 1 .. Len(b.data)
          /\ 1 \in 1 .. j - i + 1 /\ n \in 1 .. j - i + 1
          /\ i + 1 - 1 = b.begin + 1 /\ i + n - 1 = m
      BY <1>1, <3>0
    <3> HIDE DEF i, j
    <3>2. SubSeq(SubSeq(b.data, i, j), 1, n) = SubSeq(b.data, i + 1 - 1, i + n - 1)
      BY <1>1, <3>1, SubSeqOfSubSeq
    <3> QED BY <3>1, <3>2 DEF Rest, i, j
  <2> QED BY <2>1, <2>2
<1>5. SubSeq(b.data, b.begin + 1, m) \o SubSeq(b.data, m + 1, Len(b.data)) = Rest(b)
  <2> DEFINE i == b.begin + 1
             j == Len(b.data)
  <2>1. i \in 1 .. j + 1 /\ m \in i - 1 .. j /\ j \in m .. j
    BY <1>1, <1>3
  <2> HIDE DEF i
  <2>2. SubSeq(b.data, i, m) \o SubSeq(b.data, m + 1, j) = SubSeq(b.data, i, j)
    BY <1>1, <2>1, ConcatAdjacentSubSeq
  <2> QED BY <2>2 DEF Rest, i
<1>6. /\ IsBuffer(Sent(b, n)) /\ Rest(Sent(b, n)) = SubSeq(b.data, m + 1, Len(b.data))
  <2>1. CASE n = Len(Rest(b))
    <3>1. m = Len(b.data) /\ m + 1 \in Int /\ Len(b.data) \in Int /\ Len(b.data) < m + 1
      BY <1>1, <1>2, <2>1
    <3>2. SubSeq(b.data, m + 1, Len(b.data)) = <<>>
      BY <3>1, SubSeqEmpty, Zenon
    <3> QED BY <2>1, <3>2, EmptyIs DEF Sent
  <2>2. CASE n # Len(Rest(b))
    <3>1. Sent(b, n) = [b EXCEPT !.begin = m]
      BY <2>2 DEF Sent
    <3> HIDE DEF m
    <3>2. Sent(b, n) = [data |-> b.data, begin |-> m]
      BY <1>1, <3>1
    <3>3. IsBuffer(Sent(b, n))
      BY <1>1, <1>3, <3>2, BufferOf
    <3>4. Rest(Sent(b, n)) = SubSeq(Sent(b, n).data, Sent(b, n).begin + 1, Len(Sent(b, n).data))
      BY DEF Rest
    <3>5. Sent(b, n).data = b.data /\ Sent(b, n).begin = m
      BY <3>2
    <3> QED BY <3>3, <3>4, <3>5, Zenon
  <2> QED BY <2>1, <2>2
<1>7. SubSeq(Rest(b), 1, n) \in Seq(Nat)
  <2>1. \A i \in 1 .. n : Rest(b)[i] \in Nat
    BY <1>2, ElementOfSeq
  <2> QED BY <1>3, <2>1, SubSeqProperties
<1> QED BY <1>4, <1>5, <1>6, <1>7

\* A page goes behind what is to be sent.
LEMMA PagedIs ==
    ASSUME NEW b, IsBuffer(b), Margin(b) > 0
    PROVE  /\ IsBuffer(Paged(b))
           /\ Rest(Paged(b)) = Append(Rest(b), 0)
<1>1. /\ b.data \in Seq(Nat) /\ b.begin \in Nat /\ Len(b.data) \in Nat /\ Buf \in Nat
      /\ b.begin <= Len(b.data) /\ Len(b.data) <= Buf /\ b \in [data : Seq(Nat), begin : Nat]
  BY BufferIs, SizeAssumption DEF IsBuffer
<1>2. Len(b.data) + 1 <= Buf
  BY <1>1 DEF Margin
<1> DEFINE d == Append(b.data, 0)
<1>3. d \in Seq(Nat) /\ Len(d) = Len(b.data) + 1
      /\ (\A i \in 1 .. Len(b.data) : d[i] = b.data[i]) /\ d[Len(b.data) + 1] = 0
  BY <1>1, AppendProperties
<1>4. Paged(b) = [b EXCEPT !.data = d]
  BY DEF Paged
<1> HIDE DEF d
<1>5. Paged(b) = [data |-> d, begin |-> b.begin]
  BY <1>1, <1>4
<1>6. IsBuffer(Paged(b))
  BY <1>1, <1>2, <1>3, <1>5, BufferOf
<1> DEFINE l == Rest(Paged(b))
           r == Append(Rest(b), 0)
<1> DEFINE f == Paged(b)
<1>13. f.data = d /\ f.begin = b.begin
  BY <1>5
<1>14. /\ l \in Seq(Nat) /\ Len(l) = Len(f.data) - f.begin
      /\ \A i \in 1 .. Len(f.data) - f.begin : l[i] = f.data[f.begin + i]
  BY <1>6, RestIs, Zenon
<1> HIDE DEF l, f
<1>7. /\ l \in Seq(Nat) /\ Len(l) = Len(b.data) + 1 - b.begin
      /\ \A i \in 1 .. Len(b.data) + 1 - b.begin : l[i] = d[b.begin + i]
  <2>1. Len(f.data) = Len(b.data) + 1
    BY <1>3, <1>13, Zenon
  <2>2. Len(f.data) - f.begin = Len(b.data) + 1 - b.begin
    <3>1. f.begin = b.begin /\ b.begin \in Nat /\ Len(b.data) \in Nat
      BY <1>1, <1>13, Zenon
    <3> QED BY <2>1, <3>1
  <2> DEFINE top == Len(b.data) + 1 - b.begin
  <2>3. Len(l) = top /\ \A i \in 1 .. top : l[i] = f.data[f.begin + i]
    BY <1>14, <2>2, Zenon
  <2> HIDE DEF top
  <2>4. \A i \in 1 .. top : l[i] = d[b.begin + i]
    BY <1>13, <2>3, Zenon
  <2> QED BY <1>14, <2>3, <2>4, Zenon DEF top
<1>8. /\ Rest(b) \in Seq(Nat) /\ Len(Rest(b)) = Len(b.data) - b.begin
      /\ \A i \in 1 .. Len(b.data) - b.begin : Rest(b)[i] = b.data[b.begin + i]
  BY RestIs
<1>9. /\ r \in Seq(Nat) /\ Len(r) = Len(Rest(b)) + 1
      /\ (\A i \in 1 .. Len(Rest(b)) : r[i] = Rest(b)[i]) /\ r[Len(Rest(b)) + 1] = 0
  BY <1>8, AppendProperties
<1> HIDE DEF l, r
<1>10. \A i \in 1 .. Len(l) : l[i] = r[i]
  <2> SUFFICES ASSUME NEW i \in 1 .. Len(l)
               PROVE  l[i] = r[i]
    OBVIOUS
  <2>3. Len(Rest(b)) = Len(b.data) - b.begin /\ Len(l) = Len(b.data) + 1 - b.begin
    BY <1>7, <1>8
  <2>4. i \in 1 .. Len(b.data) + 1 - b.begin
    BY <2>3
  <2>5. l[i] = d[b.begin + i]
    BY <1>7, <2>4, Zenon
  <2>1. CASE i <= Len(Rest(b))
    <3>1. /\ b.begin + i \in 1 .. Len(b.data) /\ i \in 1 .. Len(b.data) - b.begin
          /\ i \in 1 .. Len(Rest(b))
      BY <1>1, <2>1, <2>3, <2>4
    <3> QED BY <1>3, <1>8, <1>9, <2>5, <3>1, Zenon
  <2>2. CASE ~(i <= Len(Rest(b)))
    <3>0. Len(b.data) \in Nat /\ b.begin \in Nat /\ b.begin <= Len(b.data)
      BY <1>1, Zenon
    <3>1. i = Len(Rest(b)) + 1
      BY <3>0, <2>2, <2>3, <2>4
    <3>2. b.begin + i = Len(b.data) + 1
      BY <3>0, <3>1, <2>3
    <3> QED BY <1>3, <1>9, <2>5, <3>1, <3>2, Zenon
  <2> QED BY <2>1, <2>2
<1>11. Len(l) = Len(r)
  BY <1>1, <1>7, <1>8, <1>9
<1>12. l = r
  BY <1>7, <1>9, <1>10, <1>11, SeqEqual
<1> QED BY <1>6, <1>12 DEF l, r

\* The bytes of a stream, as a sequence.
LEMMA BytesIs ==
    ASSUME NEW n \in Nat
    PROVE  Bytes(n) \in Seq(Nat) /\ Len(Bytes(n)) = n /\ \A i \in 1 .. n : Bytes(n)[i] = i
  BY DEF Bytes

\* The next k bytes follow the first n.
LEMMA BytesNext ==
    ASSUME NEW n \in Nat, NEW k \in Nat
    PROVE  Bytes(n) \o NextBytes(n, k) = Bytes(n + k)
<1> DEFINE q == NextBytes(n, k)
           l == Bytes(n) \o q
           r == Bytes(n + k)
<1>1. q \in Seq(Nat) /\ Len(q) = k /\ \A i \in 1 .. k : q[i] = n + i
  BY DEF NextBytes
<1>2. /\ Bytes(n) \in Seq(Nat) /\ Len(Bytes(n)) = n /\ (\A i \in 1 .. n : Bytes(n)[i] = i)
      /\ r \in Seq(Nat) /\ Len(r) = n + k /\ (\A i \in 1 .. n + k : r[i] = i)
  BY BytesIs
<1> HIDE DEF q
<1>6. /\ l \in Seq(Nat) /\ Len(l) = Len(Bytes(n)) + Len(q)
      /\ \A i \in 1 .. Len(Bytes(n)) + Len(q) :
            l[i] = IF i <= Len(Bytes(n)) THEN Bytes(n)[i] ELSE q[i - Len(Bytes(n))]
  BY <1>1, <1>2, ConcatProperties, Zenon
<1> HIDE DEF l
<1>3. /\ l \in Seq(Nat) /\ Len(l) = n + k
      /\ \A i \in 1 .. n + k : l[i] = IF i <= n THEN Bytes(n)[i] ELSE q[i - n]
  BY <1>1, <1>2, <1>6
<1> HIDE DEF l, r
<1>4. \A i \in 1 .. Len(l) : l[i] = r[i]
  BY <1>1, <1>2, <1>3
<1>5. l = r
  BY <1>2, <1>3, <1>4, SeqEqual
<1> QED BY <1>5 DEF l, r, q

\* A beginning of the numbered bytes is numbered itself.
LEMMA BytesPrefix ==
    ASSUME NEW s \in Seq(Nat), NEW t \in Seq(Nat), NEW n \in Nat, s \o t = Bytes(n)
    PROVE  \A i \in 1 .. Len(s) : s[i] = i
<1>1. Len(s) \in Nat /\ Len(t) \in Nat
  BY LenProperties
<1>2. Len(s \o t) = Len(s) + Len(t) /\ \A i \in 1 .. Len(s) + Len(t) :
         (s \o t)[i] = IF i <= Len(s) THEN s[i] ELSE t[i - Len(s)]
  BY ConcatProperties, Zenon
<1> DEFINE b == Bytes(n)
<1>3. Len(b) = n /\ \A i \in 1 .. n : b[i] = i
  BY BytesIs
<1>4. s \o t = b
  OBVIOUS
<1> HIDE DEF b
<1>5. Len(s) + Len(t) = n /\ \A i \in 1 .. n : b[i] = IF i <= Len(s) THEN s[i] ELSE t[i - Len(s)]
  BY <1>2, <1>3, <1>4
<1> QED BY <1>1, <1>3, <1>5

-------------------------------------------------------------------------------
(* The events of one epoll_wait.                                           *)

\* What handling, or skipping, the first half of the batch leaves.
LEMMA TailOfBatch ==
    ASSUME TypeInv, BatchInv, batch # <<>>, batch' = Tail(batch)
    PROVE  /\ batch' \in Seq(Half) /\ ~over
           /\ \A c \in Conn, bit \in {"in", "out"} : Pending(c, bit)' => Pending(c, bit)
           /\ Distinct'
           /\ \A c \in Conn, bit \in {"in", "out"} : Head(batch) = <<c, bit>> =>
                 /\ Pending(c, bit) /\ ~Pending(c, bit)'
                 /\ c = "front" /\ bit = "out" => \A i \in 1 .. Len(batch') : batch'[i][1] = "back"
<1>1. batch \in Seq(Half) /\ Len(batch) \in Nat \ {0} /\ Head(batch) = batch[1]
  BY EmptySeq DEF TypeInv
<1>2. /\ batch' \in Seq(Half) /\ Len(batch') = Len(batch) - 1
      /\ \A i \in 1 .. Len(batch') : batch'[i] = batch[i + 1]
  BY <1>1, HeadTailProperties
<1>3. \A i \in 1 .. Len(batch') : i + 1 \in 1 .. Len(batch) /\ 1 < i + 1
  BY <1>1, <1>2
<1>4. 1 \in 1 .. Len(batch)
  BY <1>1
<1>5. ~over /\ Distinct
  BY DEF BatchInv
<1>6. \A c \in Conn, bit \in {"in", "out"} : Pending(c, bit)' => Pending(c, bit)
  BY <1>2, <1>3, Zenon DEF Pending
<1>7. Distinct'
  <2> SUFFICES ASSUME NEW i \in 1 .. Len(batch'), NEW j \in 1 .. Len(batch'), i < j
               PROVE  /\ batch'[i] # batch'[j]
                      /\ batch'[i] = <<"front", "out">> => batch'[j][1] = "back"
    BY Zenon DEF Distinct
  <2>1. i + 1 < j + 1
    BY <1>1, <1>2
  <2>2. i + 1 \in 1 .. Len(batch) /\ j + 1 \in 1 .. Len(batch)
    BY <1>3
  <2>3. /\ batch[i + 1] # batch[j + 1]
        /\ batch[i + 1] = <<"front", "out">> => batch[j + 1][1] = "back"
    BY <1>5, <2>1, <2>2, Zenon DEF Distinct
  <2>4. batch'[i] = batch[i + 1] /\ batch'[j] = batch[j + 1]
    BY <1>2
  <2> QED BY <2>3, <2>4, Zenon
<1>8. ASSUME NEW c \in Conn, NEW bit \in {"in", "out"}, Head(batch) = <<c, bit>>
      PROVE  /\ Pending(c, bit) /\ ~Pending(c, bit)'
             /\ c = "front" /\ bit = "out" => \A i \in 1 .. Len(batch') : batch'[i][1] = "back"
  <2>1. batch[1] = <<c, bit>>
    BY <1>1, <1>8
  <2>2. ASSUME NEW i \in 1 .. Len(batch')
        PROVE  batch'[i] # <<c, bit>> /\ (<<c, bit>> = <<"front", "out">> => batch'[i][1] = "back")
    <3>1. i + 1 \in 1 .. Len(batch) /\ 1 < i + 1
      BY <1>3
    <3>2. /\ batch[1] # batch[i + 1]
          /\ batch[1] = <<"front", "out">> => batch[i + 1][1] = "back"
      BY <1>4, <1>5, <3>1, Zenon DEF Distinct
    <3>3. batch'[i] = batch[i + 1]
      BY <1>2
    <3> QED BY <2>1, <3>2, <3>3, Zenon
  <2>3. Pending(c, bit)
    BY <1>4, <2>1, Zenon DEF Pending
  <2>4. ~Pending(c, bit)'
    BY <2>2, Zenon DEF Pending
  <2> QED BY <2>2, <2>3, <2>4, Zenon
<1> QED BY <1>2, <1>5, <1>6, <1>7, <1>8

\* The sequences that two events are made of.
LEMMA Joined ==
    ASSUME NEW A, NEW e \in A, NEW o \in A
    PROVE  /\ <<e>> \o <<o>> = <<e, o>> /\ <<e>> \o <<>> = <<e>>
           /\ <<>> \o <<o>> = <<o>> /\ <<>> \o <<>> = <<>>
           /\ <<e, o>> \in Seq(A) /\ <<e>> \in Seq(A) /\ <<o>> \in Seq(A) /\ <<>> \in Seq(A)
           /\ Len(<<e, o>>) = 2 /\ Len(<<e>>) = 1 /\ Len(<<o>>) = 1 /\ Len(<<>>) = 0
           /\ <<e, o>>[1] = e /\ <<e, o>>[2] = o /\ <<e>>[1] = e /\ <<o>>[1] = o
<1>1. /\ <<e, o>> \in Seq(A) /\ <<e>> \in Seq(A) /\ <<o>> \in Seq(A) /\ <<>> \in Seq(A)
      /\ Len(<<e, o>>) = 2 /\ Len(<<e>>) = 1 /\ Len(<<o>>) = 1 /\ Len(<<>>) = 0
      /\ <<e, o>>[1] = e /\ <<e, o>>[2] = o /\ <<e>>[1] = e /\ <<o>>[1] = o
  OBVIOUS
<1>2. /\ <<e>> \o <<>> = <<e>> /\ <<>> \o <<o>> = <<o>> /\ <<>> \o <<>> = <<>>
  BY <1>1, ConcatEmptySeq, Zenon
<1>3. <<e>> \o <<o>> = <<e, o>>
  <2>1. Append(<<e>>, o) = <<e>> \o <<o>>
    BY <1>1, AppendIsConcat
  <2> DEFINE l == Append(<<e>>, o)
             r == <<e, o>>
  <2>2. l \in Seq(A) /\ Len(l) = 2 /\ l[1] = e /\ l[2] = o
    <3>1. Len(<<e>>) \in Nat /\ 1 \in 1 .. Len(<<e>>) /\ Len(<<e>>) + 1 = 2
      BY <1>1
    <3> QED BY <1>1, <3>1, AppendProperties
  <2>3. r \in Seq(A) /\ Len(r) = 2 /\ r[1] = e /\ r[2] = o
    BY <1>1
  <2> HIDE DEF l, r
  <2>4. \A i \in 1 .. Len(l) : l[i] = r[i]
    <3>1. \A i \in 1 .. 2 : i = 1 \/ i = 2
      OBVIOUS
    <3> QED BY <2>2, <2>3, <3>1, Zenon
  <2>5. l = r
    BY <2>2, <2>3, <2>4, SeqEqual, Zenon
  <2> QED BY <2>1, <2>5, Zenon DEF l, r
<1> QED BY <1>1, <1>2, <1>3

\* The halves of one event.
IsHalves(h, c, x, y) ==
    /\ h \in Seq(Half)
    /\ \A i \in 1 .. Len(h) : (h[i] = <<c, "in">> /\ x) \/ (h[i] = <<c, "out">> /\ y)
    /\ \A i, j \in 1 .. Len(h) : i < j => h[i] = <<c, "in">> /\ h[j] = <<c, "out">>

\* The input of a connection comes before its output.
LEMMA HalvesAre ==
    ASSUME NEW c \in Conn, NEW x \in BOOLEAN, NEW y \in BOOLEAN
    PROVE  IsHalves(Halves(c, x, y), c, x, y)
<1> DEFINE e == <<c, "in">>
           o == <<c, "out">>
           h == Halves(c, x, y)
<1>1. e \in Half /\ o \in Half
  BY DEF Half
<1>2. h = (IF x THEN <<e>> ELSE <<>>) \o (IF y THEN <<o>> ELSE <<>>)
  BY DEF Halves
<1> SUFFICES IsHalves(h, c, x, y)
  OBVIOUS
<1> HIDE DEF e, o, h
<1>6. /\ <<e>> \o <<o>> = <<e, o>> /\ <<e>> \o <<>> = <<e>>
      /\ <<>> \o <<o>> = <<o>> /\ <<>> \o <<>> = <<>>
      /\ <<e, o>> \in Seq(Half) /\ <<e>> \in Seq(Half) /\ <<o>> \in Seq(Half)
      /\ <<>> \in Seq(Half)
      /\ Len(<<e, o>>) = 2 /\ Len(<<e>>) = 1 /\ Len(<<o>>) = 1 /\ Len(<<>>) = 0
      /\ <<e, o>>[1] = e /\ <<e, o>>[2] = o /\ <<e>>[1] = e /\ <<o>>[1] = o
  BY <1>1, Joined
<1>3. CASE x /\ y
  <2>0. h = <<e, o>>
    BY <1>2, <1>3, <1>6, Zenon
  <2>1. h \in Seq(Half) /\ Len(h) = 2 /\ h[1] = e /\ h[2] = o
    BY <1>6, <2>0, Zenon
  <2>2. \A i \in 1 .. 2 : i = 1 \/ i = 2
    OBVIOUS
  <2>3. \A i, j \in 1 .. 2 : i < j => i = 1 /\ j = 2
    OBVIOUS
  <2> QED BY <1>3, <2>1, <2>2, <2>3, Zenon DEF e, o, IsHalves
<1>4. CASE (x /\ ~y) \/ (~x /\ y)
  <2> DEFINE z == IF x THEN e ELSE o
  <2>0. h = <<z>> /\ z \in {e, o}
    <3>1. CASE x /\ ~y
      <4>1. h = <<e>> \o <<>>
        BY <1>2, <3>1, Zenon
      <4> QED BY <1>6, <3>1, <4>1, Zenon
    <3>2. CASE ~x /\ y
      <4>1. h = <<>> \o <<o>>
        BY <1>2, <3>2, Zenon
      <4> QED BY <1>6, <3>2, <4>1, Zenon
    <3> QED BY <1>4, <3>1, <3>2
  <2>1. h \in Seq(Half) /\ Len(h) = 1 /\ h[1] = z
    BY <1>6, <2>0, Zenon
  <2>2. \A i \in 1 .. 1 : i = 1
    OBVIOUS
  <2>3. \A i, j \in 1 .. 1 : ~(i < j)
    OBVIOUS
  <2>4. (z = e /\ x) \/ (z = o /\ y)
    BY <1>4, Zenon
  <2> HIDE DEF z
  <2>5. \A i \in 1 .. Len(h) : (h[i] = e /\ x) \/ (h[i] = o /\ y)
    BY <2>1, <2>2, <2>4, Zenon
  <2>6. \A i, j \in 1 .. Len(h) : i < j => h[i] = e /\ h[j] = o
    BY <2>1, <2>3, Zenon
  <2>7. h \in Seq(Half)
    BY <2>1
  <2> QED BY <2>5, <2>6, <2>7 DEF e, o, IsHalves
<1>5. CASE ~x /\ ~y
  <2>0. h = <<>>
    BY <1>2, <1>5, <1>6, Zenon
  <2>1. h \in Seq(Half) /\ Len(h) = 0
    BY <1>6, <2>0, Zenon
  <2>2. \A i \in 1 .. 0 : FALSE
    OBVIOUS
  <2> QED BY <2>1, <2>2, Zenon DEF IsHalves
<1> QED BY <1>3, <1>4, <1>5

\* Two events, one of each connection, one behind the other.
LEMMA EventsAre ==
    ASSUME NEW f, NEW g, NEW c \in Conn, NEW d \in Conn, c # d,
           NEW x \in BOOLEAN, NEW y \in BOOLEAN, NEW v \in BOOLEAN, NEW w \in BOOLEAN,
           f = Halves(c, x, y), g = Halves(d, v, w), batch' = f \o g
    PROVE  /\ batch' \in Seq(Half) /\ Distinct'
           /\ (Pending(c, "in")' => x) /\ (Pending(c, "out")' => y)
           /\ (Pending(d, "in")' => v) /\ (Pending(d, "out")' => w)
<1>1. /\ f \in Seq(Half)
      /\ \A i \in 1 .. Len(f) : (f[i] = <<c, "in">> /\ x) \/ (f[i] = <<c, "out">> /\ y)
      /\ \A i, j \in 1 .. Len(f) : i < j => f[i] = <<c, "in">> /\ f[j] = <<c, "out">>
  <2>1. IsHalves(f, c, x, y)
    BY HalvesAre
  <2> QED BY <2>1, Zenon DEF IsHalves
<1>2. /\ g \in Seq(Half)
      /\ \A i \in 1 .. Len(g) : (g[i] = <<d, "in">> /\ v) \/ (g[i] = <<d, "out">> /\ w)
      /\ \A i, j \in 1 .. Len(g) : i < j => g[i] = <<d, "in">> /\ g[j] = <<d, "out">>
  <2>1. IsHalves(g, d, v, w)
    BY HalvesAre
  <2> QED BY <2>1, Zenon DEF IsHalves
<1>3. Len(f) \in Nat /\ Len(g) \in Nat
  BY <1>1, <1>2, LenProperties
<1>4. /\ batch' \in Seq(Half) /\ Len(batch') = Len(f) + Len(g)
      /\ \A i \in 1 .. Len(f) + Len(g) :
            batch'[i] = IF i <= Len(f) THEN f[i] ELSE g[i - Len(f)]
  BY <1>1, <1>2, ConcatProperties
<1>5. \A i \in 1 .. Len(batch') :
         IF i <= Len(f) THEN i \in 1 .. Len(f) /\ batch'[i] = f[i]
                        ELSE i - Len(f) \in 1 .. Len(g) /\ batch'[i] = g[i - Len(f)]
  BY <1>3, <1>4
<1>6. ASSUME NEW i \in 1 .. Len(batch')
      PROVE  IF i <= Len(f) THEN (batch'[i] = <<c, "in">> /\ x) \/ (batch'[i] = <<c, "out">> /\ y)
                            ELSE (batch'[i] = <<d, "in">> /\ v) \/ (batch'[i] = <<d, "out">> /\ w)
  <2>1. CASE i <= Len(f)
    <3>1. i \in 1 .. Len(f) /\ batch'[i] = f[i]
      BY <1>5, <2>1
    <3>2. (f[i] = <<c, "in">> /\ x) \/ (f[i] = <<c, "out">> /\ y)
      BY <1>1, <3>1, Zenon
    <3> QED BY <2>1, <3>1, <3>2, Zenon
  <2>2. CASE ~(i <= Len(f))
    <3>1. i - Len(f) \in 1 .. Len(g) /\ batch'[i] = g[i - Len(f)]
      BY <1>5, <2>2
    <3>2. (g[i - Len(f)] = <<d, "in">> /\ v) \/ (g[i - Len(f)] = <<d, "out">> /\ w)
      BY <1>2, <3>1, Zenon
    <3> QED BY <2>2, <3>1, <3>2, Zenon
  <2> QED BY <2>1, <2>2
<1>7. Distinct'
  <2> SUFFICES ASSUME NEW i \in 1 .. Len(batch'), NEW j \in 1 .. Len(batch'), i < j
               PROVE  /\ batch'[i] # batch'[j]
                      /\ batch'[i] = <<"front", "out">> => batch'[j][1] = "back"
    BY Zenon DEF Distinct
  <2>1. CASE j <= Len(f)
    <3>1. i <= Len(f)
      <4>1. i \in Int /\ j \in Int /\ Len(f) \in Int
        BY <1>3
      <4> QED BY <2>1, <4>1
    <3>3. /\ i \in 1 .. Len(f) /\ batch'[i] = f[i]
          /\ j \in 1 .. Len(f) /\ batch'[j] = f[j]
      BY <1>5, <2>1, <3>1
    <3>2. batch'[i] = <<c, "in">> /\ batch'[j] = <<c, "out">>
      BY <1>1, <3>3, Zenon
    <3> QED BY <3>2
  <2>2. CASE ~(i <= Len(f))
    <3>1. ~(j <= Len(f)) /\ i - Len(f) < j - Len(f)
      BY <1>3, <1>4, <2>2
    <3>3. /\ i - Len(f) \in 1 .. Len(g) /\ batch'[i] = g[i - Len(f)]
          /\ j - Len(f) \in 1 .. Len(g) /\ batch'[j] = g[j - Len(f)]
      BY <1>5, <2>2, <3>1
    <3>2. batch'[i] = <<d, "in">> /\ batch'[j] = <<d, "out">>
      BY <1>2, <3>1, <3>3, Zenon
    <3> QED BY <3>2
  <2>3. CASE i <= Len(f) /\ ~(j <= Len(f))
    <3>1. batch'[i] \in {<<c, "in">>, <<c, "out">>} /\ batch'[j] \in {<<d, "in">>, <<d, "out">>}
      BY <1>6, <2>3
    <3> QED BY <3>1 DEF Conn
  <2> QED BY <2>1, <2>2, <2>3
<1>8. /\ (Pending(c, "in")' => x) /\ (Pending(c, "out")' => y)
      /\ (Pending(d, "in")' => v) /\ (Pending(d, "out")' => w)
  <2>1. <<c, "in">> # <<d, "in">> /\ <<c, "in">> # <<d, "out">>
    OBVIOUS
  <2>2. <<c, "out">> # <<d, "out">> /\ <<c, "out">> # <<d, "in">>
    OBVIOUS
  <2>3. <<c, "out">> # <<c, "in">> /\ <<d, "out">> # <<d, "in">>
    OBVIOUS
  <2> QED BY <1>6, <2>1, <2>2, <2>3 DEF Pending
<1> QED BY <1>4, <1>7, <1>8

\* What epoll_wait returns: the halves a connection is registered for.
LEMMA WaitIs ==
    ASSUME NEW w, Wait(w), TypeInv
    PROVE  /\ batch' \in Seq(Half) /\ Distinct'
           /\ (Pending("front", "in")' => "in" \in on)
           /\ (Pending("back", "in")' => uc) /\ (Pending("back", "out")' => uc /\ pon)
<1> DEFINE x == "in" \in on /\ Readable(client)
           y == "out" \in on /\ "front" \in w
           u == uc /\ Readable(upstream)
           v == uc /\ pon /\ "back" \in w
           f == Halves("front", x, y)
           b == Halves("back", u, v)
<1>1. batch' = f \o b \/ batch' = b \o f
  BY DEF Wait
<1>2. "front" \in Conn /\ "back" \in Conn
  BY DEF Conn
<1>3. x \in BOOLEAN /\ y \in BOOLEAN /\ u \in BOOLEAN /\ v \in BOOLEAN
  OBVIOUS
<1>4. (x => "in" \in on) /\ (u => uc) /\ (v => uc /\ pon)
  OBVIOUS
<1> HIDE DEF x, y, u, v
<1>5. CASE batch' = f \o b
  <2>1. /\ batch' \in Seq(Half) /\ Distinct'
        /\ (Pending("front", "in")' => x)
        /\ (Pending("back", "in")' => u) /\ (Pending("back", "out")' => v)
    BY <1>2, <1>3, <1>5, EventsAre
  <2> QED BY <1>4, <2>1
<1>6. CASE batch' = b \o f
  <2>1. /\ batch' \in Seq(Half) /\ Distinct'
        /\ (Pending("front", "in")' => x)
        /\ (Pending("back", "in")' => u) /\ (Pending("back", "out")' => v)
    BY <1>2, <1>3, <1>6, EventsAre
  <2> QED BY <1>4, <2>1
<1> QED BY <1>1, <1>5, <1>6

-------------------------------------------------------------------------------
(* sy_handle_request: its outcomes.                                        *)

Measured == msg.found /\ msg.length > 0

\* The outcomes of sy_handle_request, b being what is in the buffer then: the client is
\* gone; the process stops; a page is written; more headers are needed; the bytes are passed
\* on; nothing is there to do.
Closing(b) == /\ rb' = b /\ UNCHANGED <<requestVars, sb, phase>>
              /\ expired' = expired \cup {"front"} \cup IF uc' THEN {"back"} ELSE {}
Stopping(b) == /\ phase' = "aborted" /\ (uc => stage = "done")
               /\ UNCHANGED <<stage, counted, on, pon, uc, sb, expired>>
               /\ rb' = rb \/ rb' = b
Paging(b) == /\ ~uc /\ uc' = uc
             /\ (stage = "line" /\ stage' = "headers") \/ stage' = "done"
             /\ Margin(sb) > 0 /\ sb' = Paged(sb)
             /\ rb' \in {Empty, [b EXCEPT !.begin = 1]} /\ (rb' # Empty => b.data # <<>>)
             /\ on' = {"out"} /\ expired' = expired \ {"front"} /\ UNCHANGED <<counted, pon, phase>>
Asking(b) == /\ stage \in {"line", "headers"} /\ stage' = "headers"
             /\ rb' = AtEnd(b)
             /\ uc' = (stage = "line" \/ uc)
             /\ Activate("front") /\ UNCHANGED <<counted, on, pon, sb>>
Relaying(b) == /\ uc' /\ (uc \/ stage = "line") /\ stage # "done"
               /\ stage # "body" => Len(b.data) >= msg.head
               /\ counted' = IF ~Measured THEN counted
                             ELSE IF stage = "body" THEN counted + Len(Rest(b))
                             ELSE counted + (Len(b.data) - msg.head)
               /\ stage' = IF ~Measured \/ counted' >= msg.length THEN "done" ELSE "body"
               /\ on' = on \ {"in"} /\ rb' = [b EXCEPT !.begin = 0] /\ pon' = TRUE
               /\ expired' = {} /\ UNCHANGED <<sb, phase>>
Resting(b) == /\ (stage = "line" /\ b.data = <<>>) \/ (stage = "done" /\ Rest(b) = <<>>)
              /\ rb' = b /\ Activate("front") /\ UNCHANGED <<requestVars, sb>>

\* The lengths of the messages are numbers.
LEMMA MessageIs ==
    ASSUME TypeInv
    PROVE  msg.head \in Nat \ {0} /\ msg.length \in Nat /\ msg.found \in BOOLEAN
  BY SizeAssumption DEF TypeInv

\* The body handler stops, answers with a page, or leaves the body to the upstream.
LEMMA BodyIs ==
    ASSUME TypeInv, NEW b, IsBuffer(b), NEW a, IsBuffer(a), Body(a),
           a.data = b.data, stage # "done", uc \/ stage = "line" \/ ~uc',
           uc => uc', uc' \in BOOLEAN, UNCHANGED over,
           stage = "body" => a = b,
           stage # "body" => a.begin = msg.head /\ Len(b.data) >= msg.head
    PROVE  Stopping(b) \/ Paging(b) \/ Relaying(b)
<1>1. msg.head \in Nat \ {0} /\ msg.length \in Nat /\ msg.found \in BOOLEAN
  BY MessageIs
<1>2. Len(Rest(a)) = IF stage = "body" THEN Len(Rest(b)) ELSE Len(b.data) - msg.head
  BY RestIs
<1> DEFINE length == IF msg.found THEN msg.length ELSE -1
           total == IF length <= 0 THEN counted ELSE counted + Len(Rest(a))
<1>7. uc \in BOOLEAN /\ (~uc' => uc' = uc)
  BY DEF TypeInv
<1>3. length <= 0 <=> ~Measured
  BY <1>1 DEF Measured
<1>4. ASSUME uc', counted' = total,
             stage' = IF length <= 0 \/ total >= length THEN "done" ELSE "body",
             on' = on \ {"in"}, rb' = Rewound(a), pon' = TRUE, UNCHANGED sb, Activate("front")
      PROVE  Relaying(b)
  <2>1. rb' = [b EXCEPT !.begin = 0]
    <3>1. a = [data |-> a.data, begin |-> a.begin] /\ b = [data |-> b.data, begin |-> b.begin]
      BY BufferIs
    <3> QED BY <1>4, <3>1 DEF Rewound
  <2>2. expired' = {} /\ UNCHANGED phase
    BY <1>4 DEF Activate
  <2>3. counted' = IF ~Measured THEN counted
                   ELSE IF stage = "body" THEN counted + Len(Rest(b))
                   ELSE counted + (Len(b.data) - msg.head)
    BY <1>2, <1>3, <1>4
  <2>4. stage' = IF ~Measured \/ counted' >= msg.length THEN "done" ELSE "body"
    <3>1. Measured => length = msg.length
      BY DEF Measured
    <3> QED BY <1>3, <1>4, <3>1
  <2>5. uc' /\ (uc \/ stage = "line") /\ stage # "done"
    BY <1>4
  <2> QED BY <1>4, <2>1, <2>2, <2>3, <2>4, <2>5 DEF Relaying
<1>5. ASSUME ~uc', Answer(Empty, "done")
      PROVE  Stopping(b) \/ Paging(b)
  <2>1. uc' = uc
    BY <1>5, <1>7
  <2>2. CASE MayNotFit(sb) /\ UNCHANGED <<stage, counted, on, pon, rb, sb>> /\ Abort
    BY <1>5, <1>7, <2>1, <2>2 DEF Stopping, Abort
  <2>3. CASE ~(MayNotFit(sb) /\ UNCHANGED <<stage, counted, on, pon, rb, sb>> /\ Abort)
    BY <1>5, <2>1, <2>3 DEF Paging, Answer, Activate
  <2> QED BY <2>2, <2>3
<1>6. ASSUME ~uc', UNCHANGED <<stage, counted, on, pon, rb, sb>>, Abort
      PROVE  Stopping(b)
  BY <1>6, <1>7 DEF Stopping, Abort
<1> HIDE DEF length, total
<1> QED BY <1>4, <1>5, <1>6 DEF Body, length, total

\* Every call of sy_handle_request has one of these outcomes.
LEMMA RequestIs ==
    ASSUME TypeInv, StageInv, HandleRequest
    PROVE  LET b == Filled(rb, client)
           IN  Closing(b) \/ Stopping(b) \/ Paging(b) \/ Asking(b) \/ Relaying(b) \/ Resting(b)
<1> DEFINE b == Filled(rb, client)
<1>1. IsBuffer(b)
  BY FilledIs DEF TypeInv
<1>2. /\ UNCHANGED over
      /\ \/ rb' = b /\ UNCHANGED <<requestVars, sb>> /\ Expire("front")
         \/ stage = "line" /\ RequestLine(b)
         \/ stage = "headers" /\ UNCHANGED uc /\ Headers(b)
         \/ stage = "body" /\ UNCHANGED uc /\ Body(b)
         \/ stage = "done" /\ NextLine(b)
  BY DEF HandleRequest, outVars
<1> SUFFICES Closing(b) \/ Stopping(b) \/ Paging(b) \/ Asking(b) \/ Relaying(b) \/ Resting(b)
  OBVIOUS
<1> HIDE DEF b
<1>3. msg.head \in Nat \ {0} /\ Len(b.data) \in Nat
  BY <1>1, MessageIs, BufferIs
<1>4. uc \in BOOLEAN /\ (stage = "line" => ~uc)
  BY DEF StageInv, TypeInv
<1>5. ASSUME Headers(b), uc => uc', stage \in {"line", "headers"}, stage = "line" => uc',
             stage = "headers" => uc' = uc, uc' \in BOOLEAN
      PROVE  Stopping(b) \/ Paging(b) \/ Asking(b) \/ Relaying(b)
  <2>1. CASE Len(b.data) < msg.head
    <3>1. uc' = (stage = "line" \/ uc)
      BY <1>4, <1>5
    <3> QED BY <1>5, <2>1, <3>1 DEF Headers, Asking
  <2>2. CASE ~(Len(b.data) < msg.head)
    <3> DEFINE a == [b EXCEPT !.begin = msg.head]
    <3>1. a = [data |-> b.data, begin |-> msg.head]
      BY <1>1, BufferIs
    <3>2. IsBuffer(a)
      BY <1>1, <1>3, <2>2, <3>1, BufferIs, BufferOf
    <3>3. Body(a)
      BY <1>5, <2>2 DEF Headers
    <3>4. a.data = b.data /\ a.begin = msg.head
      BY <3>1
    <3> HIDE DEF a
    <3>5. stage # "done" /\ stage # "body" /\ (uc \/ stage = "line" \/ ~uc')
      BY <1>5
    <3>6. Len(b.data) >= msg.head
      BY <1>3, <2>2
    <3>7. Stopping(b) \/ Paging(b) \/ Relaying(b)
      BY <1>1, <1>2, <1>5, <3>2, <3>3, <3>4, <3>5, <3>6, BodyIs
    <3> QED BY <3>7
  <2> QED BY <2>1, <2>2
<1>6. CASE rb' = b /\ UNCHANGED <<requestVars, sb>> /\ Expire("front")
  BY <1>6 DEF Closing, Expire, requestVars
<1>7. CASE stage = "line" /\ RequestLine(b)
  <2>1. CASE b.data = <<>> /\ rb' = b /\ UNCHANGED <<requestVars, sb>> /\ Activate("front")
    BY <1>7, <2>1 DEF Resting, requestVars
  <2>2. CASE b.data # <<>> /\ uc' = TRUE /\ Headers(b)
    BY <1>4, <1>5, <1>7, <2>2
  <2>3. CASE b.data # <<>> /\ uc' = FALSE /\ Answer([b EXCEPT !.begin = 1], "headers")
    <3>1. uc' = uc
      BY <1>4, <1>7, <2>3
    <3>2. CASE MayNotFit(sb) /\ UNCHANGED <<stage, counted, on, pon, rb, sb>> /\ Abort
      BY <1>4, <1>7, <3>1, <3>2 DEF Stopping, Abort
    <3>3. CASE ~(MayNotFit(sb) /\ UNCHANGED <<stage, counted, on, pon, rb, sb>> /\ Abort)
      BY <1>4, <1>7, <2>3, <3>1, <3>3 DEF Paging, Answer, Activate
    <3> QED BY <3>2, <3>3
  <2> QED BY <1>7, <2>1, <2>2, <2>3 DEF RequestLine
<1>8. CASE stage = "headers" /\ UNCHANGED uc /\ Headers(b)
  BY <1>4, <1>5, <1>8
<1>9. CASE stage = "body" /\ UNCHANGED uc /\ Body(b)
  <2>1. Stopping(b) \/ Paging(b) \/ Relaying(b)
    BY <1>1, <1>2, <1>4, <1>9, BodyIs
  <2> QED BY <2>1
<1>10. CASE stage = "done" /\ NextLine(b)
  BY <1>10 DEF NextLine, Stopping, Resting, requestVars, Abort, Activate
<1> QED BY <1>2, <1>6, <1>7, <1>8, <1>9, <1>10 DEF b

\* What sy_handle_request finds, and what it leaves alone.
LEMMA RequestFrame ==
    ASSUME TypeInv, BatchInv, StageInv, HandleRequest
    PROVE  /\ client' = Took(rb, client) /\ UNCHANGED <<msg, upstream, passed, delivered, over>>
           /\ batch # <<>> /\ batch' = Tail(batch) /\ Head(batch) = <<"front", "in">>
           /\ "front" \notin expired /\ ~over /\ phase = "batch"
           /\ ~Pending("front", "in")'
           /\ IsBuffer(Filled(rb, client))
<1>1. batch # <<>> /\ batch' = Tail(batch) /\ Head(batch) = <<"front", "in">>
  BY DEF HandleRequest, Begin
<1>2. "front" \in Conn /\ "in" \in {"in", "out"}
  BY DEF Conn
<1>3. ~over /\ ~Pending("front", "in")'
  BY <1>1, <1>2, TailOfBatch
<1>4. IsBuffer(Filled(rb, client))
  BY FilledIs DEF TypeInv
<1> QED BY <1>1, <1>3, <1>4 DEF HandleRequest, Begin, outVars

\* What an outcome leaves in the two buffers.
LEMMA OutcomeBuffers ==
    ASSUME TypeInv, NEW b, IsBuffer(b),
           Closing(b) \/ Stopping(b) \/ Paging(b) \/ Asking(b) \/ Relaying(b) \/ Resting(b)
    PROVE  /\ IsBuffer(rb') /\ IsBuffer(sb')
           /\ sb' = sb \/ (Margin(sb) > 0 /\ sb' = Paged(sb))
           /\ Asking(b) => rb'.data = b.data
           /\ Relaying(b) => rb'.data = b.data /\ rb'.begin = 0
<1>1. /\ b.data \in Seq(Nat) /\ b.begin \in Nat /\ Len(b.data) \in Nat
      /\ b.begin <= Len(b.data) /\ Len(b.data) <= Buf
      /\ b = [data |-> b.data, begin |-> b.begin]
      /\ IsBuffer(rb) /\ IsBuffer(sb)
  BY BufferIs DEF TypeInv
<1>2. /\ sb' = sb \/ (Margin(sb) > 0 /\ sb' = Paged(sb))
  BY DEF Closing, Stopping, Paging, Asking, Relaying, Resting, requestVars
<1>3. IsBuffer(sb')
  BY <1>1, <1>2, PagedIs
<1>4. ASSUME Asking(b)
      PROVE  IsBuffer(rb') /\ rb'.data = b.data
  <2>1. rb' = [data |-> b.data, begin |-> Len(b.data)]
    BY <1>1, <1>4 DEF Asking, AtEnd
  <2>2. IsBuffer([data |-> b.data, begin |-> Len(b.data)])
    <3>1. Len(b.data) <= Len(b.data)
      BY <1>1
    <3> QED BY <1>1, <3>1, BufferOf, Zenon
  <2> QED BY <2>1, <2>2
<1>5. ASSUME Relaying(b)
      PROVE  IsBuffer(rb') /\ rb'.data = b.data /\ rb'.begin = 0
  <2>1. rb' = [data |-> b.data, begin |-> 0]
    BY <1>1, <1>5 DEF Relaying
  <2>2. IsBuffer([data |-> b.data, begin |-> 0])
    <3>1. 0 \in Nat /\ 0 <= Len(b.data)
      BY <1>1
    <3> QED BY <1>1, <3>1, BufferOf, Zenon
  <2> QED BY <2>1, <2>2
<1>6. ASSUME Paging(b)
      PROVE  IsBuffer(rb')
  <2>1. CASE rb' = Empty
    BY <2>1, EmptyIs
  <2>2. CASE rb' # Empty
    <3>1. rb' = [data |-> b.data, begin |-> 1] /\ b.data # <<>>
      BY <1>1, <1>6, <2>2 DEF Paging
    <3>2. 1 \in Nat /\ 1 <= Len(b.data)
      BY <1>1, <3>1, EmptySeq
    <3>3. IsBuffer([data |-> b.data, begin |-> 1])
      BY <1>1, <3>2, BufferOf, Zenon
    <3> QED BY <3>1, <3>3
  <2> QED BY <2>1, <2>2
<1>7. Closing(b) \/ Stopping(b) \/ Resting(b) => rb' \in {rb, b}
  BY DEF Closing, Stopping, Resting
<1> QED BY <1>1, <1>2, <1>3, <1>4, <1>5, <1>6, <1>7

\* sy_handle_request keeps the types.
LEMMA RequestType ==
    ASSUME TypeInv, BatchInv, StageInv, HandleRequest
    PROVE  TypeInv'
<1> DEFINE b == Filled(rb, client)
<1>1. /\ client' = Took(rb, client) /\ UNCHANGED <<msg, upstream, passed, delivered, over>>
      /\ batch # <<>> /\ batch' = Tail(batch)
      /\ "front" \notin expired /\ ~over /\ phase = "batch" /\ IsBuffer(b)
  BY RequestFrame
<1>2. client' \in PeerType /\ client'.taken <= client'.wrote
  BY <1>1, TakenIs DEF TypeInv
<1>3. batch' \in Seq(Half)
  BY <1>1, TailOfBatch
<1>4. Closing(b) \/ Stopping(b) \/ Paging(b) \/ Asking(b) \/ Relaying(b) \/ Resting(b)
  BY RequestIs
<1> HIDE DEF b
<1>5. IsBuffer(rb') /\ IsBuffer(sb')
  BY <1>1, <1>4, OutcomeBuffers
<1>6. /\ stage' \in {"line", "headers", "body", "done"} /\ counted' \in Nat
      /\ on' \in SUBSET {"in", "out"} /\ pon' \in BOOLEAN /\ uc' \in BOOLEAN
      /\ expired' \in SUBSET Conn /\ phase' \in {"wait", "batch", "aborted"}
  <2>1. CASE Closing(b) \/ Stopping(b) \/ Resting(b)
    BY <2>1 DEF TypeInv, Closing, Stopping, Resting, requestVars, Activate, Conn
  <2>2. CASE Paging(b)
    BY <2>2 DEF TypeInv, Paging, Conn
  <2>3. CASE Asking(b)
    BY <2>3 DEF TypeInv, Asking, Activate, Conn
  <2>4. CASE Relaying(b)
    <3>1. counted' \in Nat
      <4>1. msg.head \in Nat /\ Len(b.data) \in Nat /\ Len(Rest(b)) \in Nat /\ counted \in Nat
        BY <1>1, MessageIs, BufferIs, RestIs DEF TypeInv
      <4>2. stage = "body" \/ Len(b.data) - msg.head \in Nat
        BY <2>4, <4>1 DEF Relaying
      <4> QED BY <2>4, <4>1, <4>2 DEF Relaying
    <3>2. uc' = TRUE
      BY <2>4 DEF Relaying
    <3> QED BY <2>4, <3>1 DEF TypeInv, Relaying, Conn
  <2> QED BY <1>4, <2>1, <2>2, <2>3, <2>4
<1> QED BY <1>1, <1>2, <1>3, <1>5, <1>6 DEF TypeInv

-------------------------------------------------------------------------------
(* sy_handle_request: what it preserves.                                   *)

\* Three pieces of a stream in a row.
LEMMA Associative ==
    \A r, s, t \in Seq(Nat) : (r \o s) \o t = r \o (s \o t)
  BY ConcatAssociative

\* A page changes nothing of what the client gets of the upstream.
LEMMA ReplySame ==
    ASSUME TypeInv, ReplyKept, sb' = sb \/ (Margin(sb) > 0 /\ sb' = Paged(sb)),
           delivered' = delivered, upstream'.taken = upstream.taken
    PROVE  ReplyKept'
<1>1. Unpaged(Rest(sb')) = Unpaged(Rest(sb))
  <2>1. CASE sb' = sb
    BY <2>1
  <2>2. CASE Margin(sb) > 0 /\ sb' = Paged(sb)
    <3>1. Rest(sb') = Append(Rest(sb), 0) /\ Rest(sb) \in Seq(Nat)
      BY <2>2, PagedIs, RestIs DEF TypeInv
    <3> QED BY <3>1, UnpagedPage
  <2> QED BY <2>1, <2>2
<1> QED BY <1>1 DEF ReplyKept

\* sy_handle_request leaves nothing in the batch of a connection that is gone.
LEMMA RequestBatch ==
    ASSUME TypeInv, BatchInv, StageInv, HandleRequest
    PROVE  BatchInv'
<1> DEFINE b == Filled(rb, client)
<1>1. /\ UNCHANGED over /\ batch # <<>> /\ batch' = Tail(batch) /\ ~over
  BY RequestFrame
<1>2. /\ Distinct'
      /\ Pending("back", "in")' => Pending("back", "in")
      /\ Pending("back", "out")' => Pending("back", "out")
  <2>1. "back" \in Conn /\ "in" \in {"in", "out"} /\ "out" \in {"in", "out"}
    BY DEF Conn
  <2> QED BY <1>1, <2>1, TailOfBatch
<1>3. Closing(b) \/ Stopping(b) \/ Paging(b) \/ Asking(b) \/ Relaying(b) \/ Resting(b)
  BY RequestIs
<1> HIDE DEF b
<1>4. uc => uc'
  BY <1>3 DEF Closing, Stopping, Paging, Asking, Relaying, Resting, requestVars
<1>5. uc' /\ "front" \in expired' => "back" \in expired'
  BY <1>3 DEF BatchInv, Closing, Stopping, Paging, Asking, Relaying, Resting, requestVars, Activate
<1>6. Pending("back", "in") \/ Pending("back", "out") => uc
  BY DEF BatchInv
<1>7. ~over'
  BY <1>1
<1> QED BY <1>2, <1>4, <1>5, <1>6, <1>7 DEF BatchInv

\* What is in the buffer when the handler looks at it, and what is true of the request then.
Arrived(b, q, t) ==
    /\ client'.taken = client.taken + t /\ client'.taken <= client.wrote
    /\ UNCHANGED <<msg, passed, over>>
    /\ b.data = rb.data \o q /\ Rest(b) = Rest(rb) \o q
    /\ IsBuffer(b) /\ q \in Seq(Nat) /\ Len(q) = t /\ client.taken \in Nat /\ t \in Nat
    /\ q = NextBytes(client.taken, t)
    /\ rb = Empty => b.data = q /\ Rest(b) = q /\ (q = <<>> => b = Empty)
    /\ ~Pending("front", "in")' /\ (Pending("back", "out")' => Pending("back", "out"))
    /\ Live /\ ~over
    /\ stage = "line" => ~uc /\ rb = Empty /\ client.taken = 0
    /\ stage \in {"line", "headers"} => passed = <<>> /\ counted = 0
    /\ pon \/ Pending("back", "out") => stage \in {"body", "done"}
    /\ uc /\ stage \in {"body", "done"} => rb = Empty
    /\ Closing(b) \/ Stopping(b) \/ Paging(b) \/ Asking(b) \/ Relaying(b) \/ Resting(b)

\* That is what it has received in every state of the invariant.
LEMMA RequestArrived ==
    ASSUME TypeInv, BatchInv, StageInv, HandleRequest
    PROVE  Arrived(Filled(rb, client), NextBytes(client.taken, Taken(rb, client)),
                   Taken(rb, client))
<1> DEFINE b == Filled(rb, client)
<1>1. /\ client' = Took(rb, client) /\ UNCHANGED <<msg, upstream, passed, delivered, over>>
      /\ batch # <<>> /\ batch' = Tail(batch)
      /\ "front" \notin expired /\ ~over /\ phase = "batch" /\ ~Pending("front", "in")'
      /\ Pending("front", "in")
  <2>1. "front" \in Conn /\ "in" \in {"in", "out"}
    BY DEF Conn
  <2>2. Head(batch) = <<"front", "in">> /\ batch # <<>> /\ batch' = Tail(batch)
    BY RequestFrame
  <2>3. Pending("front", "in")
    BY <2>1, <2>2, TailOfBatch
  <2> QED BY <2>3, RequestFrame
<1>2. Pending("back", "out")' => Pending("back", "out")
  <2>1. "back" \in Conn /\ "out" \in {"in", "out"}
    BY DEF Conn
  <2> QED BY <1>1, <2>1, TailOfBatch
<1>3. Closing(b) \/ Stopping(b) \/ Paging(b) \/ Asking(b) \/ Relaying(b) \/ Resting(b)
  BY RequestIs
<1>4. Live
  BY <1>1 DEF Live
<1>5. /\ client'.taken = client.taken + Taken(rb, client)
      /\ b.data = rb.data \o NextBytes(client.taken, Taken(rb, client))
      /\ Rest(b) = Rest(rb) \o NextBytes(client.taken, Taken(rb, client))
      /\ Len(NextBytes(client.taken, Taken(rb, client))) = Taken(rb, client)
      /\ NextBytes(client.taken, Taken(rb, client)) \in Seq(Nat)
      /\ client.taken \in Nat /\ Taken(rb, client) \in Nat
  <2>1. client.taken \in Nat /\ Taken(rb, client) \in Nat
    BY TakenIs DEF TypeInv, PeerType
  <2>2. NextBytes(client.taken, Taken(rb, client)) \in Seq(Nat)
    BY FilledIs DEF TypeInv
  <2>3. Len(NextBytes(client.taken, Taken(rb, client))) = Taken(rb, client)
    BY <2>1 DEF NextBytes
  <2>4. client'.taken = client.taken + Taken(rb, client)
    BY <1>1, TakenIs DEF TypeInv
  <2>5. /\ b.data = rb.data \o NextBytes(client.taken, Taken(rb, client))
        /\ Rest(b) = Rest(rb) \o NextBytes(client.taken, Taken(rb, client))
    BY FilledIs, RestFilled DEF TypeInv
  <2> QED BY <2>1, <2>2, <2>3, <2>4, <2>5
<1> DEFINE q == NextBytes(client.taken, Taken(rb, client))
           t == Taken(rb, client)
<1>6. rb = Empty => rb.data = <<>> /\ Rest(rb) = <<>> /\ rb.begin = 0
  BY EmptyIs DEF Empty
<1>7. rb = Empty => b.data = q /\ Rest(b) = q /\ b = [data |-> q, begin |-> 0]
  <2>1. <<>> \o q = q
    BY <1>5, ConcatEmptySeq, Zenon
  <2>2. b = [data |-> b.data, begin |-> rb.begin]
    <3>1. IsBuffer(b) /\ b.begin = rb.begin
      BY FilledIs DEF TypeInv
    <3> HIDE DEF b
    <3> QED BY <3>1, BufferIs
  <2> QED BY <1>5, <1>6, <2>1, <2>2
<1>9. rb = Empty /\ q = <<>> => b = Empty
  BY <1>7 DEF Empty
<1>10. client'.taken <= client.wrote /\ IsBuffer(b)
  BY <1>1, TakenIs, FilledIs DEF TypeInv
<1> HIDE DEF b, q, t
<1>11. /\ stage = "line" => ~uc /\ rb = Empty /\ client.taken = 0
       /\ stage \in {"line", "headers"} => passed = <<>> /\ counted = 0
       /\ pon \/ Pending("back", "out") => stage \in {"body", "done"}
       /\ uc /\ stage \in {"body", "done"} => rb = Empty
  BY <1>1, <1>4 DEF StageInv
<1>12. Arrived(b, q, t)
  BY <1>1, <1>2, <1>3, <1>4, <1>5, <1>7, <1>9, <1>10, <1>11 DEF Arrived, q, t
<1> QED BY <1>12 DEF b, q, t

\* A client whose request waits to be passed on is not read again.
LEMMA RequestStage ==
    ASSUME NEW b, NEW q, NEW t, Arrived(b, q, t)
    PROVE  StageInv'
<1>1. /\ UNCHANGED <<msg, passed, over>> /\ ~Pending("front", "in")'
      /\ Pending("back", "out")' => Pending("back", "out")
      /\ stage = "line" => ~uc /\ rb = Empty /\ client.taken = 0
      /\ stage \in {"line", "headers"} => passed = <<>> /\ counted = 0
      /\ pon \/ Pending("back", "out") => stage \in {"body", "done"}
      /\ uc /\ stage \in {"body", "done"} => rb = Empty
  BY DEF Arrived
<1>2. Closing(b) \/ Stopping(b) \/ Paging(b) \/ Asking(b) \/ Relaying(b) \/ Resting(b)
  BY DEF Arrived
<1>3. /\ rb = Empty => b.data = q /\ Rest(b) = q /\ (q = <<>> => b = Empty)
      /\ q = <<>> => t = 0
      /\ client.taken = 0 => client'.taken = t
  <2>1. /\ rb = Empty => b.data = q /\ Rest(b) = q /\ (q = <<>> => b = Empty)
        /\ Len(q) = t /\ t \in Nat /\ client'.taken = client.taken + t
    BY DEF Arrived
  <2>2. Len(<<>>) = 0
    BY EmptySeq
  <2> QED BY <2>1, <2>2
<1>4. stage' = "line" => ~uc' /\ passed' = <<>> /\ counted' = 0
  BY <1>1, <1>2
     DEF Closing, Stopping, Paging, Asking, Relaying, Resting, requestVars, Measured
<1>5. stage' = "headers" => passed' = <<>> /\ counted' = 0
  BY <1>1, <1>2
     DEF Closing, Stopping, Paging, Asking, Relaying, Resting, requestVars, Measured
<1>6. pon' \/ Pending("back", "out")' => stage' \in {"body", "done"}
  BY <1>1, <1>2
     DEF Closing, Stopping, Paging, Asking, Relaying, Resting, requestVars, Measured
<1>7. stage' = "line" /\ Live' => rb' = Empty /\ client'.taken = 0
  <2> SUFFICES ASSUME stage' = "line", Live'
               PROVE  rb' = Empty /\ client'.taken = 0
    OBVIOUS
  <2>1. Resting(b) /\ stage = "line" /\ b.data = <<>>
    BY <1>2 DEF Closing, Stopping, Paging, Asking, Relaying, Resting, requestVars, Live
  <2> QED BY <1>1, <1>3, <2>1 DEF Resting
<1>8. uc' /\ Live' /\ stage' \in {"body", "done"} /\ ("in" \in on' \/ Pending("front", "in")')
         => rb' = Empty
  <2> SUFFICES ASSUME uc', Live', stage' \in {"body", "done"}, "in" \in on'
               PROVE  rb' = Empty
    BY <1>1
  <2>1. Resting(b) /\ stage = "done" /\ Rest(b) = <<>> /\ uc
    BY <1>2 DEF Closing, Stopping, Paging, Asking, Relaying, Resting, requestVars, Live
  <2> QED BY <1>1, <1>3, <2>1 DEF Resting
<1> QED BY <1>4, <1>5, <1>6, <1>7, <1>8 DEF StageInv

\* What sy_handle_request received is in its buffer, once.
LEMMA RequestRequestKept ==
    ASSUME NEW b, NEW q, NEW t, Arrived(b, q, t), TypeInv, RequestKept
    PROVE  RequestKept'
<1> SUFFICES ASSUME uc', "front" \notin expired', phase' # "aborted"
             PROVE  passed' \o (IF stage' \in {"body", "done"} THEN Rest(rb') ELSE rb'.data)
                      = Bytes(client'.taken)
  BY DEF RequestKept
<1>1. /\ UNCHANGED <<msg, passed>> /\ client'.taken = client.taken + t
      /\ q = NextBytes(client.taken, t) /\ q \in Seq(Nat)
      /\ client.taken \in Nat /\ t \in Nat
      /\ b.data = rb.data \o q /\ Rest(b) = Rest(rb) \o q
      /\ stage = "line" => rb = Empty /\ client.taken = 0 /\ passed = <<>>
      /\ uc /\ stage \in {"body", "done"} => rb = Empty
      /\ rb = Empty => b.data = q /\ Rest(b) = q
      /\ Live /\ IsBuffer(b)
  BY DEF Arrived
<1>2. Asking(b) \/ Relaying(b) \/ Resting(b)
  BY <1>1 DEF Arrived, Closing, Stopping, Paging
<1>3. IsBuffer(rb') /\ (Asking(b) => rb'.data = b.data)
      /\ (Relaying(b) => rb'.data = b.data /\ rb'.begin = 0)
  BY <1>1, <1>2, OutcomeBuffers
<1>4. Bytes(client'.taken) = Bytes(client.taken) \o q
  BY <1>1, BytesNext
<1>5. passed \in Seq(Nat) /\ rb.data \in Seq(Nat) /\ Rest(rb) \in Seq(Nat)
  BY BufferIs, RestIs DEF TypeInv
<1>6. CASE stage = "line"
  <2>1. Asking(b) \/ Relaying(b)
    BY <1>2, <1>6 DEF Resting, requestVars, Arrived
  <2>2. Bytes(client'.taken) = q
    <3>1. Bytes(0) = <<>>
      BY DEF Bytes
    <3>2. <<>> \o q = q
      BY <1>1, ConcatEmptySeq, Zenon
    <3> QED BY <1>1, <1>4, <1>6, <3>1, <3>2
  <2>3. rb'.data = q /\ (Relaying(b) => Rest(rb') = q)
    BY <1>1, <1>3, <1>6, <2>1, RestBegin
  <2>4. passed' \o q = q
    <3>1. passed' = <<>>
      BY <1>1, <1>6
    <3> QED BY <1>1, <3>1, ConcatEmptySeq, Zenon
  <2>5. Asking(b) => stage' = "headers"
    BY DEF Asking
  <2> QED BY <2>1, <2>2, <2>3, <2>4, <2>5, Zenon
<1>7. CASE stage # "line"
  <2>1. uc
    BY <1>2, <1>7 DEF Asking, Relaying, Resting, requestVars
  <2>2. passed \o (IF stage \in {"body", "done"} THEN Rest(rb) ELSE rb.data) = Bytes(client.taken)
    BY <1>1, <2>1 DEF RequestKept, Live
  <2>3. CASE stage = "headers"
    <3>1. passed \o rb.data = Bytes(client.taken)
      BY <2>2, <2>3
    <3>7. q \in Seq(Nat)
      BY <1>1
    <3>2. (passed \o rb.data) \o q = passed \o (rb.data \o q)
      BY <1>5, <3>7, Associative, Zenon
    <3>3. passed' \o b.data = Bytes(client'.taken)
      BY <1>1, <1>4, <3>1, <3>2
    <3>4. Asking(b) \/ Relaying(b)
      BY <1>2, <2>3 DEF Resting
    <3>5. rb'.data = b.data /\ (Relaying(b) => Rest(rb') = b.data)
      BY <1>3, <3>4, RestBegin
    <3>6. Asking(b) => stage' = "headers"
      BY DEF Asking
    <3> QED BY <3>3, <3>4, <3>5, <3>6, Zenon
  <2>4. CASE stage \in {"body", "done"}
    <3>1. passed \o Rest(rb) = Bytes(client.taken) /\ Rest(rb) = <<>>
      BY <1>1, <2>1, <2>2, <2>4, EmptyIs
    <3>2. passed \o <<>> = passed
      BY <1>5, ConcatEmptySeq, Zenon
    <3>3. passed' \o q = Bytes(client'.taken)
      BY <1>1, <1>4, <3>1, <3>2
    <3>4. Relaying(b) \/ Resting(b)
      BY <1>2, <2>4 DEF Asking
    <3>5. b.data = q /\ Rest(b) = q
      BY <1>1, <2>1, <2>4
    <3>6. Rest(rb') = q
      BY <1>3, <3>4, <3>5, RestBegin DEF Resting
    <3>7. stage' \in {"body", "done"}
      BY <2>4, <3>4 DEF Relaying, Resting, requestVars
    <3> QED BY <3>3, <3>6, <3>7
  <2> QED BY <1>7, <2>3, <2>4 DEF TypeInv
<1> QED BY <1>6, <1>7

\* The body is counted once, the part that came with the headers too.
LEMMA RequestBodyCounted ==
    ASSUME NEW b, NEW q, NEW t, Arrived(b, q, t), TypeInv, RequestKept, BodyCounted, Written
    PROVE  BodyCounted'
<1> SUFFICES ASSUME uc', msg.found, msg.length > 0, stage' \in {"body", "done"},
                    "front" \notin expired'
             PROVE  /\ counted' = client'.taken - msg.head
                    /\ stage' = "done" <=> counted' >= msg.length
  BY DEF BodyCounted, Arrived
<1>1. /\ UNCHANGED <<msg, passed>> /\ client'.taken = client.taken + t
      /\ client'.taken <= client.wrote
      /\ q = NextBytes(client.taken, t) /\ q \in Seq(Nat) /\ Len(q) = t
      /\ client.taken \in Nat /\ t \in Nat
      /\ b.data = rb.data \o q /\ Rest(b) = Rest(rb) \o q
      /\ stage = "line" => rb = Empty /\ client.taken = 0
      /\ stage \in {"line", "headers"} => passed = <<>> /\ counted = 0
      /\ uc /\ stage \in {"body", "done"} => rb = Empty
      /\ rb = Empty => b.data = q /\ Rest(b) = q
      /\ Live
  BY DEF Arrived
<1>2. Stopping(b) \/ Relaying(b) \/ Resting(b)
  BY DEF Arrived, Closing, Paging, Asking
<1>3. /\ msg.head \in Nat /\ msg.length \in Nat /\ counted \in Nat
      /\ client.wrote \in Nat /\ Measured
  BY MessageIs DEF TypeInv, PeerType, Measured
<1>4. CASE Relaying(b)
  <2>1. CASE stage = "body"
    <3>1. uc
      BY <1>4, <2>1 DEF Relaying
    <3>2. counted = client.taken - msg.head
      BY <1>1, <2>1, <3>1 DEF BodyCounted, Live
    <3>3. counted' = counted + Len(Rest(b))
      BY <1>3, <1>4, <2>1 DEF Relaying
    <3>4. Len(Rest(b)) = t
      BY <1>1, <2>1, <3>1
    <3>5. counted' = client'.taken - msg.head
      BY <1>1, <1>3, <3>2, <3>3, <3>4
    <3>6. stage' = IF counted' >= msg.length THEN "done" ELSE "body"
      BY <1>3, <1>4 DEF Relaying
    <3> QED BY <3>5, <3>6
  <2>2. CASE stage \in {"line", "headers"}
    <3>1. counted' = Len(b.data) - msg.head
      <4>1. Len(b.data) \in Nat
        BY BufferIs DEF Arrived
      <4>2. counted = 0 /\ msg.head \in Nat
        BY <1>1, <1>3, <2>2, Zenon
      <4>3. counted' = counted + (Len(b.data) - msg.head)
        BY <1>3, <1>4, <2>2 DEF Relaying
      <4> QED BY <4>1, <4>2, <4>3
    <3>2. Len(b.data) = client'.taken
      <4>1. CASE stage = "line"
        <5>1. Len(b.data) = t /\ client'.taken = 0 + t /\ t \in Nat
          BY <1>1, <4>1, Zenon
        <5> QED BY <5>1
      <4>2. CASE stage = "headers"
        <5>1. uc
          BY <1>4, <4>2 DEF Relaying
        <5>2. passed \o rb.data = Bytes(client.taken) /\ passed = <<>>
          BY <1>1, <4>2, <5>1 DEF RequestKept, Live
        <5>3. rb.data \in Seq(Nat)
          BY BufferIs DEF TypeInv
        <5>4. <<>> \o rb.data = rb.data
          BY <5>3, ConcatEmptySeq, Zenon
        <5>5. Len(rb.data) = client.taken
          BY <1>1, <5>2, <5>4, BytesIs
        <5>6. Len(b.data) = Len(rb.data) + Len(q)
          <6>0. q \in Seq(Nat)
            BY <1>1
          <6>1. Len(rb.data \o q) = Len(rb.data) + Len(q)
            BY <5>3, <6>0, ConcatProperties
          <6> QED BY <1>1, <6>1, Zenon
        <5> QED BY <1>1, <5>5, <5>6
      <4> QED BY <2>2, <4>1, <4>2
    <3>3. stage' = IF counted' >= msg.length THEN "done" ELSE "body"
      BY <1>3, <1>4 DEF Relaying
    <3> QED BY <3>1, <3>2, <3>3
  <2> QED BY <1>4, <2>1, <2>2 DEF Relaying, TypeInv
<1>5. CASE Stopping(b) \/ Resting(b)
  <2>1. uc /\ stage \in {"body", "done"} /\ UNCHANGED <<stage, counted>>
    BY <1>2, <1>5 DEF Stopping, Resting, requestVars
  <2>2. /\ counted = client.taken - msg.head
        /\ stage = "done" <=> counted >= msg.length
    BY <1>1, <2>1 DEF BodyCounted, Live
  <2>3. t = 0
    <3>1. CASE stage = "done"
      BY <1>1, <1>3, <2>2, <3>1 DEF Written
    <3>2. CASE stage = "body"
      BY <1>5, <3>2 DEF Stopping, Resting
    <3> QED BY <2>1, <3>1, <3>2
  <2> QED BY <1>1, <2>1, <2>2, <2>3
<1> QED BY <1>2, <1>4, <1>5

-------------------------------------------------------------------------------
(* The other steps.                                                        *)

\* What a step leaves alone that is neither of sy_handle_request nor of sy_handle_pass.
Quiet ==
    /\ UNCHANGED <<msg, rb, stage, counted, passed>> /\ client'.taken = client.taken
    /\ Written'
    /\ (uc' => uc) /\ (pon' => pon) /\ (Live' => Live)
    /\ (phase' # "aborted" => phase # "aborted")
    /\ (uc' /\ "front" \notin expired' => "front" \notin expired)
    /\ ("in" \in on' => "in" \in on)
    /\ (Pending("front", "in")' => Pending("front", "in") \/ "in" \in on)
    /\ (Pending("back", "out")' => Pending("back", "out") \/ pon)

\* What it leaves of the answer.
Answered ==
    \/ /\ sb' = sb \/ (Margin(sb) > 0 /\ sb' = Paged(sb))
       /\ delivered' = delivered /\ upstream' \in PeerType
       /\ upstream'.taken = upstream.taken /\ upstream'.taken <= upstream'.wrote
    \/ /\ sb' = Filled(sb, upstream) /\ upstream' = Took(sb, upstream)
       /\ delivered' = delivered
    \/ /\ UNCHANGED upstream
       /\ \E n \in 0 .. Len(Rest(sb)) : /\ sb' = Sent(sb, n)
                                        /\ delivered' = delivered \o Unpaged(SubSeq(Rest(sb), 1, n))

\* Such a step keeps what is said of the request.
LEMMA QuietInv ==
    ASSUME Quiet, StageInv, RequestKept, BodyCounted
    PROVE  StageInv' /\ RequestKept' /\ BodyCounted'
<1>1. StageInv'
  BY DEF Quiet, StageInv
<1>2. RequestKept'
  BY DEF Quiet, RequestKept
<1>3. BodyCounted'
  BY DEF Quiet, BodyCounted
<1> QED BY <1>1, <1>2, <1>3

\* Such a step keeps what is said of the answer.
LEMMA AnsweredInv ==
    ASSUME TypeInv, ReplyKept, Answered
    PROVE  /\ ReplyKept' /\ IsBuffer(sb') /\ delivered' \in Seq(Nat)
           /\ upstream' \in PeerType /\ upstream'.taken <= upstream'.wrote
<1>1. /\ IsBuffer(sb) /\ Rest(sb) \in Seq(Nat) /\ delivered \in Seq(Nat)
      /\ upstream \in PeerType /\ upstream.taken <= upstream.wrote /\ upstream.taken \in Nat
      /\ Unpaged(Rest(sb)) \in Seq(Nat)
  BY RestIs, UnpagedType DEF TypeInv, PeerType
<1>2. CASE /\ sb' = sb \/ (Margin(sb) > 0 /\ sb' = Paged(sb))
           /\ delivered' = delivered /\ upstream' \in PeerType
           /\ upstream'.taken = upstream.taken /\ upstream'.taken <= upstream'.wrote
  <2>1. IsBuffer(sb')
    BY <1>1, <1>2, PagedIs
  <2> QED BY <1>1, <1>2, <2>1, ReplySame
<1>3. CASE /\ sb' = Filled(sb, upstream) /\ upstream' = Took(sb, upstream)
           /\ delivered' = delivered
  <2> DEFINE t == Taken(sb, upstream)
             q == NextBytes(upstream.taken, t)
  <2>1. /\ t \in Nat /\ upstream' \in PeerType /\ upstream'.taken = upstream.taken + t
        /\ upstream'.taken <= upstream'.wrote
    BY <1>1, <1>3, TakenIs
  <2>2. IsBuffer(sb') /\ q \in Seq(Nat) /\ Rest(sb') = Rest(sb) \o q
    BY <1>1, <1>3, FilledIs, RestFilled
  <2>3. \A i \in 1 .. Len(q) : q[i] # 0
    BY <1>1, <2>1 DEF NextBytes
  <2>4. Bytes(upstream'.taken) = Bytes(upstream.taken) \o q
    BY <1>1, <2>1, BytesNext
  <2> HIDE DEF q
  <2>5. Unpaged(Rest(sb')) = Unpaged(Rest(sb)) \o q
    <3>1. Unpaged(q) = q
      BY <2>2, <2>3, UnpagedBytes
    <3>2. Unpaged(Rest(sb) \o q) = Unpaged(Rest(sb)) \o Unpaged(q)
      BY <1>1, <2>2, UnpagedConcat
    <3> QED BY <2>2, <3>1, <3>2
  <2>6. (delivered \o Unpaged(Rest(sb))) \o q = delivered \o (Unpaged(Rest(sb)) \o q)
    BY <1>1, <2>2, Associative, Zenon
  <2>7. delivered' \o Unpaged(Rest(sb')) = Bytes(upstream'.taken)
    BY <1>3, <2>4, <2>5, <2>6, Zenon DEF ReplyKept
  <2> QED BY <1>1, <1>3, <2>1, <2>2, <2>7 DEF ReplyKept
<1>4. CASE /\ UNCHANGED upstream
           /\ \E n \in 0 .. Len(Rest(sb)) :
                 /\ sb' = Sent(sb, n)
                 /\ delivered' = delivered \o Unpaged(SubSeq(Rest(sb), 1, n))
  <2>1. PICK n \in 0 .. Len(Rest(sb)) :
           /\ sb' = Sent(sb, n)
           /\ delivered' = delivered \o Unpaged(SubSeq(Rest(sb), 1, n))
    BY <1>4
  <2> DEFINE p == SubSeq(Rest(sb), 1, n)
             r == Rest(sb')
  <2>2. IsBuffer(sb') /\ p \in Seq(Nat) /\ Rest(sb) = p \o r
    BY <1>1, <2>1, SentIs
  <2>3. r \in Seq(Nat)
    BY <2>2, RestIs
  <2> HIDE DEF p, r
  <2>4. /\ Unpaged(Rest(sb)) = Unpaged(p) \o Unpaged(r)
        /\ Unpaged(p) \in Seq(Nat) /\ Unpaged(r) \in Seq(Nat)
    BY <2>2, <2>3, UnpagedConcat, UnpagedType
  <2>5. (delivered \o Unpaged(p)) \o Unpaged(r) = delivered \o (Unpaged(p) \o Unpaged(r))
    BY <1>1, <2>4, Associative, Zenon
  <2>6. delivered' = delivered \o Unpaged(p)
    BY <2>1 DEF p
  <2>7. delivered' \o Unpaged(r) = Bytes(upstream.taken)
    BY <2>4, <2>5, <2>6, Zenon DEF ReplyKept
  <2>8. delivered' \in Seq(Nat)
    BY <1>1, <2>4, <2>6, ConcatProperties
  <2> QED BY <1>1, <1>4, <2>2, <2>7, <2>8 DEF ReplyKept, r
<1> QED BY <1>2, <1>3, <1>4 DEF Answered

\* A handler takes the first half off the batch.
LEMMA HandlerFrame ==
    ASSUME TypeInv, BatchInv, NEW c \in Conn, NEW bit \in {"in", "out"}, Begin(c, bit)
    PROVE  /\ batch' \in Seq(Half) /\ Distinct' /\ ~over /\ phase = "batch" /\ c \notin expired
           /\ \A d \in Conn, e \in {"in", "out"} : Pending(d, e)' => Pending(d, e)
           /\ c = "back" => uc /\ "front" \notin expired
           /\ Pending(c, bit)
           /\ c = "front" /\ bit = "out" => \A i \in 1 .. Len(batch') : batch'[i][1] = "back"
<1>1. batch # <<>> /\ batch' = Tail(batch) /\ Head(batch) = <<c, bit>>
  BY DEF Begin
<1>2. /\ batch' \in Seq(Half) /\ Distinct' /\ ~over
      /\ \A d \in Conn, e \in {"in", "out"} : Pending(d, e)' => Pending(d, e)
      /\ Pending(c, bit)
      /\ c = "front" /\ bit = "out" => \A i \in 1 .. Len(batch') : batch'[i][1] = "back"
  BY <1>1, TailOfBatch
<1>3. c = "back" => uc
  BY <1>2 DEF BatchInv
<1>4. c = "back" => "front" \notin expired
  BY <1>3 DEF BatchInv, Begin
<1> QED BY <1>2, <1>3, <1>4 DEF Begin

\* A step that opens and closes no connection keeps what is said of the batch.
LEMMA BatchStep ==
    ASSUME TypeInv, BatchInv, Distinct',
           Pending("back", "in")' => Pending("back", "in") \/ uc,
           Pending("back", "out")' => Pending("back", "out") \/ uc,
           uc' = uc, over' => batch' = <<>> /\ ~uc',
           uc' /\ "front" \in expired' => "back" \in expired'
    PROVE  BatchInv'
  BY DEF BatchInv

\* sy_send_response_buffer.
LEMMA ResponseStep ==
    ASSUME IInv, NEW n \in 0 .. Buf, HandleResponse(n)
    PROVE  TypeInv' /\ BatchInv' /\ Quiet /\ Answered
<1>0. TypeInv /\ BatchInv
  BY DEF IInv
<1>1. /\ Begin("front", "out") /\ "front" \in Conn /\ "back" \in Conn
      /\ "in" \in {"in", "out"} /\ "out" \in {"in", "out"}
  BY DEF HandleResponse, Conn
<1>2. /\ batch' \in Seq(Half) /\ Distinct' /\ ~over /\ phase = "batch" /\ "front" \notin expired
      /\ (Pending("back", "in")' => Pending("back", "in"))
      /\ (Pending("front", "in")' => Pending("front", "in"))
      /\ (Pending("back", "out")' => Pending("back", "out"))
      /\ \A i \in 1 .. Len(batch') : batch'[i][1] = "back"
  BY <1>0, <1>1, HandlerFrame
<1>3. /\ n \in 0 .. Len(Rest(sb)) /\ sb' = Sent(sb, n)
      /\ delivered' = delivered \o Unpaged(SubSeq(Rest(sb), 1, n))
      /\ over' = (sb' = Empty /\ ~uc) /\ on' = IF over' THEN on \ {"out"} ELSE on
      /\ UNCHANGED <<msg, client, upstream, stage, counted, rb, pon, uc, passed, phase>>
      /\ expired' = IF uc' THEN {} ELSE expired \ {"front"}
  BY DEF HandleResponse, peerVars, Activate
<1>4. Answered
  BY <1>3, Zenon DEF Answered
<1>5. TypeInv'
  <2>1. IsBuffer(sb') /\ delivered' \in Seq(Nat)
    BY <1>0, <1>4, AnsweredInv DEF IInv
  <2>2. /\ on' \in SUBSET {"in", "out"} /\ over' \in BOOLEAN /\ expired' \in SUBSET Conn
    BY <1>0, <1>3 DEF TypeInv
  <2> QED BY <1>0, <1>2, <1>3, <2>1, <2>2 DEF TypeInv
<1>6. over' => batch' = <<>> /\ ~uc'
  <2> SUFFICES ASSUME over'
               PROVE  batch' = <<>> /\ ~uc'
    OBVIOUS
  <2>1. ~uc
    BY <1>3
  <2>2. \A i \in 1 .. Len(batch') : FALSE
    <3> SUFFICES ASSUME NEW i \in 1 .. Len(batch')
                 PROVE  FALSE
      OBVIOUS
    <3>1. batch'[i] \in Half /\ batch'[i][1] = "back"
      BY <1>2, ElementOfSeq
    <3>2. batch'[i] = <<"back", "in">> \/ batch'[i] = <<"back", "out">>
      BY <3>1 DEF Half
    <3>3. Pending("back", "in")' \/ Pending("back", "out")'
      BY <3>2, Zenon DEF Pending
    <3> QED BY <1>0, <1>2, <2>1, <3>3 DEF BatchInv
  <2>3. batch' = <<>>
    <3>1. batch' # <<>> => Len(batch') \in Nat \ {0}
      BY <1>2, EmptySeq
    <3> QED BY <2>2, <3>1
  <2> QED BY <1>3, <2>1, <2>3
<1>7. uc' /\ "front" \in expired' => "back" \in expired'
  BY <1>2, <1>3
<1>8. BatchInv'
  BY <1>0, <1>2, <1>3, <1>6, <1>7, BatchStep
<1>9. Quiet
  BY <1>2, <1>3 DEF Quiet, Live, IInv, Written
<1> QED BY <1>4, <1>5, <1>8, <1>9

\* sy_send_response_buffer, when the client is gone.
LEMMA ResponseFailsStep ==
    ASSUME IInv, ResponseFails
    PROVE  TypeInv' /\ BatchInv' /\ Quiet /\ Answered
<1>0. TypeInv /\ BatchInv
  BY DEF IInv
<1>1. /\ Begin("front", "out") /\ "front" \in Conn /\ "back" \in Conn
      /\ "in" \in {"in", "out"} /\ "out" \in {"in", "out"}
  BY DEF ResponseFails, Conn
<1>2. /\ batch' \in Seq(Half) /\ Distinct' /\ ~over /\ phase = "batch"
      /\ (Pending("back", "in")' => Pending("back", "in"))
      /\ (Pending("front", "in")' => Pending("front", "in"))
      /\ (Pending("back", "out")' => Pending("back", "out"))
  BY <1>0, <1>1, HandlerFrame
<1>3. /\ UNCHANGED <<msg, client, upstream, stage, counted, on, pon, uc, rb, sb, passed, delivered,
                     over, phase>>
      /\ expired' = expired \cup {"front"} \cup IF uc' THEN {"back"} ELSE {}
  BY DEF ResponseFails, peerVars, requestVars, outVars, Expire
<1>4. Answered
  BY <1>0, <1>3 DEF Answered, TypeInv
<1>5. TypeInv'
  <2>1. expired' \in SUBSET Conn
    BY <1>0, <1>3 DEF TypeInv, Conn
  <2> QED BY <1>0, <1>2, <1>3, <2>1 DEF TypeInv
<1>6. BatchInv'
  BY <1>0, <1>2, <1>3, BatchStep
<1>7. Quiet
  BY <1>2, <1>3 DEF Quiet, Live, IInv, Written
<1> QED BY <1>4, <1>5, <1>6, <1>7

\* The page for a client whose upstream fails, from either handler of the upstream.
LEMMA UpstreamFailsStep ==
    ASSUME IInv, NEW bit \in {"in", "out"}, Begin("back", bit), UpstreamFails,
           UNCHANGED <<msg, client, rb, outVars>>, upstream' \in PeerType,
           upstream'.taken = upstream.taken, upstream'.taken <= upstream'.wrote
    PROVE  TypeInv' /\ BatchInv' /\ Quiet /\ Answered
<1>0. TypeInv /\ BatchInv
  BY DEF IInv
<1>1. "front" \in Conn /\ "back" \in Conn /\ "in" \in {"in", "out"} /\ "out" \in {"in", "out"}
  BY DEF Conn
<1>2. /\ batch' \in Seq(Half) /\ Distinct' /\ ~over /\ phase = "batch" /\ uc
      /\ "front" \notin expired
      /\ (Pending("back", "in")' => Pending("back", "in"))
      /\ (Pending("front", "in")' => Pending("front", "in"))
      /\ (Pending("back", "out")' => Pending("back", "out"))
  BY <1>0, <1>1, HandlerFrame
<1>3. /\ UNCHANGED <<stage, counted, pon, uc, passed, delivered, over>>
      /\ sb' = sb \/ (Margin(sb) > 0 /\ sb' = Paged(sb))
      /\ on' = on \/ on' = {"out"}
      /\ phase' = phase \/ phase' = "aborted"
      /\ expired' = expired \/ expired' = expired \cup {"back"}
  BY DEF UpstreamFails, requestVars, outVars, Expire, Abort
<1>4. Answered
  BY <1>3, Zenon DEF Answered
<1>5. TypeInv'
  <2>1. IsBuffer(sb')
    BY <1>0, <1>4, AnsweredInv DEF IInv
  <2>2. /\ on' \in SUBSET {"in", "out"} /\ expired' \in SUBSET Conn
        /\ phase' \in {"wait", "batch", "aborted"}
    BY <1>0, <1>3 DEF TypeInv, Conn
  <2> QED BY <1>0, <1>2, <1>3, <2>1, <2>2 DEF TypeInv
<1>6. BatchInv'
  BY <1>0, <1>2, <1>3, BatchStep
<1>7. Quiet
  BY <1>2, <1>3 DEF Quiet, Live, IInv, Written
<1> QED BY <1>4, <1>5, <1>6, <1>7

\* sy_handle_upstream.
LEMMA UpstreamStep ==
    ASSUME IInv, HandleUpstream
    PROVE  TypeInv' /\ BatchInv' /\ Quiet /\ Answered
<1>0. TypeInv /\ BatchInv
  BY DEF IInv
<1>1. /\ Begin("back", "in") /\ "front" \in Conn /\ "back" \in Conn
      /\ "in" \in {"in", "out"} /\ "out" \in {"in", "out"}
  BY DEF HandleUpstream, Conn
<1>2. /\ batch' \in Seq(Half) /\ Distinct' /\ ~over /\ phase = "batch" /\ uc
      /\ "front" \notin expired
      /\ (Pending("back", "in")' => Pending("back", "in"))
      /\ (Pending("front", "in")' => Pending("front", "in"))
      /\ (Pending("back", "out")' => Pending("back", "out"))
  BY <1>0, <1>1, HandlerFrame
<1>3. upstream' = Took(sb, upstream) /\ UNCHANGED <<msg, client, rb, passed, delivered, over>>
  BY DEF HandleUpstream, outVars
<1>4. /\ upstream' \in PeerType /\ upstream'.taken <= upstream'.wrote
      /\ upstream.taken \in Nat /\ upstream'.taken = upstream.taken + Taken(sb, upstream)
  BY <1>0, <1>3, TakenIs DEF TypeInv, PeerType
<1>5. CASE Received(sb, upstream) \in {"AGAIN", "OK"}
  <2>1. /\ sb' = Filled(sb, upstream) /\ UNCHANGED <<stage, counted, pon, uc, phase>>
        /\ on' = on \/ on' = on \cup {"out"}
        /\ expired' = expired \ {"back"} \/ expired' = expired \cup {"back"}
    BY <1>5 DEF HandleUpstream, EnableOut, Activate, Expire, requestVars
  <2>2. Answered
    BY <1>3, <2>1 DEF Answered
  <2>3. TypeInv'
    <3>1. IsBuffer(sb')
      BY <1>0, <2>2, AnsweredInv DEF IInv
    <3>2. on' \in SUBSET {"in", "out"} /\ expired' \in SUBSET Conn
      BY <1>0, <2>1 DEF TypeInv, Conn
    <3> QED BY <1>0, <1>2, <1>3, <1>4, <2>1, <3>1, <3>2 DEF TypeInv
  <2>4. BatchInv'
    <3>1. "front" \notin expired'
      BY <1>2, <2>1
    <3> QED BY <1>0, <1>2, <1>3, <2>1, <3>1, BatchStep
  <2>5. Quiet
    BY <1>2, <1>3, <2>1 DEF Quiet, Live, IInv, Written
  <2> QED BY <2>2, <2>3, <2>4, <2>5
<1>6. CASE Received(sb, upstream) \notin {"AGAIN", "OK"}
  <2>1. UpstreamFails
    BY <1>6 DEF HandleUpstream
  <2>2. Taken(sb, upstream) = 0
    <3>1. upstream.closed \in {"no", "end", "reset"}
      BY <1>0 DEF TypeInv, PeerType
    <3> QED BY <1>6, <3>1 DEF Received, Taken
  <2>3. upstream'.taken = upstream.taken
    BY <1>4, <2>2
  <2> QED BY <1>1, <1>3, <1>4, <2>1, <2>3, UpstreamFailsStep DEF outVars
<1> QED BY <1>5, <1>6

\* sy_handle_pass, when the upstream is gone.
LEMMA PassFailsStep ==
    ASSUME IInv, PassFails
    PROVE  TypeInv' /\ BatchInv' /\ Quiet /\ Answered
<1>1. /\ Begin("back", "out") /\ UpstreamFails /\ "out" \in {"in", "out"}
      /\ UNCHANGED <<msg, client, rb, outVars>> /\ upstream' = upstream
  BY DEF PassFails, peerVars
<1>2. /\ upstream' \in PeerType /\ upstream'.taken = upstream.taken
      /\ upstream'.taken <= upstream'.wrote
  BY <1>1 DEF IInv, TypeInv
<1> QED BY <1>1, <1>2, UpstreamFailsStep

\* epoll_wait.
LEMMA WaitStep ==
    ASSUME IInv, NEW w, Wait(w)
    PROVE  TypeInv' /\ BatchInv' /\ Quiet /\ Answered
<1>0. TypeInv /\ BatchInv
  BY DEF IInv
<1>1. /\ batch' \in Seq(Half) /\ Distinct'
      /\ (Pending("front", "in")' => "in" \in on)
      /\ (Pending("back", "in")' => uc) /\ (Pending("back", "out")' => uc /\ pon)
  BY <1>0, WaitIs
<1>2. /\ UNCHANGED <<msg, client, upstream, stage, counted, on, pon, uc, rb, sb, passed, delivered,
                     over, expired>>
      /\ phase = "wait" /\ phase' = "batch" /\ ~over
  BY DEF Wait, peerVars, requestVars, outVars
<1>3. Answered
  BY <1>0, <1>2 DEF Answered, TypeInv
<1>4. TypeInv'
  BY <1>0, <1>1, <1>2 DEF TypeInv
<1>5. BatchInv'
  <2>1. uc' /\ "front" \in expired' => "back" \in expired'
    BY <1>0, <1>2 DEF BatchInv
  <2> QED BY <1>0, <1>1, <1>2, <2>1, BatchStep
<1>6. Quiet
  BY <1>1, <1>2 DEF Quiet, Live, IInv, Written
<1> QED BY <1>3, <1>4, <1>5, <1>6

\* A half of an expired connection is passed over.
LEMMA SkipStep ==
    ASSUME IInv, Skip
    PROVE  TypeInv' /\ BatchInv' /\ Quiet /\ Answered
<1>0. TypeInv /\ BatchInv
  BY DEF IInv
<1>1. /\ batch # <<>> /\ batch' = Tail(batch)
      /\ UNCHANGED <<msg, client, upstream, stage, counted, on, pon, uc, rb, sb, passed, delivered,
                     over, expired, phase>>
  BY DEF Skip, peerVars, requestVars, outVars
<1>2. /\ batch' \in Seq(Half) /\ Distinct' /\ ~over
      /\ (Pending("back", "in")' => Pending("back", "in"))
      /\ (Pending("front", "in")' => Pending("front", "in"))
      /\ (Pending("back", "out")' => Pending("back", "out"))
  <2>1. "front" \in Conn /\ "back" \in Conn /\ "in" \in {"in", "out"} /\ "out" \in {"in", "out"}
    BY DEF Conn
  <2> QED BY <1>0, <1>1, <2>1, TailOfBatch
<1>3. Answered
  BY <1>0, <1>1 DEF Answered, TypeInv
<1>4. TypeInv'
  BY <1>0, <1>1, <1>2 DEF TypeInv
<1>5. BatchInv'
  <2>1. uc' /\ "front" \in expired' => "back" \in expired'
    BY <1>0, <1>1 DEF BatchInv
  <2> QED BY <1>0, <1>1, <1>2, <2>1, BatchStep
<1>6. Quiet
  BY <1>1, <1>2 DEF Quiet, Live, IInv, Written
<1> QED BY <1>3, <1>4, <1>5, <1>6

\* sy_connection_sweep.
LEMMA SweepStep ==
    ASSUME IInv, Sweep
    PROVE  TypeInv' /\ BatchInv' /\ Quiet /\ Answered
<1>0. TypeInv /\ BatchInv
  BY DEF IInv
<1>1. /\ phase = "batch" /\ batch = <<>> /\ phase' = "wait"
      /\ UNCHANGED <<msg, client, upstream, stage, counted, on, rb, sb, batch, passed, delivered>>
  BY DEF Sweep, peerVars
<1>2. PICK gone \in SUBSET {"front", "back"} :
         /\ uc' = (uc /\ gone = {}) /\ pon' = (pon /\ gone = {})
         /\ over' = (over \/ "front" \in gone)
         /\ expired' = expired \ (gone \cup IF uc' THEN {} ELSE {"back"})
  BY DEF Sweep
<1>3. /\ (uc' => uc /\ expired' = expired) /\ (pon' => pon)
      /\ (~over' => ~over) /\ (~over' /\ "front" \notin expired' => "front" \notin expired)
      /\ (over' => ~uc') /\ expired' \in SUBSET Conn
      /\ uc' \in BOOLEAN /\ pon' \in BOOLEAN /\ over' \in BOOLEAN
  BY <1>0, <1>2 DEF BatchInv, TypeInv
<1>4. Answered
  BY <1>0, <1>1 DEF Answered, TypeInv
<1>5. TypeInv'
  BY <1>0, <1>1, <1>3 DEF TypeInv
<1>6. /\ Distinct' /\ ~Pending("back", "in")' /\ ~Pending("back", "out")'
      /\ ~Pending("front", "in")'
  <2>1. Len(batch') = 0
    BY <1>1, EmptySeq
  <2>2. \A i \in 1 .. Len(batch') : FALSE
    BY <2>1
  <2> QED BY <2>2, Zenon DEF Distinct, Pending
<1>7. BatchInv'
  BY <1>0, <1>1, <1>3, <1>6 DEF BatchInv
<1>8. Quiet
  BY <1>1, <1>3, <1>6 DEF Quiet, Live, IInv, Written
<1> QED BY <1>4, <1>5, <1>7, <1>8

\* The peers write and close.
LEMMA PeersStep ==
    ASSUME IInv, Peers
    PROVE  TypeInv' /\ BatchInv' /\ Quiet /\ Answered
<1>0. TypeInv /\ BatchInv /\ client \in PeerType /\ upstream \in PeerType
  BY DEF IInv, TypeInv
<1>1. UNCHANGED <<msg, stage, counted, on, pon, uc, rb, sb, expired, batch, phase,
                  passed, delivered, over>>
  BY DEF Peers, requestVars, outVars
<1>2. /\ client.taken \in Nat /\ client.wrote \in Nat /\ client.taken <= client.wrote
      /\ upstream.taken \in Nat /\ upstream.wrote \in Nat /\ upstream.taken <= upstream.wrote
      /\ msg.head + msg.length \in Nat /\ client.wrote <= msg.head + msg.length
  BY <1>0, MessageIs DEF IInv, TypeInv, PeerType, Written
<1>3. /\ client' \in PeerType /\ client'.taken = client.taken
      /\ client'.taken <= client'.wrote /\ client'.wrote <= msg.head + msg.length
      /\ upstream' \in PeerType /\ upstream'.taken = upstream.taken
      /\ upstream'.taken <= upstream'.wrote
  <2>1. CASE ClientWrites
    BY <1>0, <1>2, <2>1 DEF ClientWrites, PeerType
  <2>2. CASE UpstreamWrites
    BY <1>0, <1>2, <2>2 DEF UpstreamWrites, PeerType
  <2>3. CASE Closes
    BY <1>0, <1>2, <2>3 DEF Closes, PeerType
  <2> QED BY <2>1, <2>2, <2>3 DEF Peers
<1>4. Answered
  BY <1>1, <1>3 DEF Answered
<1>5. TypeInv'
  BY <1>0, <1>1, <1>3 DEF TypeInv
<1>6. Distinct' /\ \A c, bit : Pending(c, bit)' <=> Pending(c, bit)
  BY <1>0, <1>1 DEF BatchInv, Distinct, Pending
<1>7. BatchInv'
  <2>1. over' => batch' = <<>> /\ ~uc'
    BY <1>0, <1>1 DEF BatchInv
  <2>2. uc' /\ "front" \in expired' => "back" \in expired'
    BY <1>0, <1>1 DEF BatchInv
  <2> QED BY <1>0, <1>1, <1>6, <2>1, <2>2, BatchStep
<1>8. Quiet
  <2>1. Written'
    BY <1>1, <1>3 DEF Written
  <2> QED BY <1>1, <1>3, <1>6, <2>1 DEF Quiet, Live
<1> QED BY <1>4, <1>5, <1>7, <1>8

\* sy_handle_pass is the only step that gives the upstream bytes.
LEMMA PassStep ==
    ASSUME IInv, NEW n \in 0 .. Buf, HandlePass(n)
    PROVE  IInv'
<1>0. TypeInv /\ BatchInv /\ StageInv
  BY DEF IInv
<1>1. /\ Begin("back", "out") /\ "front" \in Conn /\ "back" \in Conn
      /\ "in" \in {"in", "out"} /\ "out" \in {"in", "out"}
  BY DEF HandlePass, Conn
<1>2. /\ batch' \in Seq(Half) /\ Distinct' /\ ~over /\ phase = "batch" /\ uc
      /\ "front" \notin expired
      /\ (Pending("back", "in")' => Pending("back", "in"))
      /\ (Pending("front", "in")' => Pending("front", "in"))
      /\ (Pending("back", "out")' => Pending("back", "out"))
      /\ Pending("back", "out")
  BY <1>0, <1>1, HandlerFrame
<1>3. /\ n \in 0 .. Len(Rest(rb)) /\ rb' = Sent(rb, n)
      /\ passed' = passed \o SubSeq(Rest(rb), 1, n)
      /\ on' = (IF rb' = Empty THEN on \cup {"in"} ELSE on)
      /\ pon' = (IF rb' = Empty THEN FALSE ELSE pon)
      /\ UNCHANGED <<msg, client, upstream, stage, counted, sb, uc, delivered, over, phase>>
      /\ expired' = expired \ {"back"}
  BY DEF HandlePass, peerVars, Activate, EnableIn
<1> DEFINE p == SubSeq(Rest(rb), 1, n)
           r == Rest(rb')
<1>4. IsBuffer(rb') /\ p \in Seq(Nat) /\ Rest(rb) = p \o r
  BY <1>0, <1>3, SentIs DEF TypeInv
<1>5. r \in Seq(Nat) /\ passed \in Seq(Nat)
  BY <1>0, <1>4, RestIs DEF TypeInv
<1>6. stage \in {"body", "done"}
  BY <1>0, <1>2 DEF StageInv
<1>7. TypeInv'
  <2>1. passed' \in Seq(Nat)
    BY <1>3, <1>4, <1>5, ConcatProperties
  <2>2. on' \in SUBSET {"in", "out"} /\ pon' \in BOOLEAN /\ expired' \in SUBSET Conn
    BY <1>0, <1>3 DEF TypeInv
  <2> QED BY <1>0, <1>2, <1>3, <1>4, <2>1, <2>2 DEF TypeInv
<1>8. BatchInv'
  <2>1. "front" \notin expired'
    BY <1>2, <1>3
  <2> QED BY <1>0, <1>2, <1>3, <2>1, BatchStep
<1>9. StageInv'
  <2>1. "in" \in on' => "in" \in on \/ rb' = Empty
    BY <1>3
  <2>2. rb = Empty => rb' = Empty
    <3>1. Len(<<>>) = 0 /\ Rest(Empty) = <<>>
      BY EmptyIs, EmptySeq
    <3> QED BY <1>3, <3>1 DEF Sent
  <2>3. Live
    BY <1>2 DEF Live
  <2>4. uc /\ stage \in {"body", "done"} /\ ("in" \in on \/ Pending("front", "in")) => rb = Empty
    BY <1>0, <2>3 DEF StageInv
  <2>5. uc' /\ Live' /\ stage' \in {"body", "done"} /\ ("in" \in on' \/ Pending("front", "in")')
           => rb' = Empty
    BY <1>2, <1>3, <2>1, <2>2, <2>4
  <2> QED BY <1>3, <1>6, <2>5 DEF StageInv
<1>10. RequestKept'
  <2>1. passed \o Rest(rb) = Bytes(client.taken)
    BY <1>2, <1>6 DEF IInv, RequestKept
  <2> HIDE DEF p, r
  <2>2. (passed \o p) \o r = passed \o (p \o r)
    BY <1>4, <1>5, Associative, Zenon
  <2>3. passed' = passed \o p
    BY <1>3 DEF p
  <2>4. passed' \o r = Bytes(client.taken)
    BY <1>4, <2>1, <2>2, <2>3, Zenon
  <2> QED BY <1>3, <1>6, <2>4 DEF RequestKept, r
<1>11. Written' /\ ReplyKept' /\ BodyCounted'
  BY <1>2, <1>3 DEF IInv, Written, ReplyKept, BodyCounted
<1> QED BY <1>7, <1>8, <1>9, <1>10, <1>11 DEF IInv

\* sy_handle_request.
LEMMA RequestStep ==
    ASSUME IInv, HandleRequest
    PROVE  IInv'
<1>0. /\ TypeInv /\ BatchInv /\ StageInv /\ Written /\ RequestKept /\ ReplyKept /\ BodyCounted
  BY DEF IInv
<1> DEFINE b == Filled(rb, client)
           q == NextBytes(client.taken, Taken(rb, client))
           t == Taken(rb, client)
<1>1. Arrived(b, q, t)
  BY <1>0, RequestArrived
<1>2. TypeInv' /\ BatchInv'
  BY <1>0, RequestType, RequestBatch
<1>3. UNCHANGED <<msg, upstream, delivered>> /\ client'.wrote = client.wrote
  BY <1>0, RequestFrame, TakenIs DEF TypeInv
<1> HIDE DEF b, q, t
<1>4. StageInv' /\ RequestKept' /\ BodyCounted'
  BY <1>0, <1>1, RequestStage, RequestRequestKept, RequestBodyCounted
<1>5. sb' = sb \/ (Margin(sb) > 0 /\ sb' = Paged(sb))
  BY <1>0, <1>1, OutcomeBuffers DEF Arrived
<1>6. ReplyKept' /\ Written'
  BY <1>0, <1>3, <1>5, ReplySame DEF Written
<1> QED BY <1>2, <1>4, <1>6 DEF IInv

-------------------------------------------------------------------------------
(* The invariant and its theorems.                                         *)

\* Nothing has been received, and nothing is pending.
LEMMA InitInv == Init => IInv
<1> SUFFICES ASSUME Init
             PROVE  IInv
  OBVIOUS
<1>1. <<>> \in Seq(Half) /\ <<>> \in Seq(Nat) /\ Len(<<>>) = 0 /\ IsBuffer(Empty)
  BY EmptySeq, EmptyIs
<1>2. TypeInv
  <2>1. Peer \in PeerType /\ Peer.taken <= Peer.wrote
    BY DEF Peer, PeerType
  <2> QED BY <1>1, <2>1 DEF Init, TypeInv, Conn
<1>3. \A i \in 1 .. Len(batch) : FALSE
  BY <1>1 DEF Init
<1>4. BatchInv
  BY <1>3 DEF Init, BatchInv, Distinct, Pending
<1>5. StageInv
  BY <1>3 DEF Init, StageInv, Pending, Peer
<1>6. Written
  BY <1>2, MessageIs DEF Init, Written, Peer
<1>7. RequestKept /\ BodyCounted
  BY DEF Init, RequestKept, BodyCounted
<1>8. ReplyKept
  <2>1. Unpaged(Rest(sb)) = <<>> /\ delivered = <<>> /\ upstream.taken = 0
    BY EmptyIs, UnpagedEmpty DEF Init, Peer
  <2>2. Bytes(0) = <<>> /\ <<>> \o <<>> = <<>>
    BY <1>1, ConcatEmptySeq DEF Bytes
  <2> QED BY <2>1, <2>2 DEF ReplyKept
<1> QED BY <1>2, <1>4, <1>5, <1>6, <1>7, <1>8 DEF IInv

\* Every step of the loop and of the peers.
LEMMA NextInv ==
    ASSUME IInv, [Next]_vars
    PROVE  IInv'
<1>1. ASSUME TypeInv' /\ BatchInv' /\ Quiet /\ Answered
      PROVE  IInv'
  <2>1. StageInv' /\ RequestKept' /\ BodyCounted'
    BY <1>1, QuietInv DEF IInv
  <2>2. ReplyKept'
    BY <1>1, AnsweredInv DEF IInv
  <2> QED BY <1>1, <2>1, <2>2 DEF IInv, Quiet
<1>2. CASE \E w \in SUBSET {"front", "back"} : Wait(w)
  BY <1>1, <1>2, WaitStep
<1>3. CASE HandleRequest
  BY <1>3, RequestStep
<1>4. CASE Sends
  BY <1>1, <1>4, ResponseStep DEF Sends
<1>5. CASE ResponseFails
  BY <1>1, <1>5, ResponseFailsStep
<1>6. CASE HandleUpstream
  BY <1>1, <1>6, UpstreamStep
<1>7. CASE Passes
  BY <1>7, PassStep DEF Passes
<1>8. CASE PassFails
  BY <1>1, <1>8, PassFailsStep
<1>9. CASE Skip
  BY <1>1, <1>9, SkipStep
<1>10. CASE Sweep
  BY <1>1, <1>10, SweepStep
<1>11. CASE Peers
  BY <1>1, <1>11, PeersStep
<1>12. CASE UNCHANGED vars
  <2>1. UNCHANGED <<msg, client, upstream, stage, counted, rb, sb, on, pon, uc, expired, batch,
                    phase, passed, delivered, over>>
    BY <1>12 DEF vars
  <2>2. /\ TypeInv' /\ BatchInv' /\ StageInv'
    BY <2>1 DEF IInv, TypeInv, BatchInv, StageInv, Distinct, Pending, Live
  <2>3. Written' /\ RequestKept' /\ ReplyKept' /\ BodyCounted'
    BY <2>1 DEF IInv, Written, RequestKept, ReplyKept, BodyCounted
  <2> QED BY <2>2, <2>3 DEF IInv
<1> QED
  BY <1>2, <1>3, <1>4, <1>5, <1>6, <1>7, <1>8, <1>9, <1>10, <1>11, <1>12 DEF Next, Loop

\* The inductive invariant holds always.
LEMMA InductiveInv == Spec => []IInv
  BY InitInv, NextInv, PTL DEF Spec

\* While the upstream is there, no byte that sy_buffer_recv took of a request is lost, doubled
\* or moved by sy_request_handle_*, Rewound and sy_handle_pass.
THEOREM RequestKeptHolds == Spec => []RequestKept
  BY InductiveInv, PTL DEF IInv

\* No byte that sy_handle_upstream took of an answer is lost, doubled or moved by
\* sy_buffer_send, whatever pages come between them, even when the upstream is gone.
THEOREM ReplyKeptHolds == Spec => []ReplyKept
  BY InductiveInv, PTL DEF IInv

\* r->body_received is what was received behind the headers, and a request is done when it
\* is all of content_length.
THEOREM BodyCountedHolds == Spec => []BodyCounted
  BY InductiveInv, PTL DEF IInv

-------------------------------------------------------------------------------
(* The refinement of Stream.                                               *)

\* A prefix of a stream that grows by the next bytes extends the one before.
LEMMA ExtendsIs ==
    ASSUME NEW s \in Seq(Nat), NEW p \in Seq(Nat), NEW r \in Seq(Nat), NEW n \in Nat,
           (s \o p) \o r = Bytes(n)
    PROVE  S!Extends(s, s \o p)
<1> DEFINE t == s \o p
<1>1. Len(s) \in Nat /\ Len(p) \in Nat
  BY LenProperties
<1>2. /\ t \in Seq(Nat) /\ Len(t) = Len(s) + Len(p)
      /\ \A i \in 1 .. Len(s) + Len(p) : t[i] = IF i <= Len(s) THEN s[i] ELSE p[i - Len(s)]
  BY ConcatProperties
<1> HIDE DEF t
<1>3. \A i \in 1 .. Len(t) : t[i] = i
  BY <1>2, BytesPrefix DEF t
<1>4. \A i \in 1 .. Len(t) : t[i] = IF i <= Len(s) THEN s[i] ELSE i
  BY <1>1, <1>2, <1>3
<1>5. t = [i \in 1 .. Len(t) |-> t[i]]
  BY <1>2
<1>6. t = [i \in 1 .. Len(t) |-> IF i <= Len(s) THEN s[i] ELSE i]
  BY <1>4, <1>5
<1>7. Len(s) <= Len(t)
  BY <1>1, <1>2
<1> QED BY <1>6, <1>7 DEF S!Extends, t

\* It extends itself.
LEMMA ExtendsSame ==
    ASSUME NEW s \in Seq(Nat)
    PROVE  S!Extends(s, s)
<1>1. Len(s) \in Nat
  BY LenProperties
<1>2. s = [i \in 1 .. Len(s) |-> s[i]]
  OBVIOUS
<1> QED BY <1>1, <1>2 DEF S!Extends

\* sy_handle_pass gives the upstream the next bytes of the request.
LEMMA PassGives ==
    ASSUME IInv, IInv', NEW n \in 0 .. Buf, HandlePass(n)
    PROVE  S!Pass
<1>0. TypeInv /\ BatchInv /\ StageInv /\ TypeInv' /\ RequestKept'
  BY DEF IInv
<1>1. /\ Begin("back", "out") /\ "back" \in Conn /\ "out" \in {"in", "out"}
  BY DEF HandlePass, Conn
<1>2. ~over /\ phase = "batch" /\ "front" \notin expired /\ uc /\ Pending("back", "out")
  BY <1>0, <1>1, HandlerFrame
<1>3. stage \in {"body", "done"}
  BY <1>0, <1>2 DEF StageInv
<1>4. /\ n \in 0 .. Len(Rest(rb))
      /\ passed' = passed \o SubSeq(Rest(rb), 1, n)
      /\ UNCHANGED <<client, stage, uc, delivered, over, phase>>
      /\ expired' = expired \ {"back"}
  BY DEF HandlePass, peerVars, Activate
<1> DEFINE p == SubSeq(Rest(rb), 1, n)
<1>5. p \in Seq(Nat) /\ passed \in Seq(Nat) /\ Rest(rb') \in Seq(Nat) /\ client.taken \in Nat
  BY <1>0, <1>4, SentIs, RestIs DEF TypeInv, PeerType
<1>6. passed' \o Rest(rb') = Bytes(client.taken)
  BY <1>0, <1>2, <1>3, <1>4 DEF RequestKept
<1> HIDE DEF p
<1>7. passed' = passed \o p
  BY <1>4 DEF p
<1>8. S!Extends(passed, passed')
  BY <1>5, <1>6, <1>7, ExtendsIs
<1> QED BY <1>2, <1>4, <1>8 DEF S!Pass

\* sy_send_response_buffer gives the client the next bytes of the answer.
LEMMA ResponseGives ==
    ASSUME IInv, IInv', NEW n \in 0 .. Buf, HandleResponse(n)
    PROVE  S!Deliver
<1>0. TypeInv /\ BatchInv /\ TypeInv' /\ ReplyKept'
  BY DEF IInv
<1>1. Begin("front", "out") /\ "front" \in Conn /\ "out" \in {"in", "out"}
  BY DEF HandleResponse, Conn
<1>2. ~over
  BY <1>0, <1>1, HandlerFrame
<1>3. /\ n \in 0 .. Len(Rest(sb))
      /\ delivered' = delivered \o Unpaged(SubSeq(Rest(sb), 1, n))
      /\ passed' = passed
  BY DEF HandleResponse
<1> DEFINE p == Unpaged(SubSeq(Rest(sb), 1, n))
           r == Unpaged(Rest(sb'))
<1>4. SubSeq(Rest(sb), 1, n) \in Seq(Nat) /\ Rest(sb') \in Seq(Nat)
  BY <1>0, <1>3, SentIs, RestIs DEF TypeInv
<1>5. /\ p \in Seq(Nat) /\ r \in Seq(Nat) /\ delivered \in Seq(Nat) /\ over' \in BOOLEAN
      /\ upstream'.taken \in Nat
  BY <1>0, <1>4, UnpagedType DEF TypeInv, PeerType
<1>6. delivered' \o r = Bytes(upstream'.taken)
  BY <1>0 DEF ReplyKept
<1> HIDE DEF p, r
<1>7. delivered' = delivered \o p
  BY <1>3 DEF p
<1>8. S!Extends(delivered, delivered')
  BY <1>5, <1>6, <1>7, ExtendsIs
<1> QED BY <1>2, <1>3, <1>5, <1>8 DEF S!Deliver

\* sy_connection_sweep ends the exchange, and gives nothing.
LEMMA SweepGives ==
    ASSUME IInv, IInv', Sweep
    PROVE  [S!Next]_(S!vars)
<1>1. delivered \in Seq(Nat) /\ over \in BOOLEAN /\ over' \in BOOLEAN
  BY DEF IInv, TypeInv
<1>2. delivered' = delivered /\ passed' = passed /\ (over => over')
  BY DEF Sweep
<1>3. CASE over
  BY <1>1, <1>2, <1>3 DEF S!vars
<1>4. CASE ~over
  <2>1. S!Deliver
    BY <1>1, <1>2, <1>4, ExtendsSame DEF S!Deliver
  <2> QED BY <2>1 DEF S!Next
<1> QED BY <1>3, <1>4

\* Every step gives the next bytes to one of the two, or nothing.
LEMMA StreamStep ==
    ASSUME IInv, IInv', [Next]_vars
    PROVE  [S!Next]_(S!vars)
<1>1. CASE HandleRequest
  <2>1. TypeInv /\ BatchInv /\ StageInv
    BY DEF IInv
  <2> QED BY <1>1, <2>1, RequestFrame DEF S!vars
<1>2. CASE Sends
  BY <1>2, ResponseGives DEF Sends, S!Next
<1>3. CASE Passes
  BY <1>3, PassGives DEF Passes, S!Next
<1>4. CASE Sweep
  BY <1>4, SweepGives
<1>5. CASE UNCHANGED outVars
  BY <1>5 DEF outVars, S!vars
<1>6. \/ \E w \in SUBSET {"front", "back"} : Wait(w)
      \/ ResponseFails \/ HandleUpstream \/ PassFails \/ Skip \/ Peers \/ UNCHANGED vars
      => UNCHANGED outVars
  BY DEF Wait, ResponseFails, HandleUpstream, PassFails, Skip, Peers, vars, outVars
<1> QED BY <1>1, <1>2, <1>3, <1>4, <1>5, <1>6 DEF Next, Loop

\* The exchange implements Stream: each peer is given the bytes of the other in order, none
\* twice and none left out, and nothing any more after its end.
THEOREM StreamRefined == Spec => StreamSpec
<1>1. Init => S!Init
  BY DEF Init, S!Init
<1>2. IInv /\ IInv' /\ [Next]_vars => [S!Next]_(S!vars)
  BY StreamStep
<1> QED BY <1>1, <1>2, InductiveInv, PTL DEF Spec, StreamSpec, S!Spec
===============================================================================
