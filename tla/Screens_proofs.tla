---------------------------- MODULE Screens_proofs ----------------------------
(* Proofs about Screens for any pages whose rules have the habits that     *)
(* ScreenHabits assumes, and any number of answers under way.              *)
EXTENDS ScreenHabits, WellFoundedInduction, TLAPS

-----------------------------------------------------------------------------
(* Induction over the natural numbers, for sets instead of predicates.     *)

LEMMA LeastOf ==
    ASSUME NEW T, NEW R, T \subseteq Nat,
           \A x, y \in Nat : x < y => <<x, y>> \in R,
           \E x \in T : \A y \in T : ~ (<<y, x>> \in R)
    PROVE  \E x \in T : \A y \in T : x <= y
<1>1. PICK x \in T : \A y \in T : ~ (<<y, x>> \in R)
  OBVIOUS
<1>2. ASSUME NEW y \in T  PROVE x <= y
  <2>1. x \in Nat /\ y \in Nat
    OBVIOUS
  <2>2. ~ (y < x)
    BY <1>1, <2>1
  <2> QED
    BY <2>1, <2>2
<1> QED
  BY <1>2

\* Every set of naturals has a least member.
LEMMA LeastNatural ==
    ASSUME NEW T, T \subseteq Nat, T # {}
    PROVE  \E x \in T : \A y \in T : x <= y
<1>1. IsWellFoundedOn(OpToRel(<, Nat), Nat)
  BY NatLessThanWellFounded
<1>2. \E x \in T : \A y \in T : ~ (<<y, x>> \in OpToRel(<, Nat))
  BY <1>1, WFMin
<1>3. \A x, y \in Nat : x < y => <<x, y>> \in OpToRel(<, Nat)
  BY DEF OpToRel
<1> QED
  BY <1>2, <1>3, LeastOf

\* A set that has 0 and with each number the next one has them all.
LEMMA SetInduction ==
    ASSUME NEW T, 0 \in T, \A n \in Nat : n \in T => n + 1 \in T
    PROVE  Nat \subseteq T
<1> SUFFICES ASSUME Nat \ T # {}  PROVE FALSE
  OBVIOUS
<1>1. PICK x \in Nat \ T : \A y \in Nat \ T : x <= y
  BY LeastNatural
<1>2. x # 0
  OBVIOUS
<1>3. x - 1 \in Nat /\ x - 1 \in T
  BY <1>1, <1>2
<1> QED
  BY <1>3

-----------------------------------------------------------------------------
(* Queues of requests, and of dialogs.                                     *)

\* A queue is what is left of the first n of another one.
PartUpTo(part, queue, n) ==
    \E e \in [1 .. Len(part) -> 1 .. n] :
        /\ \A i \in 1 .. Len(part) : part[i] = queue[e[i]]
        /\ \A i, j \in 1 .. Len(part) : i < j => e[i] < e[j]

PartOf(part, queue) == PartUpTo(part, queue, Len(queue))

\* What the recursion of Only is, step by step, up to n.
OnlyStep(queue, S, G, n) ==
    G = [m \in 0 .. n |->
            IF m = 0 THEN <<>>
            ELSE IF queue[m] \in S THEN Append(G[m - 1], queue[m]) ELSE G[m - 1]]

LEMMA OnlyStepAt ==
    ASSUME NEW queue, NEW S, NEW G, NEW n \in Nat, OnlyStep(queue, S, G, n), NEW m \in 1 .. n
    PROVE  /\ G[0] = <<>>
           /\ G[m] = IF queue[m] \in S THEN Append(G[m - 1], queue[m]) ELSE G[m - 1]
<1> DEFINE f(x) == IF x = 0 THEN <<>>
                   ELSE IF queue[x] \in S THEN Append(G[x - 1], queue[x]) ELSE G[x - 1]
<1>1. G = [x \in 0 .. n |-> f(x)]
  BY DEF OnlyStep
<1>2. m \in 0 .. n /\ 0 \in 0 .. n /\ m # 0
  OBVIOUS
<1>3. f(0) = <<>>
  OBVIOUS
<1>4. f(m) = IF queue[m] \in S THEN Append(G[m - 1], queue[m]) ELSE G[m - 1]
  BY <1>2
<1> HIDE DEF f
<1>5. G[0] = f(0) /\ G[m] = f(m)
  BY <1>1, <1>2
<1> QED
  BY <1>3, <1>4, <1>5

LEMMA OnlyUnfolds ==
    ASSUME NEW queue, NEW S, Len(queue) \in Nat
    PROVE  \E G : OnlyStep(queue, S, G, Len(queue)) /\ Only(queue, S) = G[Len(queue)]
<1> DEFINE T == {n \in Nat : \E G : OnlyStep(queue, S, G, n)}
<1>1. 0 \in T
  <2>1. OnlyStep(queue, S, [m \in 0 .. 0 |-> <<>>], 0)
    BY DEF OnlyStep
  <2> QED
    BY <2>1
<1>2. ASSUME NEW n \in Nat, n \in T  PROVE n + 1 \in T
  <2>1. PICK G : OnlyStep(queue, S, G, n)
    BY <1>2
  <2> DEFINE next == IF queue[n + 1] \in S THEN Append(G[n], queue[n + 1]) ELSE G[n]
             H == [m \in 0 .. n + 1 |-> IF m = n + 1 THEN next ELSE G[m]]
  <2>2. OnlyStep(queue, S, H, n + 1)
    <3>1. H[0] = <<>>
      BY <2>1 DEF OnlyStep
    <3>2. ASSUME NEW m \in 1 .. n + 1
          PROVE  H[m] = IF queue[m] \in S THEN Append(H[m - 1], queue[m]) ELSE H[m - 1]
      <4>1. CASE m = n + 1
        BY <4>1
      <4>2. CASE m # n + 1
        <5>1. m \in 1 .. n /\ m - 1 \in 0 .. n /\ m \in 0 .. n
          BY <4>2
        <5>2. G[m] = IF queue[m] \in S THEN Append(G[m - 1], queue[m]) ELSE G[m - 1]
          BY <2>1, <5>1, OnlyStepAt
        <5>3. H[m] = G[m] /\ H[m - 1] = G[m - 1]
          BY <5>1
        <5> QED
          BY <5>2, <5>3
      <4> QED
        BY <4>1, <4>2
    <3>3. H = [m \in 0 .. n + 1 |->
                  IF m = 0 THEN <<>>
                  ELSE IF queue[m] \in S THEN Append(H[m - 1], queue[m]) ELSE H[m - 1]]
      <4>1. \A m \in 0 .. n + 1 :
               H[m] = IF m = 0 THEN <<>>
                      ELSE IF queue[m] \in S THEN Append(H[m - 1], queue[m]) ELSE H[m - 1]
        <5> HIDE DEF H
        <5> TAKE m \in 0 .. n + 1
        <5>1. m = 0 \/ m \in 1 .. n + 1
          OBVIOUS
        <5>2. m \in 1 .. n + 1 => m # 0
          OBVIOUS
        <5> QED
          BY <3>1, <3>2, <5>1, <5>2
      <4>2. H = [m \in 0 .. n + 1 |-> H[m]]
        OBVIOUS
      <4> HIDE DEF H
      <4> QED
        BY <4>1, <4>2
    <3> QED
      BY <3>3 DEF OnlyStep
  <2> QED
    BY <2>2
<1>3. Len(queue) \in T
  <2>1. Nat \subseteq T
    <3> HIDE DEF T
    <3> QED
      BY <1>1, <1>2, SetInduction
  <2> QED
    BY <2>1
<1>4. PICK G : OnlyStep(queue, S, G, Len(queue))
  BY <1>3
<1> DEFINE F == CHOOSE F : OnlyStep(queue, S, F, Len(queue))
<1>5. OnlyStep(queue, S, F, Len(queue))
  BY <1>4
<1>6. Only(queue, S) = F[Len(queue)]
  BY DEF Only, OnlyStep
<1> QED
  BY <1>5, <1>6


\* One more of the queue is kept.
LEMMA PartGrows ==
    ASSUME NEW T, NEW queue \in Seq(T), NEW n \in Nat, n + 1 <= Len(queue),
           NEW part \in Seq(T), PartUpTo(part, queue, n)
    PROVE  PartUpTo(Append(part, queue[n + 1]), queue, n + 1)
<1> DEFINE more == Append(part, queue[n + 1])
<1>1. PICK e \in [1 .. Len(part) -> 1 .. n] :
         /\ \A i \in 1 .. Len(part) : part[i] = queue[e[i]]
         /\ \A i, j \in 1 .. Len(part) : i < j => e[i] < e[j]
  BY DEF PartUpTo
<1>2. /\ Len(part) \in Nat /\ Len(more) = Len(part) + 1
      /\ \A i \in 1 .. Len(part) : more[i] = part[i]
      /\ more[Len(part) + 1] = queue[n + 1]
  OBVIOUS
<1> DEFINE g == [i \in 1 .. Len(part) + 1 |-> IF i = Len(part) + 1 THEN n + 1 ELSE e[i]]
<1>3. \A i \in 1 .. Len(part) : g[i] = e[i] /\ e[i] \in 1 .. n
  BY <1>2
<1>4. g[Len(part) + 1] = n + 1
  BY <1>2
<1>5. g \in [1 .. Len(part) + 1 -> 1 .. n + 1]
  <2>1. ASSUME NEW i \in 1 .. Len(part) + 1  PROVE g[i] \in 1 .. n + 1
    <3> HIDE DEF g
    <3>1. i \in 1 .. Len(part) \/ i = Len(part) + 1
      BY <1>2
    <3> QED
      BY <1>3, <1>4, <3>1
  <2> QED
    BY <2>1
<1> HIDE DEF g, more
<1>6. ASSUME NEW i \in 1 .. Len(part) + 1  PROVE more[i] = queue[g[i]]
  <2>1. i \in 1 .. Len(part) \/ i = Len(part) + 1
    BY <1>2
  <2> QED
    BY <1>1, <1>2, <1>3, <1>4, <2>1
<1>7. ASSUME NEW i \in 1 .. Len(part) + 1, NEW j \in 1 .. Len(part) + 1, i < j
      PROVE  g[i] < g[j]
  <2>1. i \in 1 .. Len(part)
    BY <1>2, <1>7
  <2>2. j \in 1 .. Len(part) \/ j = Len(part) + 1
    BY <1>2
  <2> QED
    BY <1>1, <1>2, <1>3, <1>4, <1>7, <2>1, <2>2
<1>8. PartUpTo(more, queue, n + 1)
  BY <1>2, <1>5, <1>6, <1>7 DEF PartUpTo
<1> QED
  BY <1>8 DEF more

\* None of the next one is kept.
LEMMA PartStays ==
    ASSUME NEW part, NEW queue, NEW n \in Nat, PartUpTo(part, queue, n)
    PROVE  PartUpTo(part, queue, n + 1)
<1>1. PICK e \in [1 .. Len(part) -> 1 .. n] :
         /\ \A i \in 1 .. Len(part) : part[i] = queue[e[i]]
         /\ \A i, j \in 1 .. Len(part) : i < j => e[i] < e[j]
  BY DEF PartUpTo
<1>2. e \in [1 .. Len(part) -> 1 .. n + 1]
  OBVIOUS
<1> QED
  BY <1>1, <1>2 DEF PartUpTo

\* What Only keeps is in S, and is part of the queue in the order of the queue.
LEMMA OnlyKeeps ==
    ASSUME NEW T, NEW queue \in Seq(T), NEW S
    PROVE  /\ Only(queue, S) \in Seq(T)
           /\ PartOf(Only(queue, S), queue)
           /\ \A i \in 1 .. Len(Only(queue, S)) : Only(queue, S)[i] \in S
<1>1. Len(queue) \in Nat
  OBVIOUS
<1>2. PICK G : OnlyStep(queue, S, G, Len(queue)) /\ Only(queue, S) = G[Len(queue)]
  BY <1>1, OnlyUnfolds
<1> DEFINE Good(part, n) ==
              /\ part \in Seq(T)
              /\ PartUpTo(part, queue, n)
              /\ \A i \in 1 .. Len(part) : part[i] \in S
           U == {n \in Nat : n <= Len(queue) => Good(G[n], n)}
<1>3. 0 \in U
  <2>1. Len(queue) = 0 => G[0] = <<>>
    <3>1. G = [m \in 0 .. Len(queue) |->
                 IF m = 0 THEN <<>>
                 ELSE IF queue[m] \in S THEN Append(G[m - 1], queue[m]) ELSE G[m - 1]]
      BY <1>2 DEF OnlyStep
    <3>2. 0 \in 0 .. Len(queue)
      BY <1>1
    <3> QED
      BY <3>1, <3>2
  <2>2. G[0] = <<>>
    <3>1. CASE Len(queue) > 0
      <4>1. 1 \in 1 .. Len(queue)
        BY <1>1, <3>1
      <4> QED
        BY <1>1, <1>2, <4>1, OnlyStepAt
    <3> QED
      BY <1>1, <2>1, <3>1
  <2>3. PartUpTo(<<>>, queue, 0)
    <3>1. PICK e : e = [i \in 1 .. 0 |-> 0]
      OBVIOUS
    <3>2. Len(<<>>) = 0 /\ 1 .. 0 = {}
      OBVIOUS
    <3>3. e \in [1 .. Len(<<>>) -> 1 .. 0]
      BY <3>1, <3>2
    <3> QED
      BY <3>2, <3>3 DEF PartUpTo
  <2>4. Good(<<>>, 0)
    BY <2>3
  <2> HIDE DEF Good
  <2> QED
    BY <2>2, <2>4
<1>4. ASSUME NEW n \in Nat, n \in U  PROVE n + 1 \in U
  <2> SUFFICES ASSUME n + 1 <= Len(queue)  PROVE Good(G[n + 1], n + 1)
    OBVIOUS
  <2>1. n + 1 \in 1 .. Len(queue) /\ (n + 1) - 1 = n
    BY <1>1
  <2>2. G[n + 1] = IF queue[n + 1] \in S THEN Append(G[n], queue[n + 1]) ELSE G[n]
    BY <1>1, <1>2, <2>1, OnlyStepAt
  <2>3. Good(G[n], n)
    BY <1>1, <1>4, <2>1
  <2>4. CASE queue[n + 1] \in S
    <3>1. queue[n + 1] \in T
      BY <2>1
    <3>2. Append(G[n], queue[n + 1]) \in Seq(T)
      BY <2>3, <3>1
    <3>3. PartUpTo(Append(G[n], queue[n + 1]), queue, n + 1)
      BY <2>3, PartGrows
    <3>4. \A i \in 1 .. Len(Append(G[n], queue[n + 1])) : Append(G[n], queue[n + 1])[i] \in S
      BY <2>3, <2>4
    <3> QED
      BY <2>2, <2>4, <3>2, <3>3, <3>4
  <2>5. CASE queue[n + 1] \notin S
    <3>1. PartUpTo(G[n], queue, n + 1)
      BY <2>3, PartStays
    <3> QED
      BY <2>2, <2>3, <2>5, <3>1
  <2> QED
    BY <2>4, <2>5
<1>5. Len(queue) \in U
  <2>1. Nat \subseteq U
    <3> HIDE DEF U
    <3> QED
      BY <1>3, <1>4, SetInduction
  <2> QED
    BY <1>1, <2>1
<1>6. Good(G[Len(queue)], Len(queue))
  BY <1>1, <1>5
<1> QED
  BY <1>2, <1>6 DEF PartOf

-----------------------------------------------------------------------------
(* What the properties ask of the requests of a load that are under way.   *)

\* The effects of an answer, or of a failure, in the rules of a load.
Result(load, request, kind) ==
    IF request.again THEN (CHOOSE effects \in load.again : TRUE)[kind] ELSE load[kind]

Lowers(load, request) ==
    "unspin" \in Result(load, request, "done") /\ "unspin" \in Result(load, request, "fail")

\* One of the requests takes the flag down, whatever becomes of it.
WillLower(load, queue) == \E i \in 1 .. Len(queue) : Lowers(load, queue[i])

\* One of the requests is younger than every change of the user's.
HasFresh(queue) == \E i \in 1 .. Len(queue) : ~ queue[i].old

\* The answer of one may miss a change, and is not known to be overtaken.
Doubtful(queue) == \E i \in 1 .. Len(queue) : queue[i].old /\ ~ queue[i].late

\* What is older than a change was asked for before what is not.
OldFirst(queue) ==
    \A i, j \in 1 .. Len(queue) : j < i /\ queue[i].old => queue[j].old

RepeatsKnown(load, queue) ==
    \A i \in 1 .. Len(queue) : queue[i].again => load.again # {}

QueueOK(load, queue) ==
    queue \in Seq(Request) /\ OldFirst(queue) /\ RepeatsKnown(load, queue)

Aged(queue) == [j \in 1 .. Len(queue) |-> [queue[j] EXCEPT !.old = TRUE]]

\* Where the requests come from that are left when the i-th is gone.
From(i, j) == IF j < i THEN j ELSE j + 1

\* A queue without its i-th, but for who is late.
Shortened(queue, i, rest) ==
    /\ rest \in Seq(Request)
    /\ Len(rest) = Len(queue) - 1
    /\ \A j \in 1 .. Len(rest) :
          /\ rest[j].old = queue[From(i, j)].old
          /\ rest[j].again = queue[From(i, j)].again
          /\ rest[j].late = queue[From(i, j)].late \/ (j < i /\ rest[j].late)

LEMMA NewIs == New \in Request /\ ~ New.old /\ ~ New.late /\ ~ New.again
  BY DEF New, Request

LEMMA OvertakeIs ==
    ASSUME NEW queue \in Seq(Request), NEW i \in 1 .. Len(queue)
    PROVE  /\ Shortened(queue, i, Overtake(queue, i))
           /\ \A j \in 1 .. Len(Overtake(queue, i)) : j < i => Overtake(queue, i)[j].late
<1> DEFINE f(j) == IF j < i THEN [queue[j] EXCEPT !.late = TRUE] ELSE queue[j + 1]
           rest == [j \in 1 .. Len(queue) - 1 |-> f(j)]
<1>1. Overtake(queue, i) = rest
  BY DEF Overtake
<1>2. Len(queue) \in Nat \ {0}
  OBVIOUS
<1>3. ASSUME NEW j \in 1 .. Len(queue) - 1
      PROVE  /\ f(j) \in Request /\ From(i, j) \in 1 .. Len(queue)
             /\ f(j).old = queue[From(i, j)].old /\ f(j).again = queue[From(i, j)].again
             /\ j < i => f(j).late
             /\ ~ (j < i) => f(j) = queue[From(i, j)]
  <2>1. j \in 1 .. Len(queue) /\ j + 1 \in 1 .. Len(queue)
    BY <1>2
  <2>2. queue[j] \in Request /\ queue[j + 1] \in Request
    BY <2>1
  <2> QED
    BY <2>1, <2>2 DEF Request, From
<1> HIDE DEF f
<1>4. rest \in Seq(Request) /\ Len(rest) = Len(queue) - 1
  BY <1>2, <1>3
<1>5. \A j \in 1 .. Len(rest) : rest[j] = f(j) /\ j \in 1 .. Len(queue) - 1
  BY <1>4
<1> HIDE DEF rest
<1> QED
  BY <1>1, <1>3, <1>4, <1>5 DEF Shortened

LEMMA WithoutIs ==
    ASSUME NEW queue \in Seq(Request), NEW i \in 1 .. Len(queue)
    PROVE  /\ Shortened(queue, i, Without(queue, i))
           /\ \A j \in 1 .. Len(Without(queue, i)) :
                 Without(queue, i)[j].late = queue[From(i, j)].late
<1> DEFINE f(j) == IF j < i THEN queue[j] ELSE queue[j + 1]
           rest == [j \in 1 .. Len(queue) - 1 |-> f(j)]
<1>1. Without(queue, i) = rest
  BY DEF Without
<1>2. Len(queue) \in Nat \ {0}
  OBVIOUS
<1>3. ASSUME NEW j \in 1 .. Len(queue) - 1
      PROVE  f(j) \in Request /\ f(j) = queue[From(i, j)]
  <2>1. j \in 1 .. Len(queue) /\ j + 1 \in 1 .. Len(queue)
    BY <1>2
  <2>2. queue[j] \in Request /\ queue[j + 1] \in Request
    BY <2>1
  <2> QED
    BY <2>1, <2>2 DEF From
<1> HIDE DEF f
<1>4. rest \in Seq(Request) /\ Len(rest) = Len(queue) - 1
  BY <1>2, <1>3
<1>5. \A j \in 1 .. Len(rest) : rest[j] = f(j) /\ j \in 1 .. Len(queue) - 1
  BY <1>4
<1> HIDE DEF rest
<1> QED
  BY <1>1, <1>3, <1>4, <1>5 DEF Shortened


\* Where the k-th of the queue is when the i-th is gone.
LEMMA FromEach ==
    ASSUME NEW n \in Nat, NEW i \in 1 .. n, NEW k \in 1 .. n, k # i
    PROVE  \E j \in 1 .. n - 1 : From(i, j) = k /\ (j < i <=> k < i)
<1>1. CASE k < i
  BY <1>1 DEF From
<1>2. CASE i < k
  <2>1. k - 1 \in 1 .. n - 1 /\ ~ (k - 1 < i) /\ ~ (k < i) /\ (k - 1) + 1 = k
    BY <1>2
  <2> QED
    BY <2>1 DEF From
<1> QED
  BY <1>1, <1>2

LEMMA FromIn ==
    ASSUME NEW n \in Nat, NEW i \in 1 .. n, NEW j \in 1 .. n - 1
    PROVE  From(i, j) \in 1 .. n /\ From(i, j) # i /\ (j < i <=> From(i, j) < i)
  BY DEF From

\* A request that is answered leaves a good queue.
LEMMA ShortenedOK ==
    ASSUME NEW load, NEW queue, QueueOK(load, queue), NEW i \in 1 .. Len(queue),
           NEW rest, Shortened(queue, i, rest)
    PROVE  QueueOK(load, rest)
<1>1. queue \in Seq(Request) /\ rest \in Seq(Request) /\ Len(rest) = Len(queue) - 1
  BY DEF QueueOK, Shortened
<1>2. Len(queue) \in Nat /\ Len(rest) \in Nat
  BY <1>1
<1>3. OldFirst(rest)
  <2> SUFFICES ASSUME NEW k \in 1 .. Len(rest), NEW j \in 1 .. Len(rest), j < k, rest[k].old
               PROVE  rest[j].old
    BY DEF OldFirst
  <2>1. From(i, j) \in 1 .. Len(queue) /\ From(i, k) \in 1 .. Len(queue)
    BY <1>1, <1>2, FromIn
  <2>2. From(i, j) < From(i, k)
    BY <1>2 DEF From
  <2>3. queue[From(i, k)].old
    BY DEF Shortened
  <2>4. queue[From(i, j)].old
    BY <2>1, <2>2, <2>3 DEF QueueOK, OldFirst
  <2> QED
    BY <2>4 DEF Shortened
<1>4. RepeatsKnown(load, rest)
  <2> SUFFICES ASSUME NEW k \in 1 .. Len(rest), rest[k].again  PROVE load.again # {}
    BY DEF RepeatsKnown
  <2>1. From(i, k) \in 1 .. Len(queue)
    BY <1>1, <1>2, FromIn
  <2>2. queue[From(i, k)].again
    BY DEF Shortened
  <2> QED
    BY <2>1, <2>2 DEF QueueOK, RepeatsKnown
<1> QED
  BY <1>1, <1>3, <1>4 DEF QueueOK

\* The flag is still taken down, unless the one that is gone was to do that.
LEMMA ShortenedLowers ==
    ASSUME NEW load, NEW queue \in Seq(Request), NEW i \in 1 .. Len(queue),
           NEW rest, Shortened(queue, i, rest), WillLower(load, queue),
           ~ Lowers(load, queue[i])
    PROVE  WillLower(load, rest)
<1>1. PICK k \in 1 .. Len(queue) : Lowers(load, queue[k])
  BY DEF WillLower
<1>2. k # i /\ Len(queue) \in Nat
  BY <1>1
<1>3. PICK j \in 1 .. Len(queue) - 1 : From(i, j) = k
  BY <1>2, FromEach
<1>4. j \in 1 .. Len(rest) /\ rest[j].again = queue[k].again
  BY <1>3 DEF Shortened
<1>5. Lowers(load, rest[j])
  BY <1>1, <1>4 DEF Lowers, Result
<1> QED
  BY <1>4, <1>5 DEF WillLower

\* One that is old leaves the younger ones.
LEMMA ShortenedFresh ==
    ASSUME NEW queue \in Seq(Request), NEW i \in 1 .. Len(queue),
           NEW rest, Shortened(queue, i, rest), HasFresh(queue), queue[i].old
    PROVE  HasFresh(rest)
<1>1. PICK k \in 1 .. Len(queue) : ~ queue[k].old
  BY DEF HasFresh
<1>2. k # i /\ Len(queue) \in Nat
  BY <1>1
<1>3. PICK j \in 1 .. Len(queue) - 1 : From(i, j) = k
  BY <1>2, FromEach
<1>4. j \in 1 .. Len(rest) /\ rest[j].old = queue[k].old
  BY <1>3 DEF Shortened
<1> QED
  BY <1>1, <1>4 DEF HasFresh

\* Nobody becomes doubtful by the answer to another.
LEMMA ShortenedDoubt ==
    ASSUME NEW queue \in Seq(Request), NEW i \in 1 .. Len(queue),
           NEW rest, Shortened(queue, i, rest), Doubtful(rest)
    PROVE  Doubtful(queue)
<1>1. PICK j \in 1 .. Len(rest) : rest[j].old /\ ~ rest[j].late
  BY DEF Doubtful
<1>2. From(i, j) \in 1 .. Len(queue)
  <2>1. Len(queue) \in Nat /\ Len(rest) = Len(queue) - 1
    BY DEF Shortened
  <2> QED
    BY <2>1, FromIn
<1>3. queue[From(i, j)].old /\ ~ queue[From(i, j)].late
  BY <1>1 DEF Shortened
<1> QED
  BY <1>2, <1>3 DEF Doubtful

\* The answer of a younger one overtakes every old one.
LEMMA OvertakeSettles ==
    ASSUME NEW load, NEW queue, QueueOK(load, queue), NEW i \in 1 .. Len(queue), ~ queue[i].old
    PROVE  ~ Doubtful(Overtake(queue, i))
<1> SUFFICES ASSUME Doubtful(Overtake(queue, i))  PROVE FALSE
  OBVIOUS
<1>1. queue \in Seq(Request) /\ Len(queue) \in Nat
  BY DEF QueueOK
<1>2. PICK j \in 1 .. Len(Overtake(queue, i)) :
         Overtake(queue, i)[j].old /\ ~ Overtake(queue, i)[j].late
  BY DEF Doubtful
<1>3. Shortened(queue, i, Overtake(queue, i)) /\ ~ (j < i)
  BY <1>1, <1>2, OvertakeIs
<1>4. j \in 1 .. Len(queue) - 1 /\ queue[From(i, j)].old
  BY <1>2, <1>3 DEF Shortened
<1>5. From(i, j) \in 1 .. Len(queue) /\ i < From(i, j)
  BY <1>1, <1>3, <1>4, FromIn DEF From
<1> QED
  BY <1>4, <1>5 DEF QueueOK, OldFirst

\* A request of its own is added to what is left of a queue.
LEMMA AppendOK ==
    ASSUME NEW load, NEW queue, QueueOK(load, queue),
           NEW part \in Seq(Request), PartOf(part, queue),
           NEW request \in Request, ~ request.old, request.again => load.again # {}
    PROVE  QueueOK(load, Append(part, request)) /\ HasFresh(Append(part, request))
<1> DEFINE more == Append(part, request)
<1>1. /\ more \in Seq(Request) /\ Len(more) = Len(part) + 1 /\ Len(part) \in Nat
      /\ Len(queue) \in Nat
      /\ \A i \in 1 .. Len(part) : more[i] = part[i]
      /\ more[Len(part) + 1] = request
  BY DEF QueueOK
<1> HIDE DEF more
<1>2. PICK e \in [1 .. Len(part) -> 1 .. Len(queue)] :
         /\ \A i \in 1 .. Len(part) : part[i] = queue[e[i]]
         /\ \A i, j \in 1 .. Len(part) : i < j => e[i] < e[j]
  BY DEF PartOf, PartUpTo
<1>3. OldFirst(more)
  <2> SUFFICES ASSUME NEW i \in 1 .. Len(more), NEW j \in 1 .. Len(more), j < i, more[i].old
               PROVE  more[j].old
    BY DEF OldFirst
  <2>1. i \in 1 .. Len(part) /\ j \in 1 .. Len(part)
    BY <1>1
  <2>2. e[j] < e[i] /\ queue[e[i]].old
    BY <1>1, <1>2, <2>1
  <2>3. queue[e[j]].old
    BY <1>2, <2>1, <2>2 DEF QueueOK, OldFirst
  <2> QED
    BY <1>1, <1>2, <2>1, <2>3
<1>4. RepeatsKnown(load, more)
  <2> SUFFICES ASSUME NEW i \in 1 .. Len(more), more[i].again  PROVE load.again # {}
    BY DEF RepeatsKnown
  <2>1. CASE i \in 1 .. Len(part)
    <3>1. more[i] = part[i]
      BY <1>1, <2>1
    <3>2. part[i].again
      BY <3>1
    <3> QED
      BY <1>2, <2>1, <3>2 DEF QueueOK, RepeatsKnown
  <2>2. CASE i = Len(part) + 1
    BY <1>1, <2>2
  <2> QED
    BY <1>1, <2>1, <2>2
<1>5. HasFresh(more)
  BY <1>1 DEF HasFresh
<1> QED
  BY <1>1, <1>3, <1>4, <1>5 DEF QueueOK, more

LEMMA AppendLowers ==
    ASSUME NEW load, NEW part \in Seq(Request), NEW request \in Request,
           WillLower(load, part) \/ Lowers(load, request)
    PROVE  WillLower(load, Append(part, request))
<1> DEFINE more == Append(part, request)
<1>1. /\ Len(more) = Len(part) + 1 /\ Len(part) \in Nat
      /\ \A i \in 1 .. Len(part) : more[i] = part[i] /\ i \in 1 .. Len(part) + 1
      /\ more[Len(part) + 1] = request
  OBVIOUS
<1> HIDE DEF more
<1>2. WillLower(load, more)
  BY <1>1 DEF WillLower
<1> QED
  BY <1>2 DEF more

\* Every queue is a part of itself, and the empty one is a part of every queue.
LEMMA PartSelf ==
    ASSUME NEW queue \in Seq(Request)
    PROVE  PartOf(queue, queue) /\ PartOf(<<>>, queue)
<1>1. PartOf(queue, queue)
  <2>1. PICK e : e = [i \in 1 .. Len(queue) |-> i]
    OBVIOUS
  <2>2. \A i \in 1 .. Len(queue) : e[i] = i /\ i \in Int
    BY <2>1
  <2>3. e \in [1 .. Len(queue) -> 1 .. Len(queue)]
    BY <2>1
  <2> QED
    BY <2>2, <2>3 DEF PartOf, PartUpTo
<1>2. PartOf(<<>>, queue)
  <2>1. PICK e : e = [i \in 1 .. 0 |-> 0]
    OBVIOUS
  <2>2. Len(<<>>) = 0 /\ 1 .. 0 = {}
    OBVIOUS
  <2>3. e \in [1 .. Len(<<>>) -> 1 .. Len(queue)]
    BY <2>1, <2>2
  <2> QED
    BY <2>2, <2>3 DEF PartOf, PartUpTo
<1> QED
  BY <1>1, <1>2

\* A change makes every request older than it.
LEMMA AgedOK ==
    ASSUME NEW load, NEW queue, QueueOK(load, queue)
    PROVE  /\ QueueOK(load, Aged(queue)) /\ Len(Aged(queue)) = Len(queue)
           /\ WillLower(load, queue) => WillLower(load, Aged(queue))
<1> DEFINE f(j) == [queue[j] EXCEPT !.old = TRUE]
           aged == [j \in 1 .. Len(queue) |-> f(j)]
<1>1. Aged(queue) = aged
  BY DEF Aged
<1>2. ASSUME NEW j \in 1 .. Len(queue)
      PROVE  f(j) \in Request /\ f(j).old /\ f(j).again = queue[j].again
  <2>1. queue[j] \in Request
    BY DEF QueueOK
  <2> QED
    BY <2>1 DEF Request
<1>3. Len(queue) \in Nat
  BY DEF QueueOK
<1> HIDE DEF f
<1>4. aged \in Seq(Request) /\ Len(aged) = Len(queue)
  BY <1>2, <1>3
<1>5. \A j \in 1 .. Len(queue) :
         aged[j] \in Request /\ aged[j].old /\ aged[j].again = queue[j].again
  BY <1>2
<1> HIDE DEF aged
<1>6. OldFirst(aged)
  BY <1>4, <1>5 DEF OldFirst
<1>7. RepeatsKnown(load, aged)
  BY <1>4, <1>5 DEF QueueOK, RepeatsKnown
<1>8. WillLower(load, queue) => WillLower(load, aged)
  BY <1>4, <1>5 DEF WillLower, Lowers, Result
<1> QED
  BY <1>1, <1>4, <1>6, <1>7, <1>8 DEF QueueOK

-----------------------------------------------------------------------------
(***************************************************************************)
(* The inductive invariant.  What a page shows hangs on what is under way: *)
(* a flag on the answer that takes it down, an error on the failure that   *)
(* raised it, rows in doubt on the request that brings new ones.           *)
(***************************************************************************)

\* The page does not change, and its rules are those of a page.
PlaceOK ==
    /\ at \in Pages
    /\ page = Rules[at]
    /\ operations = OperationsOf(page.regions)
    /\ users \subseteq page.roles

Names == Ops \cup UNION {Op(o).handler.escalates : o \in Ops}

TypeOK ==
    /\ shown \in [Loads -> {"unasked", "failed", "rows"}]
    /\ asked \in [Loads -> Seq(Request)]
    /\ spin \subseteq Loads
    /\ error \in BOOLEAN
    /\ told \subseteq Loads
    /\ dialogs \in Seq(Names)
    /\ calls \in [Ops -> [here : Nat, gone : Nat, follow : Nat]]

QueuesOK == \A l \in Loads : QueueOK(page.loads[l], asked[l])

\* A load that holds its flag up waits for an answer that takes it down.
SpinInv ==
    \A l \in spin :
        \/ Exempt(Stuck, at, page.loads[l].flag)
        \/ TakesDown(page.loads[l]) /\ WillLower(page.loads[l], asked[l])

\* The flag of a handler is up only while one of those that share it is called.
Lockable(f) ==
    \E o \in Ops : Op(o).handler.flag = f /\ \E effects \in EffectsOf(at, o) : "lock" \in effects

LockInv ==
    \A f \in locks :
        /\ Lockable(f)
        /\ \/ Exempt(Stuck, at, f)
           \/ \E o \in Ops : Op(o).handler.flag = f /\ InFlight(o) # 0

\* What follows a change follows only the changes that something follows.
FollowInv == \A o \in Ops : calls[o].follow # 0 => TRUE \in Op(o).handler.follows

\* A flag that its handlers wait for is up during the one call of them all.
Alone(o) ==
    /\ Op(o).handler.flag \in locks
    /\ InFlight(o) = 1
    /\ \A x \in Ops : x # o /\ Op(x).handler.flag = Op(o).handler.flag => InFlight(x) = 0

PressInv ==
    \A o \in Ops :
        /\ LeavesFirst(Op(o)) => calls[o].here = 0
        /\ Exclusive(at, Op(o).handler.flag) /\ InFlight(o) # 0 => Alone(o)

\* The page says that something went wrong with the load, or the user has read it.
Said(l) == error \/ l \in told

\* A failure that left nothing to show, and nothing to wait for, is said.
EmptyInv ==
    \A l \in Loads :
        FailuresAreSaid(at, l) /\ shown[l] = "failed" /\ asked[l] = <<>> => Said(l)

\* Some operation changes the rows of the load.
Changeable(l) == \E o \in Ops : l \in Op(o).changes

OldIsChangeable ==
    /\ behind \subseteq {l \in Loads : Changeable(l)}
    /\ \A l \in Loads : \A i \in 1 .. Len(asked[l]) : asked[l][i].old => Changeable(l)

\* The rows are older than a change, or an answer that is may still be shown.
InDoubt(l) ==
    \/ l \in behind /\ l \notin overtaken /\ shown[l] = "rows"
    \/ Doubtful(asked[l])

\* Something follows a change of the rows of l, and only then are they asked for.
Pending(l) ==
    \E o \in Ops :
        l \in Op(o).changes /\ l \notin Sent(Op(o).handler.late) /\ calls[o].follow # 0

SeenInv ==
    \A l \in Loads :
        AsksAgain(at, l) /\ InDoubt(l) => Said(l) \/ HasFresh(asked[l]) \/ Pending(l)

\* Rows that are patched by hand were there before anything could change them.
PatchInv ==
    \A l \in Loads :
        PatchesByHand(at, l) /\ Changeable(l) =>
            /\ l \notin behind
            /\ Len(asked[l]) <= 1
            /\ asked[l] # <<>> => l \in spin /\ ~ asked[l][1].old
            /\ \A o \in Ops : l \in Op(o).changes /\ InFlight(o) # 0 => asked[l] = <<>>

IInv ==
    /\ PlaceOK /\ TypeOK /\ QueuesOK
    /\ SpinInv /\ LockInv /\ FollowInv /\ PressInv
    /\ EmptyInv /\ OldIsChangeable /\ SeenInv /\ PatchInv

-----------------------------------------------------------------------------
(* What the operators of Screens do, as far as the invariant is concerned. *)

\* The rules of the page that is open, and its habits.
LEMMA PlaceIs ==
    ASSUME PlaceOK
    PROVE  /\ Loads = LoadsOf(at) /\ Ops = OpsOf(at)
           /\ \A l : page.loads[l] = LoadOf(at, l)
           /\ \A o : Op(o) = OpOf(at, o)
           /\ \A effects : Sent(effects) = SentOn(at, effects)
           /\ page.regions = Rules[at].regions /\ page.broken = Rules[at].broken
           /\ page.gates = Rules[at].gates /\ page.roles = Rules[at].roles
           /\ WellFormed(at) /\ FlagsComeDown(at) /\ PressedOnce(at)
           /\ EmptyIsTrue(at) /\ ChangesAreShown(at) /\ OnlyToAdmitted(at)
<1>1. page = Rules[at] /\ operations = OperationsOf(Rules[at].regions) /\ at \in Pages
  BY DEF PlaceOK
<1>2. Loads = LoadsOf(at) /\ Ops = OpsOf(at)
  BY <1>1 DEF Loads, LoadsOf, Ops, OpsOf
<1>3. \A l : page.loads[l] = LoadOf(at, l)
  BY <1>1 DEF LoadOf
<1>4. \A o : Op(o) = OpOf(at, o)
  BY <1>1 DEF Op, OpOf
<1>5. \A effects : Sent(effects) = SentOn(at, effects)
  BY <1>2, <1>3 DEF Sent, SentOn
<1>6. /\ WellFormed(at) /\ FlagsComeDown(at) /\ PressedOnce(at)
      /\ EmptyIsTrue(at) /\ ChangesAreShown(at) /\ OnlyToAdmitted(at)
  BY <1>1, PagesAssumption, FlagsAssumption, PressAssumption, EmptyAssumption,
     ChangesAssumption, OfferAssumption
<1> QED
  BY <1>1, <1>2, <1>3, <1>4, <1>5, <1>6

LEMMA PlaceStep ==
    ASSUME PlaceOK, UNCHANGED place
    PROVE  /\ PlaceOK' /\ at' = at /\ page' = page /\ operations' = operations /\ users' = users
           /\ Loads' = Loads /\ Ops' = Ops /\ Names' = Names
  BY DEF place, PlaceOK, Loads, Ops, Names, Op

\* A request of its own is under way, whatever was left of those before it.
Renewed(l) ==
    /\ QueueOK(page.loads[l], asked'[l])
    /\ HasFresh(asked'[l])
    /\ asked'[l] # <<>>
    /\ TakesDown(page.loads[l]) => WillLower(page.loads[l], asked'[l])
    /\ \A i \in 1 .. Len(asked'[l]) : asked'[l][i].old => Changeable(l)

LEMMA RenewedIs ==
    ASSUME NEW l \in Loads, NEW queue, QueueOK(page.loads[l], queue),
           NEW part \in Seq(Request), PartOf(part, queue),
           asked'[l] = Append(part, New),
           \A i \in 1 .. Len(queue) : queue[i].old => Changeable(l)
    PROVE  Renewed(l) /\ asked'[l] \in Seq(Request)
<1>1. QueueOK(page.loads[l], asked'[l]) /\ HasFresh(asked'[l])
  BY AppendOK, NewIs
<1>2. asked'[l] # <<>> /\ asked'[l] \in Seq(Request)
  BY NewIs
<1>3. ASSUME TakesDown(page.loads[l])  PROVE WillLower(page.loads[l], asked'[l])
  <2>1. Lowers(page.loads[l], New)
    BY <1>3, NewIs DEF Lowers, Result, TakesDown
  <2> QED
    BY <2>1, AppendLowers, NewIs
<1>4. ASSUME NEW i \in 1 .. Len(asked'[l]), asked'[l][i].old  PROVE Changeable(l)
  <2>1. PICK e \in [1 .. Len(part) -> 1 .. Len(queue)] :
           \A j \in 1 .. Len(part) : part[j] = queue[e[j]]
    BY DEF PartOf, PartUpTo
  <2>2. i \in 1 .. Len(part) /\ asked'[l][i] = part[i]
    <3>1. i \in 1 .. Len(part) \/ i = Len(part) + 1
      OBVIOUS
    <3>2. Append(part, New)[Len(part) + 1] = New
      OBVIOUS
    <3> QED
      BY <1>4, <3>1, <3>2, NewIs
  <2> QED
    BY <1>4, <2>1, <2>2
<1> QED
  BY <1>1, <1>2, <1>3, <1>4 DEF Renewed

LEMMA KeptIs ==
    ASSUME NEW l \in Loads, asked[l] \in Seq(Request)
    PROVE  Kept(l) \in Seq(Request) /\ PartOf(Kept(l), asked[l])
  BY OnlyKeeps, PartSelf DEF Kept

\* The loads ls are sent again; nothing happens to the others.
Resent(ls) ==
    /\ asked' \in [Loads -> Seq(Request)]
    /\ shown' \in [Loads -> {"unasked", "failed", "rows"}]
    /\ spin' \subseteq Loads /\ spin \subseteq spin'
    /\ \A l \in spin' : l \in spin \/ (l \in ls /\ ~ NeverRaises(page.loads[l]))
    /\ \A l \in Loads : l \notin ls => asked'[l] = asked[l] /\ shown'[l] = shown[l]
    /\ \A l \in ls : Renewed(l) /\ (shown'[l] = shown[l] \/ shown'[l] = "failed")
    /\ overtaken' = overtaken
    /\ told' = told \ ls

LEMMA RaisedIs ==
    ASSUME NEW ls \in SUBSET Loads, NEW covering \in {OnMount, ByUser, ByHandler}
    PROVE  \A l \in Raised(ls, covering) : l \in ls /\ ~ NeverRaises(page.loads[l])
  BY DEF Raised, NeverRaises, OnMount, ByUser, ByHandler

LEMMA ResendIs ==
    ASSUME TypeOK, QueuesOK, OldIsChangeable, NEW ls \in SUBSET Loads,
           NEW covering \in {ByUser, ByHandler}, Resend(ls, covering)
    PROVE  Resent(ls)
<1>1. ASSUME NEW l \in ls  PROVE Renewed(l) /\ asked'[l] \in Seq(Request)
  <2>1. asked[l] \in Seq(Request) /\ QueueOK(page.loads[l], asked[l])
    BY DEF QueuesOK, TypeOK
  <2>2. Kept(l) \in Seq(Request) /\ PartOf(Kept(l), asked[l])
    BY <2>1, KeptIs
  <2>3. asked'[l] = Append(Kept(l), New)
    BY DEF Resend
  <2>4. \A i \in 1 .. Len(asked[l]) : asked[l][i].old => Changeable(l)
    BY DEF OldIsChangeable
  <2> QED
    BY <2>1, <2>2, <2>3, <2>4, RenewedIs
<1>2. asked' \in [Loads -> Seq(Request)]
  <2>1. \A l \in Loads : asked'[l] \in Seq(Request)
    BY <1>1 DEF Resend, TypeOK
  <2>2. asked' = [l \in Loads |-> asked'[l]]
    BY DEF Resend
  <2> QED
    BY <2>1, <2>2
<1>3. /\ shown' \in [Loads -> {"unasked", "failed", "rows"}]
      /\ \A l \in Loads : l \notin ls => asked'[l] = asked[l] /\ shown'[l] = shown[l]
      /\ \A l \in ls : shown'[l] = shown[l] \/ shown'[l] = "failed"
      /\ overtaken' = overtaken /\ told' = told \ ls
  BY DEF Resend, TypeOK
<1>4. spin' = spin \cup Raised(ls, covering)
  BY DEF Resend
<1>5. \A l \in Raised(ls, covering) : l \in ls /\ ~ NeverRaises(page.loads[l])
  BY RaisedIs
<1>6. spin \subseteq Loads
  BY DEF TypeOK
<1> QED
  BY <1>1, <1>2, <1>3, <1>4, <1>5, <1>6 DEF Resent

\* The change that o has made is older than none of the requests before it.
Answered(o, ls, effects) ==
    /\ asked' \in [Loads -> Seq(Request)]
    /\ shown' = shown /\ overtaken' = overtaken /\ told' = told \ ls
    /\ spin' \subseteq Loads /\ spin \subseteq spin'
    /\ \A l \in spin' : l \in spin \/ (l \in ls /\ ~ NeverRaises(page.loads[l]))
    /\ \A l \in Loads : l \notin ls =>
          \/ asked'[l] = asked[l]
          \/ l \in Op(o).changes /\ asked'[l] = Aged(asked[l])
    /\ \A l \in ls : Renewed(l)
    /\ behind' \subseteq behind \cup Op(o).changes
    /\ "patch" \in effects => behind' = behind

LEMMA ChangedIs ==
    ASSUME TypeOK, QueuesOK, OldIsChangeable, NEW o \in Ops, NEW effects, Changed(o, effects)
    PROVE  Answered(o, Sent(effects), effects)
<1> DEFINE ls == Sent(effects)
           before(l) == IF l \in Op(o).changes THEN Aged(asked[l]) ELSE asked[l]
<1>1. ls \in SUBSET Loads
  BY DEF Sent
<1>2. asked' = [l \in Loads |->
                  IF l \notin ls THEN before(l)
                  ELSE Append(IF page.loads[l].cancels THEN <<>> ELSE before(l), New)]
  BY DEF Changed, Aged
<1>3. ASSUME NEW l \in Loads
      PROVE  /\ QueueOK(page.loads[l], before(l)) /\ before(l) \in Seq(Request)
             /\ \A i \in 1 .. Len(before(l)) : before(l)[i].old => Changeable(l)
  <2>1. QueueOK(page.loads[l], asked[l])
    BY DEF QueuesOK
  <2>2. \A i \in 1 .. Len(asked[l]) : asked[l][i].old => Changeable(l)
    BY DEF OldIsChangeable
  <2>3. l \in Op(o).changes => Changeable(l)
    BY DEF Changeable
  <2>4. QueueOK(page.loads[l], Aged(asked[l]))
    BY <2>1, AgedOK
  <2>5. CASE l \in Op(o).changes
    <3>1. before(l) = Aged(asked[l])
      BY <2>5
    <3> HIDE DEF before
    <3> QED
      BY <2>3, <2>4, <2>5, <3>1 DEF QueueOK
  <2>6. CASE l \notin Op(o).changes
    <3>1. before(l) = asked[l]
      BY <2>6
    <3> HIDE DEF before
    <3> QED
      BY <2>1, <2>2, <3>1 DEF QueueOK
  <2> QED
    BY <2>5, <2>6
<1>4. ASSUME NEW l \in ls  PROVE Renewed(l) /\ asked'[l] \in Seq(Request)
  <2>1. l \in Loads
    BY <1>1
  <2>2. asked'[l] = Append(IF page.loads[l].cancels THEN <<>> ELSE before(l), New)
    BY <1>2, <2>1
  <2>3. PartOf(before(l), before(l)) /\ PartOf(<<>>, before(l)) /\ <<>> \in Seq(Request)
    BY <1>3, <2>1, PartSelf
  <2> HIDE DEF before
  <2>4. PICK part \in Seq(Request) : PartOf(part, before(l)) /\ asked'[l] = Append(part, New)
    BY <1>3, <2>1, <2>2, <2>3
  <2> QED
    BY <1>3, <2>1, <2>4, RenewedIs
<1>5. ASSUME NEW l \in Loads, l \notin ls
      PROVE  /\ asked'[l] \in Seq(Request)
             /\ \/ asked'[l] = asked[l]
                \/ l \in Op(o).changes /\ asked'[l] = Aged(asked[l])
  <2>1. asked'[l] = before(l)
    BY <1>2, <1>5
  <2> QED
    BY <1>3, <2>1
<1>6. asked' \in [Loads -> Seq(Request)]
  <2>1. \A l \in Loads : asked'[l] \in Seq(Request)
    BY <1>4, <1>5
  <2>2. asked' = [l \in Loads |-> asked'[l]]
    BY <1>2
  <2> QED
    BY <2>1, <2>2
<1>7. /\ spin' = spin \cup Raised(ls, ByHandler) /\ shown' = shown /\ overtaken' = overtaken
      /\ told' = told \ ls
      /\ behind' = IF "patch" \in effects THEN behind ELSE behind \cup Op(o).changes
  BY DEF Changed
<1>8. \A l \in Raised(ls, ByHandler) : l \in ls /\ ~ NeverRaises(page.loads[l])
  BY <1>1, RaisedIs
<1>9. spin \subseteq Loads
  BY DEF TypeOK
<1> HIDE DEF ls
<1>10. Answered(o, ls, effects)
  BY <1>1, <1>4, <1>5, <1>6, <1>7, <1>8, <1>9 DEF Answered
<1> QED
  BY <1>10 DEF ls

-----------------------------------------------------------------------------
(* The queues, the flags of the loads, and what is older than a change.    *)

DataInv == QueuesOK /\ SpinInv /\ OldIsChangeable

\* The same about the page that is open, which no step changes.
LEMMA DataIs ==
    ASSUME PlaceOK, UNCHANGED place,
           \A l \in Loads : QueueOK(page.loads[l], asked'[l]),
           \A l \in spin' : \/ Exempt(Stuck, at, page.loads[l].flag)
                            \/ /\ TakesDown(page.loads[l])
                               /\ WillLower(page.loads[l], asked'[l]),
           behind' \subseteq {l \in Loads : Changeable(l)},
           \A l \in Loads : \A i \in 1 .. Len(asked'[l]) : asked'[l][i].old => Changeable(l)
    PROVE  DataInv'
<1>1. /\ at' = at /\ page' = page /\ operations' = operations
      /\ Loads' = Loads /\ Ops' = Ops
  BY PlaceStep
<1>2. QueuesOK'
  BY <1>1 DEF QueuesOK
<1>3. SpinInv'
  BY <1>1 DEF SpinInv
<1>4. OldIsChangeable'
  BY <1>1 DEF OldIsChangeable, Changeable, Op
<1> QED
  BY <1>2, <1>3, <1>4 DEF DataInv

\* A load whose flag may be up takes it down, or is known not to.
LEMMA RaisedComesDown ==
    ASSUME PlaceOK, NEW l \in Loads, ~ NeverRaises(page.loads[l])
    PROVE  Exempt(Stuck, at, page.loads[l].flag) \/ TakesDown(page.loads[l])
<1>1. l \in LoadsOf(at) /\ page.loads[l] = LoadOf(at, l) /\ FlagsComeDown(at)
  BY PlaceIs
<1> QED
  BY <1>1 DEF FlagsComeDown

LEMMA ResentKeepsData ==
    ASSUME PlaceOK, TypeOK, DataInv, UNCHANGED place,
           NEW ls \in SUBSET Loads, Resent(ls), behind' \subseteq behind
    PROVE  DataInv'
<1>1. \A l \in Loads : QueueOK(page.loads[l], asked'[l])
  BY DEF Resent, Renewed, DataInv, QueuesOK
<1>2. ASSUME NEW l \in spin'
      PROVE  \/ Exempt(Stuck, at, page.loads[l].flag)
             \/ TakesDown(page.loads[l]) /\ WillLower(page.loads[l], asked'[l])
  <2>1. l \in Loads
    BY DEF Resent
  <2>2. Exempt(Stuck, at, page.loads[l].flag) \/ TakesDown(page.loads[l])
    BY <2>1, RaisedComesDown DEF Resent, DataInv, SpinInv
  <2>3. CASE l \in ls
    BY <2>2, <2>3 DEF Resent, Renewed
  <2>4. CASE l \notin ls
    BY <2>1, <2>4 DEF Resent, DataInv, SpinInv
  <2> QED
    BY <2>3, <2>4
<1>3. behind' \subseteq {l \in Loads : Changeable(l)}
  BY DEF DataInv, OldIsChangeable
<1>4. \A l \in Loads : \A i \in 1 .. Len(asked'[l]) : asked'[l][i].old => Changeable(l)
  BY DEF Resent, Renewed, DataInv, OldIsChangeable
<1> QED
  BY <1>1, <1>2, <1>3, <1>4, DataIs

LEMMA AnsweredKeepsData ==
    ASSUME PlaceOK, TypeOK, DataInv, UNCHANGED place,
           NEW o \in Ops, NEW ls \in SUBSET Loads, NEW effects, Answered(o, ls, effects)
    PROVE  DataInv'
<1>1. ASSUME NEW l \in Loads
      PROVE  QueueOK(page.loads[l], asked'[l])
  <2>1. QueueOK(page.loads[l], asked[l])
    BY DEF DataInv, QueuesOK
  <2>2. QueueOK(page.loads[l], Aged(asked[l]))
    BY <2>1, AgedOK
  <2> QED
    BY <2>1, <2>2 DEF Answered, Renewed
<1>2. ASSUME NEW l \in spin'
      PROVE  \/ Exempt(Stuck, at, page.loads[l].flag)
             \/ TakesDown(page.loads[l]) /\ WillLower(page.loads[l], asked'[l])
  <2>1. l \in Loads
    BY DEF Answered
  <2>2. Exempt(Stuck, at, page.loads[l].flag) \/ TakesDown(page.loads[l])
    BY <2>1, RaisedComesDown DEF Answered, DataInv, SpinInv
  <2>3. CASE l \in ls
    BY <2>2, <2>3 DEF Answered, Renewed
  <2>4. CASE l \notin ls
    <3>1. QueueOK(page.loads[l], asked[l])
      BY <2>1 DEF DataInv, QueuesOK
    <3>2. asked'[l] = asked[l] \/ asked'[l] = Aged(asked[l])
      BY <2>1, <2>4 DEF Answered
    <3>3. WillLower(page.loads[l], asked[l]) => WillLower(page.loads[l], Aged(asked[l]))
      BY <3>1, AgedOK
    <3>4. l \in spin
      BY <2>4 DEF Answered
    <3> QED
      BY <3>2, <3>3, <3>4 DEF DataInv, SpinInv
  <2> QED
    BY <2>3, <2>4
<1>3. behind' \subseteq {l \in Loads : Changeable(l)}
  <2>1. \A l \in Op(o).changes : l \in Loads /\ Changeable(l)
    <3>1. Op(o) = OpOf(at, o) /\ o \in OpsOf(at) /\ Loads = LoadsOf(at) /\ WellFormed(at)
      BY PlaceIs
    <3> QED
      BY <3>1 DEF WellFormed, Changeable
  <2> QED
    BY <2>1 DEF Answered, DataInv, OldIsChangeable
<1>4. ASSUME NEW l \in Loads, NEW i \in 1 .. Len(asked'[l]), asked'[l][i].old
      PROVE  Changeable(l)
  <2>1. CASE l \in ls
    BY <1>4, <2>1 DEF Answered, Renewed
  <2>2. CASE asked'[l] = asked[l]
    BY <1>4, <2>2 DEF DataInv, OldIsChangeable
  <2>3. CASE l \in Op(o).changes
    BY <2>3 DEF Changeable
  <2> QED
    BY <2>1, <2>2, <2>3 DEF Answered
<1> QED
  BY <1>1, <1>2, <1>3, <1>4, DataIs

\* The request that repeats the load, behind those that are under way.
LEMMA RefreshIs ==
    ASSUME PlaceOK, TypeOK, DataInv, NEW l \in Loads, Refresh(l)
    PROVE  /\ asked' \in [Loads -> Seq(Request)] /\ spin' \subseteq Loads /\ spin \subseteq spin'
           /\ \A k \in Loads : k # l => asked'[k] = asked[k]
           /\ QueueOK(page.loads[l], asked'[l]) /\ HasFresh(asked'[l]) /\ asked'[l] # <<>>
           /\ WillLower(page.loads[l], asked[l]) => WillLower(page.loads[l], asked'[l])
           /\ l \in spin' /\ l \notin spin =>
                 /\ ~ NeverRaises(page.loads[l])
                 /\ TakesDown(page.loads[l]) => WillLower(page.loads[l], asked'[l])
           /\ spin' \subseteq spin \cup {l}
           /\ \A i \in 1 .. Len(asked'[l]) : asked'[l][i].old => Changeable(l)
           /\ page.loads[l].again # {}
<1> DEFINE request == [New EXCEPT !.again = TRUE]
<1>1. request \in Request /\ ~ request.old /\ request.again
  BY DEF New, Request
<1>2. PICK effects \in page.loads[l].again :
         spin' = IF "spin" \in effects.start THEN spin \cup {l} ELSE spin
  BY DEF Refresh
<1>3. asked' = [asked EXCEPT ![l] = Append(@, request)]
  BY DEF Refresh
<1>4. asked[l] \in Seq(Request) /\ asked \in [Loads -> Seq(Request)] /\ spin \subseteq Loads
  BY DEF TypeOK
<1> HIDE DEF request
<1>5. asked'[l] = Append(asked[l], request) /\ \A k \in Loads : k # l => asked'[k] = asked[k]
  BY <1>3, <1>4
<1>6. asked' \in [Loads -> Seq(Request)]
  <2>1. Append(asked[l], request) \in Seq(Request)
    BY <1>1, <1>4
  <2> QED
    BY <1>3, <1>4, <2>1
<1>7. QueueOK(page.loads[l], asked'[l]) /\ HasFresh(asked'[l])
  <2>1. QueueOK(page.loads[l], asked[l]) /\ PartOf(asked[l], asked[l])
    BY <1>4, PartSelf DEF DataInv, QueuesOK
  <2>2. page.loads[l].again # {}
    BY <1>2
  <2> QED
    BY <1>1, <1>4, <1>5, <2>1, <2>2, AppendOK
<1>8. asked'[l] # <<>>
  BY <1>1, <1>4, <1>5
<1>9. WillLower(page.loads[l], asked[l]) => WillLower(page.loads[l], asked'[l])
  BY <1>1, <1>4, <1>5, AppendLowers
<1>10. ASSUME l \in spin', l \notin spin
       PROVE  /\ ~ NeverRaises(page.loads[l])
              /\ TakesDown(page.loads[l]) => WillLower(page.loads[l], asked'[l])
  <2>1. "spin" \in effects.start
    BY <1>2, <1>10
  <2>2. ~ NeverRaises(page.loads[l])
    BY <2>1 DEF NeverRaises
  <2>3. ASSUME TakesDown(page.loads[l])  PROVE Lowers(page.loads[l], request)
    <3>1. \A e \in page.loads[l].again : "unspin" \in e.done /\ "unspin" \in e.fail
      BY <2>1, <2>3 DEF TakesDown
    <3>2. (CHOOSE e \in page.loads[l].again : TRUE) \in page.loads[l].again
      BY <1>2
    <3> QED
      BY <1>1, <3>1, <3>2 DEF Lowers, Result
  <2> QED
    BY <1>1, <1>4, <1>5, <2>2, <2>3, AppendLowers
<1>11. ASSUME NEW i \in 1 .. Len(asked'[l]), asked'[l][i].old  PROVE Changeable(l)
  <2>1. i \in 1 .. Len(asked[l]) /\ asked'[l][i] = asked[l][i]
    <3>1. i \in 1 .. Len(asked[l]) \/ i = Len(asked[l]) + 1
      BY <1>1, <1>4, <1>5
    <3>2. Append(asked[l], request)[Len(asked[l]) + 1] = request
      BY <1>1, <1>4
    <3> QED
      BY <1>1, <1>4, <1>5, <1>11, <3>1, <3>2
  <2> QED
    BY <1>11, <2>1 DEF DataInv, OldIsChangeable
<1> QED
  BY <1>2, <1>4, <1>5, <1>6, <1>7, <1>8, <1>9, <1>10, <1>11

LEMMA RefreshKeepsData ==
    ASSUME PlaceOK, TypeOK, DataInv, NEW l \in Loads, Refresh(l)
    PROVE  DataInv'
<1> USE RefreshIs
<1>1. UNCHANGED place /\ behind' = behind
  BY DEF Refresh
<1>2. \A k \in Loads : QueueOK(page.loads[k], asked'[k])
  BY DEF DataInv, QueuesOK
<1>3. ASSUME NEW k \in spin'
      PROVE  \/ Exempt(Stuck, at, page.loads[k].flag)
             \/ TakesDown(page.loads[k]) /\ WillLower(page.loads[k], asked'[k])
  <2>1. CASE k \in spin
    <3>1. k \in Loads
      BY DEF TypeOK
    <3> QED
      BY <2>1, <3>1 DEF DataInv, SpinInv
  <2>2. CASE k \notin spin
    <3>1. k = l
      BY <2>2
    <3> QED
      BY <2>2, <3>1, RaisedComesDown
  <2> QED
    BY <2>1, <2>2
<1>4. behind' \subseteq {k \in Loads : Changeable(k)}
  BY <1>1 DEF DataInv, OldIsChangeable
<1>5. \A k \in Loads : \A i \in 1 .. Len(asked'[k]) : asked'[k][i].old => Changeable(k)
  BY DEF DataInv, OldIsChangeable
<1> QED
  BY <1>1, <1>2, <1>3, <1>4, <1>5, DataIs

LEMMA AbandonKeepsData ==
    ASSUME PlaceOK, TypeOK, DataInv, NEW l \in Loads, Abandon(l)
    PROVE  DataInv'
<1>1. /\ UNCHANGED place /\ behind' = behind /\ spin' = spin
      /\ asked' = [asked EXCEPT ![l] = <<>>] /\ page.loads[l].abandons
  BY DEF Abandon
<1>2. \A k \in Loads : asked'[k] = IF k = l THEN <<>> ELSE asked[k]
  BY <1>1 DEF TypeOK
<1>3. \A load : QueueOK(load, <<>>)
  BY DEF QueueOK, OldFirst, RepeatsKnown
<1>4. \A k \in Loads : QueueOK(page.loads[k], asked'[k])
  BY <1>2, <1>3 DEF DataInv, QueuesOK
<1>5. ASSUME NEW k \in spin'
      PROVE  \/ Exempt(Stuck, at, page.loads[k].flag)
             \/ TakesDown(page.loads[k]) /\ WillLower(page.loads[k], asked'[k])
  BY <1>1, <1>2 DEF DataInv, SpinInv, TakesDown, TypeOK
<1>6. behind' \subseteq {k \in Loads : Changeable(k)}
  BY <1>1 DEF DataInv, OldIsChangeable
<1>7. \A k \in Loads : \A i \in 1 .. Len(asked'[k]) : asked'[k][i].old => Changeable(k)
  BY <1>2 DEF DataInv, OldIsChangeable
<1> QED
  BY <1>1, <1>4, <1>5, <1>6, <1>7, DataIs

\* The i-th request of l has ended: in one way or the other, with these effects.
Ended(l, i, kind) ==
    LET effects == Outcome(l, asked[l][i], kind) IN
    /\ Settle(l, effects)
    /\ told' = IF kind = "fail" THEN told \ {l} ELSE told
    /\ asked' \in [Loads -> Seq(Request)]
    /\ Shortened(asked[l], i, asked'[l])
    /\ shown' \in [Loads -> {"unasked", "failed", "rows"}]
    /\ \A k \in Loads : k # l => asked'[k] = asked[k] /\ shown'[k] = shown[k]
    /\ \/ behind' \subseteq behind
       \/ asked[l][i].old /\ behind' \subseteq behind \cup {l}

LEMMA OutcomeIs ==
    ASSUME TypeOK, QueuesOK, NEW l \in Loads, NEW i \in 1 .. Len(asked[l]),
           NEW kind \in {"done", "fail"}
    PROVE  /\ Outcome(l, asked[l][i], kind) = Result(page.loads[l], asked[l][i], kind)
           /\ Outcome(l, asked[l][i], kind) \in Endings(page.loads[l], kind)
<1>1. Outcome(l, asked[l][i], kind) = Result(page.loads[l], asked[l][i], kind)
  BY DEF Outcome, Result
<1>2. CASE asked[l][i].again
  <2>1. page.loads[l].again # {}
    BY <1>2 DEF QueuesOK, QueueOK, RepeatsKnown
  <2>2. (CHOOSE effects \in page.loads[l].again : TRUE) \in page.loads[l].again
    BY <2>1
  <2>3. Result(page.loads[l], asked[l][i], kind)
          = (CHOOSE effects \in page.loads[l].again : TRUE)[kind]
    BY <1>2 DEF Result
  <2> QED
    BY <1>1, <2>2, <2>3 DEF Endings
<1>3. CASE ~ asked[l][i].again
  BY <1>1, <1>3 DEF Result, Endings
<1> QED
  BY <1>1, <1>2, <1>3

LEMMA AnswerEnds ==
    ASSUME TypeOK, QueuesOK, NEW l \in Loads, NEW i \in DOMAIN asked[l], Answer(l, i)
    PROVE  i \in 1 .. Len(asked[l]) /\ Ended(l, i, "done") /\ asked'[l] = Overtake(asked[l], i)
<1>1. asked \in [Loads -> Seq(Request)] /\ asked[l] \in Seq(Request) /\ i \in 1 .. Len(asked[l])
  BY DEF TypeOK
<1>2. Shortened(asked[l], i, Overtake(asked[l], i)) /\ Overtake(asked[l], i) \in Seq(Request)
  BY <1>1, OvertakeIs DEF Shortened
<1>3. asked' = [asked EXCEPT ![l] = Overtake(@, i)] /\ shown' = [shown EXCEPT ![l] = "rows"]
  BY DEF Answer
<1>4. /\ asked' \in [Loads -> Seq(Request)] /\ asked'[l] = Overtake(asked[l], i)
      /\ \A k \in Loads : k # l => asked'[k] = asked[k]
  BY <1>1, <1>2, <1>3
<1>5. /\ shown' \in [Loads -> {"unasked", "failed", "rows"}]
      /\ \A k \in Loads : k # l => shown'[k] = shown[k]
  BY <1>3 DEF TypeOK
<1>6. behind' \subseteq behind \/ (asked[l][i].old /\ behind' \subseteq behind \cup {l})
  BY DEF Answer
<1>7. Settle(l, Outcome(l, asked[l][i], "done")) /\ told' = told
  BY DEF Answer
<1> QED
  BY <1>1, <1>2, <1>4, <1>5, <1>6, <1>7 DEF Ended

LEMMA FailEnds ==
    ASSUME TypeOK, QueuesOK, NEW l \in Loads, NEW i \in DOMAIN asked[l], Fail(l, i)
    PROVE  i \in 1 .. Len(asked[l]) /\ Ended(l, i, "fail")
<1>1. asked \in [Loads -> Seq(Request)] /\ asked[l] \in Seq(Request) /\ i \in 1 .. Len(asked[l])
  BY DEF TypeOK
<1>2. Shortened(asked[l], i, Without(asked[l], i)) /\ Without(asked[l], i) \in Seq(Request)
  BY <1>1, WithoutIs DEF Shortened
<1>3. asked' = [asked EXCEPT ![l] = Without(@, i)]
  BY DEF Fail
<1>4. /\ asked' \in [Loads -> Seq(Request)] /\ asked'[l] = Without(asked[l], i)
      /\ \A k \in Loads : k # l => asked'[k] = asked[k]
  BY <1>1, <1>2, <1>3
<1>5. /\ shown' \in [Loads -> {"unasked", "failed", "rows"}]
      /\ \A k \in Loads : k # l => shown'[k] = shown[k]
  BY DEF TypeOK, Fail
<1>6. behind' \subseteq behind
  BY DEF Fail
<1>7. Settle(l, Outcome(l, asked[l][i], "fail")) /\ told' = told \ {l}
  BY DEF Fail
<1> QED
  BY <1>1, <1>2, <1>4, <1>5, <1>6, <1>7 DEF Ended

LEMMA EndedKeepsData ==
    ASSUME PlaceOK, TypeOK, DataInv, NEW l \in Loads, NEW i \in 1 .. Len(asked[l]),
           NEW kind \in {"done", "fail"}, Ended(l, i, kind)
    PROVE  DataInv'
<1> DEFINE effects == Outcome(l, asked[l][i], kind)
<1>1. QueueOK(page.loads[l], asked[l]) /\ QueuesOK /\ asked[l] \in Seq(Request)
  BY DEF DataInv, QueuesOK, QueueOK
<1>2. effects = Result(page.loads[l], asked[l][i], kind)
  BY <1>1, OutcomeIs
<1>3. /\ Shortened(asked[l], i, asked'[l])
      /\ \A k \in Loads : k # l => asked'[k] = asked[k]
      /\ Settle(l, effects)
  BY DEF Ended
<1> HIDE DEF effects
<1>4. /\ spin' \subseteq spin /\ UNCHANGED place
      /\ l \in spin' => "unspin" \notin effects
  BY <1>3 DEF Settle
<1>5. \A k \in Loads : QueueOK(page.loads[k], asked'[k])
  <2>1. QueueOK(page.loads[l], asked'[l])
    BY <1>1, <1>3, ShortenedOK
  <2> QED
    BY <1>3, <2>1 DEF DataInv, QueuesOK
<1>6. ASSUME NEW k \in spin'
      PROVE  \/ Exempt(Stuck, at, page.loads[k].flag)
             \/ TakesDown(page.loads[k]) /\ WillLower(page.loads[k], asked'[k])
  <2>1. k \in Loads /\ k \in spin
    BY <1>4 DEF TypeOK
  <2>2. CASE k # l
    BY <1>3, <2>1, <2>2 DEF DataInv, SpinInv
  <2>3. CASE k = l
    <3>1. ~ Lowers(page.loads[l], asked[l][i])
      BY <1>2, <1>4, <2>3 DEF Lowers
    <3>2. WillLower(page.loads[l], asked[l]) => WillLower(page.loads[l], asked'[l])
      BY <1>1, <1>3, <3>1, ShortenedLowers
    <3> QED
      BY <2>1, <2>3, <3>2 DEF DataInv, SpinInv
  <2> QED
    BY <2>2, <2>3
<1>7. behind' \subseteq {k \in Loads : Changeable(k)}
  BY DEF Ended, DataInv, OldIsChangeable
<1>8. ASSUME NEW k \in Loads, NEW j \in 1 .. Len(asked'[k]), asked'[k][j].old
      PROVE  Changeable(k)
  <2>1. CASE k # l
    BY <1>3, <1>8, <2>1 DEF DataInv, OldIsChangeable
  <2>2. CASE k = l
    <3>1. Len(asked[l]) \in Nat /\ Len(asked'[l]) = Len(asked[l]) - 1
      BY <1>1, <1>3 DEF Shortened
    <3>2. j \in 1 .. Len(asked[l]) - 1
      BY <2>2, <3>1
    <3>3. From(i, j) \in 1 .. Len(asked[l])
      BY <3>1, <3>2, FromIn
    <3>4. asked[l][From(i, j)].old
      BY <1>3, <1>8, <2>2 DEF Shortened
    <3> QED
      BY <2>2, <3>3, <3>4 DEF DataInv, OldIsChangeable
  <2> QED
    BY <2>1, <2>2
<1> QED
  BY <1>4, <1>5, <1>6, <1>7, <1>8, DataIs

\* The steps that leave the data alone.
LEMMA SameData ==
    ASSUME PlaceOK, TypeOK, DataInv, UNCHANGED <<place, data>>
    PROVE  DataInv'
<1>1. asked' = asked /\ spin' = spin /\ behind' = behind /\ UNCHANGED place
  BY DEF data
<1> QED
  BY <1>1, DataIs DEF DataInv, QueuesOK, SpinInv, OldIsChangeable

-----------------------------------------------------------------------------
(* The error stands until the load that failed is asked for again, or the   *)
(* user takes it down.                                                      *)

\* The same after a step.
SaidNext(l) == error' \/ l \in told'

ErrorKept(ls) ==
    \A l \in Loads : ErrorStands(at, l) /\ Said(l) => SaidNext(l) \/ l \in ls

LEMMA ErrorOfKeeps ==
    ASSUME PlaceOK, NEW o \in Ops, NEW effects \in EffectsOf(at, o), ErrorOf(effects),
           told' = told \ Sent(effects)
    PROVE  ErrorKept(Sent(effects)) /\ error' \in BOOLEAN
<1>1. Ops = OpsOf(at) /\ Sent(effects) = SentOn(at, effects) /\ Loads = LoadsOf(at)
      /\ \A k : page.loads[k] = LoadOf(at, k)
  BY PlaceIs
<1>2. error' \in BOOLEAN
  BY DEF ErrorOf
<1>3. ASSUME NEW l \in Loads, ErrorStands(at, l), Said(l), l \notin Sent(effects)
      PROVE  SaidNext(l)
  <2>1. CASE error
    <3>1. \/ "error" \in effects
          \/ /\ "clear" \notin effects
             /\ \A k \in SentOn(at, effects) : "clear" \notin LoadOf(at, k).start
      BY <1>1, <1>3 DEF ErrorStands
    <3>2. ("clear" \notin effects
           /\ \A k \in SentOn(at, effects) : "clear" \notin LoadOf(at, k).start)
            => ~ Cleared(Sent(effects))
      BY <1>1 DEF Cleared
    <3> QED
      BY <2>1, <3>1, <3>2 DEF ErrorOf, SaidNext
  <2>2. CASE l \in told
    BY <1>3, <2>2 DEF SaidNext
  <2> QED
    BY <1>3, <2>1, <2>2 DEF Said
<1> QED
  BY <1>2, <1>3 DEF ErrorKept

LEMMA AskKeepsError ==
    ASSUME PlaceOK, NEW l \in Triggered("asked"), error' = (error /\ ~ Cleared({l})),
           told' = told \ {l}
    PROVE  ErrorKept({l}) /\ error' \in BOOLEAN
<1>1. Loads = LoadsOf(at) /\ \A k : page.loads[k] = LoadOf(at, k)
  BY PlaceIs
<1>2. l \in Loads /\ "asked" \in LoadOf(at, l).at
  BY <1>1 DEF Triggered
<1>3. error' \in BOOLEAN
  OBVIOUS
<1>4. ASSUME NEW k \in Loads, ErrorStands(at, k), Said(k), k # l
      PROVE  SaidNext(k)
  <2>1. "clear" \notin LoadOf(at, l).start
    BY <1>1, <1>2, <1>4 DEF ErrorStands
  <2>2. ~ Cleared({l})
    BY <1>1, <2>1 DEF Cleared
  <2> QED
    BY <1>4, <2>2 DEF Said, SaidNext
<1> QED
  BY <1>3, <1>4 DEF ErrorKept

\* The end of a request says that it failed, or leaves the error of the others.
LEMMA EndedKeepsError ==
    ASSUME PlaceOK, TypeOK, QueuesOK, NEW l \in Loads, NEW i \in 1 .. Len(asked[l]),
           NEW kind \in {"done", "fail"}, Ended(l, i, kind)
    PROVE  /\ ErrorKept({l}) /\ error' \in BOOLEAN /\ told' \subseteq Loads
           /\ SaysItFailed(LoadOf(at, l)) /\ kind = "fail" => SaidNext(l)
           /\ AsksAgain(at, l) /\ kind = "done" /\ Said(l) => SaidNext(l)
<1> DEFINE effects == Outcome(l, asked[l][i], kind)
<1>1. effects \in Endings(LoadOf(at, l), kind)
  BY OutcomeIs, PlaceIs
<1>2. /\ error' = ErrorAfter(effects)
      /\ told' = IF kind = "fail" THEN told \ {l} ELSE told
  BY DEF Ended, Settle
<1> HIDE DEF effects
<1>3. error' \in BOOLEAN /\ told' \subseteq Loads
  BY <1>2 DEF ErrorAfter, TypeOK
<1>4. ASSUME NEW k \in Loads, ErrorStands(at, k), Said(k), k # l
      PROVE  SaidNext(k)
  <2>1. l \in LoadsOf(at) \ {k}
    BY <1>4, PlaceIs
  <2>2. "clear" \in effects => "error" \in effects
    BY <1>1, <1>4, <2>1 DEF ErrorStands
  <2>3. error => error'
    BY <1>2, <2>2 DEF ErrorAfter
  <2>4. k \in told => k \in told'
    BY <1>2, <1>4
  <2> QED
    BY <1>4, <2>3, <2>4 DEF Said, SaidNext
<1>5. SaysItFailed(LoadOf(at, l)) /\ kind = "fail" => SaidNext(l)
  BY <1>1, <1>2 DEF SaysItFailed, ErrorAfter, SaidNext
<1>6. ASSUME AsksAgain(at, l), kind = "done", Said(l)  PROVE SaidNext(l)
  <2>1. error => error'
    BY <1>1, <1>2, <1>6 DEF AsksAgain, ErrorAfter
  <2> QED
    BY <1>2, <1>6, <2>1 DEF Said, SaidNext
<1> QED
  BY <1>3, <1>4, <1>5, <1>6 DEF ErrorKept

-----------------------------------------------------------------------------
(* A list that failed is not taken for an empty one.                       *)

LEMMA EmptyIs ==
    ASSUME PlaceOK, UNCHANGED place,
           \A l \in Loads :
              FailuresAreSaid(at, l) /\ shown'[l] = "failed" /\ asked'[l] = <<>> => SaidNext(l)
    PROVE  EmptyInv'
  BY PlaceStep DEF EmptyInv, Said, SaidNext

LEMMA ResentKeepsEmpty ==
    ASSUME PlaceOK, EmptyInv, UNCHANGED place,
           NEW ls \in SUBSET Loads, Resent(ls), ErrorKept(ls)
    PROVE  EmptyInv'
<1>1. ASSUME NEW l \in Loads, FailuresAreSaid(at, l), shown'[l] = "failed", asked'[l] = <<>>
      PROVE  SaidNext(l)
  <2>1. l \notin ls
    BY <1>1 DEF Resent, Renewed
  <2>2. Said(l)
    BY <1>1, <2>1 DEF Resent, EmptyInv
  <2> QED
    BY <1>1, <2>1, <2>2 DEF ErrorKept, FailuresAreSaid
<1> QED
  BY <1>1, EmptyIs

LEMMA AnsweredKeepsEmpty ==
    ASSUME PlaceOK, QueuesOK, EmptyInv, UNCHANGED place,
           NEW o \in Ops, NEW ls \in SUBSET Loads, NEW effects,
           Answered(o, ls, effects), ErrorKept(ls)
    PROVE  EmptyInv'
<1>1. ASSUME NEW l \in Loads, FailuresAreSaid(at, l), shown'[l] = "failed", asked'[l] = <<>>
      PROVE  SaidNext(l)
  <2>1. l \notin ls
    BY <1>1 DEF Answered, Renewed
  <2>2. shown[l] = "failed"
    BY <1>1 DEF Answered
  <2>3. asked[l] = <<>>
    <3>1. QueueOK(page.loads[l], asked[l])
      BY DEF QueuesOK
    <3>2. Len(Aged(asked[l])) = Len(asked[l]) /\ asked[l] \in Seq(Request)
      BY <3>1, AgedOK DEF QueueOK
    <3>3. asked'[l] = asked[l] \/ asked'[l] = Aged(asked[l])
      BY <2>1 DEF Answered
    <3> QED
      BY <1>1, <3>2, <3>3
  <2>4. Said(l)
    BY <1>1, <2>2, <2>3 DEF EmptyInv
  <2> QED
    BY <1>1, <2>1, <2>4 DEF ErrorKept, FailuresAreSaid
<1> QED
  BY <1>1, EmptyIs

LEMMA EndedKeepsEmpty ==
    ASSUME PlaceOK, TypeOK, QueuesOK, EmptyInv, NEW l \in Loads, NEW i \in 1 .. Len(asked[l]),
           NEW kind \in {"done", "fail"}, Ended(l, i, kind), kind = "done" => shown'[l] = "rows"
    PROVE  EmptyInv'
<1>1. UNCHANGED place
  BY DEF Ended, Settle
<1>2. ASSUME NEW k \in Loads, FailuresAreSaid(at, k), shown'[k] = "failed", asked'[k] = <<>>
      PROVE  SaidNext(k)
  <2>1. CASE k = l
    <3>1. kind = "fail"
      BY <1>2, <2>1
    <3> QED
      BY <1>2, <2>1, <3>1, EndedKeepsError DEF FailuresAreSaid
  <2>2. CASE k # l
    <3>1. Said(k)
      BY <1>2, <2>2 DEF Ended, EmptyInv
    <3> QED
      BY <1>2, <2>2, <3>1, EndedKeepsError DEF ErrorKept, FailuresAreSaid
  <2> QED
    BY <2>1, <2>2
<1> QED
  BY <1>1, <1>2, EmptyIs

LEMMA RefreshKeepsEmpty ==
    ASSUME PlaceOK, TypeOK, DataInv, EmptyInv, NEW l \in Loads, Refresh(l)
    PROVE  EmptyInv'
<1>1. UNCHANGED <<place, shown, error>> /\ told' = told \ {l}
  BY DEF Refresh
<1>2. asked'[l] # <<>> /\ \A k \in Loads : k # l => asked'[k] = asked[k]
  BY RefreshIs
<1> QED
  BY <1>1, <1>2, EmptyIs DEF EmptyInv, Said, SaidNext

LEMMA AbandonKeepsEmpty ==
    ASSUME PlaceOK, TypeOK, EmptyInv, NEW l \in Loads, Abandon(l)
    PROVE  EmptyInv'
<1>1. UNCHANGED place /\ error' = error /\ told' = told
  BY DEF Abandon
<1>2. /\ shown'[l] = "unasked"
      /\ \A k \in Loads : k # l => asked'[k] = asked[k] /\ shown'[k] = shown[k]
  BY DEF Abandon, TypeOK
<1> QED
  BY <1>1, <1>2, EmptyIs DEF EmptyInv, Said, SaidNext

LEMMA SameEmpty ==
    ASSUME PlaceOK, EmptyInv, UNCHANGED <<place, data, error, told>>
    PROVE  EmptyInv'
<1>1. asked' = asked /\ shown' = shown /\ error' = error /\ told' = told
      /\ UNCHANGED place
  BY DEF data
<1> QED
  BY <1>1, EmptyIs DEF EmptyInv, Said, SaidNext

-----------------------------------------------------------------------------
(* The calls, the flags of the handlers and the dialogs.                   *)

Calls == [here : Nat, gone : Nat, follow : Nat]

\* What the effects of its handler leave of the flag of o, and of the others.
LocksAfter(o, effects) ==
    LET flag == Op(o).handler.flag IN
    /\ \A f : f # flag => (f \in locks' <=> f \in locks)
    /\ flag \in locks' => flag \in locks \/ "lock" \in effects
    /\ "unlock" \in effects /\ "lock" \notin effects => flag \notin locks'
    /\ flag \in locks /\ "unlock" \notin effects => flag \in locks'

\* One more call of o is under way.
Pressed(o) ==
    /\ calls' \in [Ops -> Calls]
    /\ \A x \in Ops : x # o => calls'[x] = calls[x]
    /\ InFlight(o)' = InFlight(o) + 1
    /\ calls'[o].follow = calls[o].follow
    /\ LeavesFirst(Op(o)) => calls'[o].here = 0

\* What the handler of o ends with.
Endgame(o) == {Op(o).handler.done, Op(o).handler.fail, Op(o).handler.missed}

\* A call of o was answered, with these effects.
Came(o, from, effects) ==
    /\ calls' \in [Ops -> Calls]
    /\ \A x \in Ops : x # o => calls'[x] = calls[x]
    /\ InFlight(o) # 0
    /\ calls'[o].here <= calls[o].here
    /\ from # "follow" => calls'[o].follow >= calls[o].follow
    /\ \/ /\ TRUE \in Op(o).handler.follows /\ effects = Op(o).handler.late
          /\ InFlight(o)' = InFlight(o)
          /\ calls'[o].follow # 0
       \/ /\ effects \in Endgame(o)
          /\ InFlight(o)' = InFlight(o) - 1
          /\ calls'[o].follow <= calls[o].follow

LEMMA AffectIs ==
    ASSUME TypeOK, NEW o \in Ops, NEW effects, Affect(o, effects)
    PROVE  /\ LocksAfter(o, effects)
           /\ "lock" \in effects => Op(o).handler.flag \in locks'
           /\ dialogs' \in Seq(Names)
           /\ effects \cap {"close", "shut"} # {} => ~ IsOpen(o)'
<1>1. /\ locks' = IF "lock" \in effects THEN locks \cup {Op(o).handler.flag}
                  ELSE IF "unlock" \in effects THEN locks \ {Op(o).handler.flag} ELSE locks
      /\ dialogs' = IF "shut" \in effects THEN <<>>
                    ELSE IF "close" \in effects THEN Only(dialogs, Range(dialogs) \ {o})
                    ELSE dialogs
  BY DEF Affect
<1>2. LocksAfter(o, effects) /\ ("lock" \in effects => Op(o).handler.flag \in locks')
  BY <1>1 DEF LocksAfter
<1> DEFINE rest == Only(dialogs, Range(dialogs) \ {o})
<1>3. /\ dialogs \in Seq(Names) /\ rest \in Seq(Names)
      /\ \A i \in 1 .. Len(rest) : rest[i] \in Range(dialogs) \ {o}
  BY OnlyKeeps DEF TypeOK
<1> HIDE DEF rest
<1>4. dialogs' = <<>> \/ dialogs' = rest \/ dialogs' = dialogs
  BY <1>1 DEF rest
<1>5. dialogs' \in Seq(Names)
  <2>1. <<>> \in Seq(Names)
    OBVIOUS
  <2> QED
    BY <1>3, <1>4, <2>1
<1>6. o \notin Range(rest) /\ o \notin Range(<<>>)
  BY <1>3 DEF Range
<1>7. ASSUME effects \cap {"close", "shut"} # {}  PROVE ~ IsOpen(o)'
  <2>1. dialogs' = <<>> \/ dialogs' = rest
    BY <1>1, <1>7 DEF rest
  <2> QED
    BY <1>6, <2>1 DEF IsOpen
<1> QED
  BY <1>2, <1>5, <1>7

\* The calls of a dialog go on without it.
LEMMA DetachedIs ==
    ASSUME NEW count \in Calls
    PROVE  /\ Detached(count) \in Calls
           /\ Detached(count).here = 0
           /\ Detached(count).gone = count.gone + count.here
           /\ Detached(count).follow = count.follow
<1>1. count.here \in Nat /\ count.gone \in Nat /\ count.follow \in Nat
  BY DEF Calls
<1> QED
  BY <1>1 DEF Detached, Calls

LEMMA ReturnIs ==
    ASSUME TypeOK, NEW o \in Ops, NEW from, NEW effects, NEW left \in Calls,
           Return(o, from, effects, left)
    PROVE  /\ calls' \in [Ops -> Calls]
           /\ \A x \in Ops : x # o => calls'[x] = calls[x]
           /\ InFlight(o)' = left.here + left.gone + left.follow
           /\ calls'[o].here <= left.here
           /\ calls'[o].follow = left.follow
           /\ LocksAfter(o, effects)
           /\ dialogs' \in Seq(Names)
<1>1. calls \in [Ops -> Calls]
  BY DEF TypeOK, Calls
<1> DEFINE new == IF Leaves(o) THEN Detached(left) ELSE left
<1>2. calls' = [calls EXCEPT ![o] = new]
  BY DEF Return
<1>3. /\ new \in Calls /\ new.here + new.gone + new.follow = left.here + left.gone + left.follow
      /\ new.here <= left.here /\ new.follow = left.follow
  <2>1. left.here \in Nat /\ left.gone \in Nat /\ left.follow \in Nat
    BY DEF Calls
  <2> QED
    BY <2>1, DetachedIs
<1> HIDE DEF new
<1>4. calls'[o] = new /\ calls' \in [Ops -> Calls] /\ \A x \in Ops : x # o => calls'[x] = calls[x]
  BY <1>1, <1>2, <1>3
<1>5. InFlight(o)' = calls'[o].here + calls'[o].gone + calls'[o].follow
  BY DEF InFlight
<1>6. LocksAfter(o, effects) /\ dialogs' \in Seq(Names)
  BY AffectIs DEF Return
<1> QED
  BY <1>3, <1>4, <1>5, <1>6

\* One call fewer.
LEMMA TakenIs ==
    ASSUME TypeOK, NEW o \in Ops, NEW from \in {"here", "gone", "follow"}, calls[o][from] > 0
    PROVE  /\ Taken(o, from) \in Calls
           /\ InFlight(o) # 0
           /\ Taken(o, from).here + Taken(o, from).gone + Taken(o, from).follow = InFlight(o) - 1
           /\ Taken(o, from).here <= calls[o].here
           /\ Taken(o, from).follow <= calls[o].follow
           /\ from # "follow" => Taken(o, from).follow = calls[o].follow
<1>1. calls[o] \in Calls
  BY DEF TypeOK, Calls
<1>2. CASE from = "here"
  BY <1>1, <1>2 DEF Taken, Calls, InFlight
<1>3. CASE from = "gone"
  BY <1>1, <1>3 DEF Taken, Calls, InFlight
<1>4. CASE from = "follow"
  BY <1>1, <1>4 DEF Taken, Calls, InFlight
<1> QED
  BY <1>2, <1>3, <1>4

LEMMA AgreeIs ==
    ASSUME PlaceOK, TypeOK, NEW o \in Ops, NEW from \in {"here", "gone"}, Agree(o, from)
    PROVE  \E effects \in {Op(o).handler.done, Op(o).handler.late} :
              /\ UNCHANGED place
              /\ Changed(o, effects) /\ ErrorOf(effects)
              /\ Came(o, from, effects) /\ LocksAfter(o, effects) /\ dialogs' \in Seq(Names)
              /\ \/ effects = Op(o).handler.done /\ FALSE \in Op(o).handler.follows
                 \/ effects = Op(o).handler.late /\ calls'[o].follow # 0
<1> DEFINE late(follows) == IF follows THEN Op(o).handler.late ELSE Op(o).handler.done
           more(follows) == IF follows THEN [Taken(o, from) EXCEPT !.follow = @ + 1]
                            ELSE Taken(o, from)
<1>1. PICK follows \in Op(o).handler.follows :
         Changed(o, late(follows)) /\ Return(o, from, late(follows), more(follows))
  BY DEF Agree
<1>2. follows \in BOOLEAN
  BY PlaceIs DEF WellFormed
<1>3. Taken(o, from) \in Calls /\ InFlight(o) # 0
      /\ Taken(o, from).here + Taken(o, from).gone + Taken(o, from).follow = InFlight(o) - 1
      /\ Taken(o, from).here <= calls[o].here
      /\ Taken(o, from).follow = calls[o].follow
      /\ calls[o].follow \in Nat /\ InFlight(o) \in Nat
  <2>1. calls[o][from] > 0
    BY DEF Agree
  <2>2. calls[o].follow \in Nat /\ InFlight(o) \in Nat
    BY DEF TypeOK, InFlight
  <2> QED
    BY <2>1, <2>2, TakenIs
<1>4. CASE follows = TRUE
  <2>1. late(follows) = Op(o).handler.late /\ TRUE \in Op(o).handler.follows
        /\ more(follows) = [Taken(o, from) EXCEPT !.follow = @ + 1]
    BY <1>1, <1>4
  <2>2. /\ more(follows) \in Calls
        /\ more(follows).here + more(follows).gone + more(follows).follow = InFlight(o)
        /\ more(follows).here <= calls[o].here
        /\ more(follows).follow = calls[o].follow + 1
    BY <1>3, <2>1 DEF Calls
  <2> HIDE DEF late, more
  <2>3. /\ calls' \in [Ops -> Calls]
        /\ \A x \in Ops : x # o => calls'[x] = calls[x]
        /\ InFlight(o)' = InFlight(o)
        /\ calls'[o].here <= more(follows).here
        /\ calls'[o].follow = calls[o].follow + 1
        /\ LocksAfter(o, late(follows))
        /\ dialogs' \in Seq(Names)
    BY <1>1, <2>2, ReturnIs
  <2>4. calls'[o].here <= calls[o].here
    BY <2>2, <2>3 DEF TypeOK, Calls
  <2>5. calls'[o].follow # 0 /\ calls'[o].follow >= calls[o].follow
    BY <1>3, <2>3
  <2>6. Came(o, from, late(follows))
    BY <1>3, <2>1, <2>3, <2>4, <2>5 DEF Came
  <2>7. UNCHANGED place /\ ErrorOf(late(follows))
    BY <1>1 DEF Return
  <2> QED
    BY <1>1, <2>1, <2>3, <2>5, <2>6, <2>7
<1>5. CASE follows = FALSE
  <2>1. late(follows) = Op(o).handler.done /\ more(follows) = Taken(o, from)
        /\ FALSE \in Op(o).handler.follows
    BY <1>1, <1>5
  <2> HIDE DEF late, more
  <2>2. /\ calls' \in [Ops -> Calls]
        /\ \A x \in Ops : x # o => calls'[x] = calls[x]
        /\ InFlight(o)' = InFlight(o) - 1
        /\ calls'[o].here <= Taken(o, from).here
        /\ calls'[o].follow = calls[o].follow
        /\ LocksAfter(o, late(follows))
        /\ dialogs' \in Seq(Names)
    BY <1>1, <1>3, <2>1, ReturnIs
  <2>3. calls'[o].here <= calls[o].here
    BY <1>3, <2>2 DEF TypeOK, Calls
  <2>6. calls'[o].follow >= calls[o].follow /\ calls'[o].follow <= calls[o].follow
    BY <1>3, <2>2
  <2>4. Came(o, from, late(follows))
    BY <1>3, <2>1, <2>2, <2>3, <2>6 DEF Came, Endgame
  <2>5. UNCHANGED place /\ ErrorOf(late(follows))
    BY <1>1 DEF Return
  <2> QED
    BY <1>1, <2>1, <2>2, <2>4, <2>5
<1> QED
  BY <1>2, <1>4, <1>5

LEMMA RefuseIs ==
    ASSUME PlaceOK, TypeOK, NEW o \in Ops, NEW from \in {"here", "gone"}, Refuse(o, from)
    PROVE  /\ UNCHANGED place /\ ErrorOf(Op(o).handler.fail)
           /\ Resend(Sent(Op(o).handler.fail), ByHandler) /\ behind' = behind
           /\ Came(o, from, Op(o).handler.fail) /\ LocksAfter(o, Op(o).handler.fail)
           /\ dialogs' \in Seq(Names)
<1> DEFINE left == Taken(o, from)
           effects == Op(o).handler.fail
<1>1. /\ calls[o][from] > 0 /\ Return(o, from, effects, left)
      /\ Resend(Sent(effects), ByHandler) /\ behind' = behind
  BY DEF Refuse, Send
<1>2. /\ left \in Calls /\ InFlight(o) # 0
      /\ left.here + left.gone + left.follow = InFlight(o) - 1
      /\ left.here <= calls[o].here /\ left.follow = calls[o].follow
  BY <1>1, TakenIs
<1>3. calls[o].follow \in Nat /\ calls[o].here \in Nat
  BY DEF TypeOK
<1> HIDE DEF left, effects
<1>4. /\ calls' \in [Ops -> Calls]
      /\ \A x \in Ops : x # o => calls'[x] = calls[x]
      /\ InFlight(o)' = left.here + left.gone + left.follow
      /\ calls'[o].here <= left.here
      /\ calls'[o].follow = left.follow
      /\ LocksAfter(o, effects)
      /\ dialogs' \in Seq(Names)
  BY <1>1, <1>2, ReturnIs
<1>5. calls'[o].here <= calls[o].here
  BY <1>2, <1>3, <1>4 DEF Calls
<1>6. calls'[o].follow >= calls[o].follow /\ calls'[o].follow <= calls[o].follow
  BY <1>2, <1>3, <1>4
<1>7. Came(o, from, effects)
  BY <1>2, <1>4, <1>5, <1>6 DEF Came, Endgame, effects
<1>8. UNCHANGED place /\ ErrorOf(effects)
  BY <1>1 DEF Return
<1> QED
  BY <1>1, <1>4, <1>7, <1>8 DEF effects

LEMMA FollowUpIs ==
    ASSUME PlaceOK, TypeOK, NEW o \in Ops, FollowUp(o)
    PROVE  \E effects \in {Op(o).handler.done, Op(o).handler.missed} :
              /\ UNCHANGED place /\ ErrorOf(effects)
              /\ Resend(Sent(effects), ByHandler) /\ behind' \subseteq behind
              /\ Came(o, "follow", effects) /\ LocksAfter(o, effects)
              /\ dialogs' \in Seq(Names) /\ calls[o].follow # 0
<1> DEFINE left == Taken(o, "follow")
<1>1. PICK effects \in {Op(o).handler.done, Op(o).handler.missed} :
         /\ Resend(Sent(effects), ByHandler)
         /\ behind' = IF "patch" \in effects THEN behind \ Op(o).changes ELSE behind
         /\ Return(o, "follow", effects, left)
  BY DEF FollowUp
<1>2. calls[o].follow > 0 /\ calls[o].follow \in Nat /\ calls[o].here \in Nat
  BY DEF FollowUp, TypeOK
<1>3. /\ left \in Calls /\ InFlight(o) # 0
      /\ left.here + left.gone + left.follow = InFlight(o) - 1
      /\ left.here <= calls[o].here /\ left.follow <= calls[o].follow
  BY <1>2, TakenIs
<1> HIDE DEF left
<1>4. /\ calls' \in [Ops -> Calls]
      /\ \A x \in Ops : x # o => calls'[x] = calls[x]
      /\ InFlight(o)' = left.here + left.gone + left.follow
      /\ calls'[o].here <= left.here
      /\ calls'[o].follow = left.follow
      /\ LocksAfter(o, effects)
      /\ dialogs' \in Seq(Names)
  BY <1>1, <1>3, ReturnIs
<1>5. calls'[o].here <= calls[o].here
  BY <1>2, <1>3, <1>4 DEF Calls
<1>6. Came(o, "follow", effects)
  BY <1>3, <1>4, <1>5 DEF Came, Endgame
<1>7. UNCHANGED place /\ ErrorOf(effects)
  BY <1>1 DEF Return
<1>8. behind' \subseteq behind
  BY <1>1
<1> QED
  BY <1>1, <1>2, <1>4, <1>6, <1>7, <1>8

LEMMA EscalateIs ==
    ASSUME PlaceOK, TypeOK, NEW o \in Ops, NEW from \in {"here", "gone"},
           NEW next \in Op(o).handler.escalates, Escalate(o, from, next)
    PROVE  /\ UNCHANGED place /\ error' = error
           /\ Resend({}, ByHandler) /\ behind' = behind
           /\ Came(o, from, Op(o).handler.fail) /\ LocksAfter(o, Op(o).handler.fail)
           /\ dialogs' \in Seq(Names)
<1> DEFINE left == Taken(o, from)
<1>1. /\ calls[o][from] > 0 /\ calls' = [calls EXCEPT ![o] = left]
      /\ Resend({}, ByHandler) /\ behind' = behind /\ UNCHANGED place /\ error' = error
      /\ dialogs' = Append(dialogs, next)
  BY DEF Escalate, Send
<1>2. /\ left \in Calls /\ InFlight(o) # 0
      /\ left.here + left.gone + left.follow = InFlight(o) - 1
      /\ left.here <= calls[o].here /\ left.follow = calls[o].follow
  BY <1>1, TakenIs
<1>3. calls \in [Ops -> Calls] /\ calls[o].follow \in Nat
  BY DEF TypeOK, Calls
<1> HIDE DEF left
<1>4. /\ calls' \in [Ops -> Calls] /\ calls'[o] = left
      /\ \A x \in Ops : x # o => calls'[x] = calls[x]
  BY <1>1, <1>2, <1>3
<1>5. InFlight(o)' = InFlight(o) - 1
  BY <1>2, <1>4 DEF InFlight
<1>6. calls'[o].follow >= calls[o].follow /\ calls'[o].follow <= calls[o].follow
  BY <1>2, <1>3, <1>4
<1>7. Came(o, from, Op(o).handler.fail)
  BY <1>2, <1>4, <1>5, <1>6 DEF Came, Endgame
<1>8. LocksAfter(o, Op(o).handler.fail)
  BY DEF Escalate, LocksAfter
<1>9. dialogs' \in Seq(Names)
  <2>1. next \in Names /\ dialogs \in Seq(Names)
    BY DEF Names, TypeOK
  <2> QED
    BY <1>1, <2>1
<1> QED
  BY <1>1, <1>7, <1>8, <1>9

LEMMA SubmitIs ==
    ASSUME PlaceOK, TypeOK, NEW o \in Ops, Submit(o)
    PROVE  /\ UNCHANGED place /\ ErrorOf(Op(o).handler.start)
           /\ Resend(Sent(Op(o).handler.start), ByHandler) /\ behind' = behind
           /\ Pressed(o) /\ LocksAfter(o, Op(o).handler.start)
           /\ "lock" \in Op(o).handler.start => Op(o).handler.flag \in locks'
           /\ Op(o).handler.held => Op(o).handler.flag \notin locks
           /\ dialogs' \in Seq(Names)
<1> DEFINE effects == Op(o).handler.start
           more == [calls[o] EXCEPT !.here = @ + 1]
           new == IF Leaves(o) THEN Detached(more) ELSE more
<1>1. /\ Affect(o, effects) /\ ErrorOf(effects) /\ UNCHANGED place
      /\ Resend(Sent(effects), ByHandler) /\ behind' = behind
  BY DEF Submit, Send
<1>2. calls' = [calls EXCEPT ![o] = new]
  BY DEF Submit
<1>3. calls \in [Ops -> Calls] /\ calls[o] \in Calls
  BY DEF TypeOK, Calls
<1>4. calls[o].here \in Nat /\ calls[o].gone \in Nat /\ calls[o].follow \in Nat
  BY <1>3 DEF Calls
<1>5. /\ more \in Calls /\ more.here = calls[o].here + 1
      /\ more.gone = calls[o].gone /\ more.follow = calls[o].follow
  BY <1>3, <1>4 DEF Calls
<1> HIDE DEF more
<1>6. /\ new \in Calls /\ new.follow = calls[o].follow
      /\ new.here + new.gone + new.follow = calls[o].here + calls[o].gone + calls[o].follow + 1
      /\ Leaves(o) => new.here = 0
  BY <1>4, <1>5, DetachedIs
<1> HIDE DEF new
<1>7. /\ calls' \in [Ops -> Calls] /\ calls'[o] = new
      /\ \A x \in Ops : x # o => calls'[x] = calls[x]
  BY <1>2, <1>3, <1>6
<1>8. InFlight(o)' = InFlight(o) + 1
  BY <1>6, <1>7 DEF InFlight
<1>9. /\ LocksAfter(o, effects) /\ dialogs' \in Seq(Names)
      /\ "lock" \in effects => Op(o).handler.flag \in locks'
      /\ effects \cap {"close", "shut"} # {} => ~ IsOpen(o)'
  BY <1>1, AffectIs
<1>10. ASSUME LeavesFirst(Op(o))  PROVE calls'[o].here = 0
  <2>1. Op(o).form /\ effects \cap {"close", "shut"} # {}
    BY <1>10 DEF LeavesFirst
  <2>2. dialogs # <<>> /\ Last(dialogs) = o /\ dialogs \in Seq(Names)
    BY <2>1 DEF Submit, NoneOpen, TypeOK
  <2>3. Len(dialogs) \in DOMAIN dialogs /\ dialogs[Len(dialogs)] = o
    BY <2>2 DEF Last
  <2>4. IsOpen(o)
    BY <2>3 DEF IsOpen, Range
  <2>5. Leaves(o)
    BY <1>9, <2>1, <2>4 DEF Leaves
  <2> QED
    BY <1>6, <1>7, <2>5
<1>11. Op(o).handler.held => Op(o).handler.flag \notin locks
  BY DEF Submit, Free, FlagUp
<1> QED
  BY <1>1, <1>6, <1>7, <1>8, <1>9, <1>10, <1>11 DEF Pressed

LEMMA CloseIs ==
    ASSUME PlaceOK, TypeOK, Close
    PROVE  /\ UNCHANGED <<place, data, error, told, locks>>
           /\ calls' \in [Ops -> Calls]
           /\ dialogs' \in Seq(Names)
           /\ \A o \in Ops : /\ InFlight(o)' = InFlight(o)
                             /\ calls'[o].here <= calls[o].here
                             /\ calls'[o].follow = calls[o].follow
<1>1. /\ dialogs # <<>> /\ dialogs' = Front(dialogs)
      /\ calls' = [calls EXCEPT ![Last(dialogs)] = Detached(@)]
      /\ UNCHANGED <<place, data, error, told, locks>>
  BY DEF Close, NoneOpen
<1>2. calls \in [Ops -> Calls] /\ dialogs \in Seq(Names)
  BY DEF TypeOK, Calls
<1>3. dialogs' \in Seq(Names)
  BY <1>1, <1>2 DEF Front
<1> DEFINE d == Last(dialogs)
           new(o) == IF o = d THEN Detached(calls[o]) ELSE calls[o]
<1>4. calls' = [calls EXCEPT ![d] = Detached(@)]
  BY <1>1
<1> HIDE DEF d
<1>5. ASSUME NEW o \in Ops  PROVE calls'[o] = new(o) /\ new(o) \in Calls
  BY <1>2, <1>4, DetachedIs
<1>6. calls' \in [Ops -> Calls]
  <2>1. DOMAIN calls' = Ops /\ calls' = [o \in Ops |-> calls'[o]]
    BY <1>2, <1>4
  <2> HIDE DEF new
  <2> QED
    BY <1>5, <2>1
<1>7. ASSUME NEW o \in Ops
      PROVE  /\ InFlight(o)' = InFlight(o)
             /\ calls'[o].here <= calls[o].here
             /\ calls'[o].follow = calls[o].follow
  <2>1. calls[o].here \in Nat /\ calls[o].gone \in Nat /\ calls[o].follow \in Nat
    BY <1>2 DEF Calls
  <2>2. /\ calls'[o].here = IF o = d THEN 0 ELSE calls[o].here
        /\ calls'[o].gone = IF o = d THEN calls[o].gone + calls[o].here ELSE calls[o].gone
        /\ calls'[o].follow = calls[o].follow
    BY <1>2, <1>5, DetachedIs
  <2>3. /\ InFlight(o)' = calls'[o].here + calls'[o].gone + calls'[o].follow
        /\ InFlight(o) = calls[o].here + calls[o].gone + calls[o].follow
    BY DEF InFlight
  <2>4. CASE o = d
    BY <2>1, <2>2, <2>3, <2>4
  <2>5. CASE o # d
    BY <2>1, <2>2, <2>3, <2>5
  <2> QED
    BY <2>4, <2>5
<1> QED
  BY <1>1, <1>3, <1>6, <1>7

CallsInv == LockInv /\ FollowInv /\ PressInv

LEMMA CallsIs ==
    ASSUME PlaceOK, UNCHANGED place,
           \A f \in locks' :
              /\ Lockable(f)
              /\ \/ Exempt(Stuck, at, f)
                 \/ \E o \in Ops : Op(o).handler.flag = f /\ InFlight(o)' # 0,
           \A o \in Ops : calls'[o].follow # 0 => TRUE \in Op(o).handler.follows,
           \A o \in Ops : LeavesFirst(Op(o)) => calls'[o].here = 0,
           \A o \in Ops : Exclusive(at, Op(o).handler.flag) /\ InFlight(o)' # 0 =>
              /\ Op(o).handler.flag \in locks'
              /\ InFlight(o)' = 1
              /\ \A x \in Ops : x # o /\ Op(x).handler.flag = Op(o).handler.flag
                                  => InFlight(x)' = 0
    PROVE  CallsInv'
<1>1. at' = at /\ Ops' = Ops /\ operations' = operations
  BY PlaceStep
<1>2. LockInv'
  BY <1>1 DEF LockInv, Lockable, Op
<1>3. FollowInv'
  BY <1>1 DEF FollowInv, Op
<1>4. PressInv'
  BY <1>1 DEF PressInv, Alone, Op
<1> QED
  BY <1>2, <1>3, <1>4 DEF CallsInv

\* A flag that waits for its handlers is down while none of them is called.
LEMMA PressedKeepsCalls ==
    ASSUME PlaceOK, TypeOK, CallsInv, UNCHANGED place, NEW o \in Ops, Pressed(o),
           LocksAfter(o, Op(o).handler.start),
           "lock" \in Op(o).handler.start => Op(o).handler.flag \in locks',
           Op(o).handler.held => Op(o).handler.flag \notin locks
    PROVE  CallsInv'
<1> DEFINE flag == Op(o).handler.flag
<1>1. InFlight(o)' = InFlight(o) + 1 /\ \A x \in Ops : x # o => InFlight(x)' = InFlight(x)
  BY DEF Pressed, InFlight
<1>2. \A x \in Ops : InFlight(x) \in Nat
  BY DEF TypeOK, InFlight
<1>3. /\ \A f : f # flag => (f \in locks' <=> f \in locks)
      /\ flag \in locks' => flag \in locks \/ "lock" \in Op(o).handler.start
  BY DEF LocksAfter
<1>4. ASSUME NEW f \in locks'
      PROVE  /\ Lockable(f)
             /\ \/ Exempt(Stuck, at, f)
                \/ \E x \in Ops : Op(x).handler.flag = f /\ InFlight(x)' # 0
  <2>1. CASE f = flag
    <3>1. InFlight(o)' # 0
      BY <1>1, <1>2
    <3>2. CASE f \in locks
      BY <2>1, <3>1, <3>2 DEF CallsInv, LockInv
    <3>3. CASE "lock" \in Op(o).handler.start
      <4>1. Op(o).handler.start \in EffectsOf(at, o)
        BY PlaceIs DEF EffectsOf
      <4>2. Lockable(f)
        BY <2>1, <3>3, <4>1 DEF Lockable
      <4> QED
        BY <2>1, <3>1, <4>2
    <3> QED
      BY <1>3, <2>1, <3>2, <3>3
  <2>2. CASE f # flag
    <3>1. f \in locks
      BY <1>3, <2>2
    <3>2. \A x \in Ops : InFlight(x) # 0 => InFlight(x)' # 0
      BY <1>1, <1>2
    <3> QED
      BY <3>1, <3>2 DEF CallsInv, LockInv
  <2> QED
    BY <2>1, <2>2
<1>5. \A x \in Ops : calls'[x].follow # 0 => TRUE \in Op(x).handler.follows
  BY DEF Pressed, CallsInv, FollowInv
<1>6. \A x \in Ops : LeavesFirst(Op(x)) => calls'[x].here = 0
  BY DEF Pressed, CallsInv, PressInv
<1>7. ASSUME NEW x \in Ops, Exclusive(at, Op(x).handler.flag), InFlight(x)' # 0
      PROVE  /\ Op(x).handler.flag \in locks'
             /\ InFlight(x)' = 1
             /\ \A y \in Ops : y # x /\ Op(y).handler.flag = Op(x).handler.flag
                                 => InFlight(y)' = 0
  <2>1. CASE Op(x).handler.flag = flag
    <3>1. Op(o).handler.held /\ "lock" \in Op(o).handler.start
      BY <1>7, <2>1, PlaceIs DEF Exclusive
    <3>2. flag \notin locks /\ flag \in locks'
      BY <3>1
    <3>3. ASSUME NEW y \in Ops, Op(y).handler.flag = flag  PROVE InFlight(y) = 0
      BY <1>7, <2>1, <3>2, <3>3 DEF CallsInv, PressInv, Alone
    <3>4. x = o /\ InFlight(o)' = 1
      BY <1>1, <1>7, <2>1, <3>3
    <3> QED
      BY <1>1, <2>1, <3>2, <3>3, <3>4
  <2>2. CASE Op(x).handler.flag # flag
    <3>1. x # o /\ InFlight(x) # 0
      BY <1>1, <1>7, <2>2
    <3>2. Alone(x)
      BY <1>7, <3>1 DEF CallsInv, PressInv
    <3>3. \A y \in Ops : Op(y).handler.flag = Op(x).handler.flag => y # o
      BY <2>2
    <3> QED
      BY <1>1, <1>3, <2>2, <3>1, <3>2, <3>3 DEF Alone
  <2> QED
    BY <2>1, <2>2
<1> QED
  BY <1>4, <1>5, <1>6, <1>7, CallsIs

\* A flag comes down with the last answer that those who share it wait for.
LEMMA CameKeepsCalls ==
    ASSUME PlaceOK, TypeOK, CallsInv, UNCHANGED place, NEW o \in Ops, NEW from,
           NEW effects, Came(o, from, effects), LocksAfter(o, effects)
    PROVE  CallsInv'
<1> DEFINE flag == Op(o).handler.flag
<1>1. /\ InFlight(o) # 0
      /\ \A x \in Ops : x # o => calls'[x] = calls[x]
      /\ \A x \in Ops : x # o => InFlight(x)' = InFlight(x)
  BY DEF Came, InFlight
<1>2. /\ \A x \in Ops : InFlight(x) \in Nat /\ calls[x].here \in Nat /\ calls[x].follow \in Nat
      /\ calls'[o].here \in Nat /\ calls'[o].follow \in Nat
  <2>1. /\ calls \in [Ops -> Calls] /\ calls' \in [Ops -> Calls]
    BY DEF TypeOK, Came, Calls
  <2> QED
    BY <2>1 DEF InFlight, Calls
<1>3. /\ \A f : f # flag => (f \in locks' <=> f \in locks)
      /\ flag \in locks' => flag \in locks \/ "lock" \in effects
      /\ "unlock" \in effects /\ "lock" \notin effects => flag \notin locks'
      /\ flag \in locks /\ "unlock" \notin effects => flag \in locks'
  BY DEF LocksAfter
<1>4. \/ /\ TRUE \in Op(o).handler.follows /\ effects = Op(o).handler.late
         /\ InFlight(o)' = InFlight(o)
      \/ /\ effects \in Endgame(o)
         /\ InFlight(o)' = InFlight(o) - 1
  BY DEF Came
<1>5. effects \in EffectsOf(at, o) /\ o \in OpsOf(at) /\ Ops = OpsOf(at)
      /\ \A x : Op(x) = OpOf(at, x)
  BY <1>4, PlaceIs DEF EffectsOf, Endgame
<1>6. ASSUME NEW f \in locks'
      PROVE  /\ Lockable(f)
             /\ \/ Exempt(Stuck, at, f)
                \/ \E x \in Ops : Op(x).handler.flag = f /\ InFlight(x)' # 0
  <2>1. Lockable(f)
    <3>1. CASE f \in locks
      BY <3>1 DEF CallsInv, LockInv
    <3>2. CASE f = flag /\ "lock" \in effects
      BY <1>5, <3>2 DEF Lockable
    <3> QED
      BY <1>3, <3>1, <3>2
  <2>2. ASSUME ~ Exempt(Stuck, at, f)
        PROVE  \E x \in Ops : Op(x).handler.flag = f /\ InFlight(x)' # 0
    <3>1. CASE f # flag
      <4>1. PICK x \in Ops : Op(x).handler.flag = f /\ InFlight(x) # 0
        BY <1>3, <2>2, <3>1 DEF CallsInv, LockInv
      <4>2. InFlight(x)' = InFlight(x)
        BY <1>1, <3>1, <4>1
      <4> QED
        BY <4>1, <4>2
    <3>2. CASE f = flag
      <4>1. CASE InFlight(o)' = InFlight(o)
        BY <1>1, <3>2, <4>1
      <4>2. CASE effects \in Endgame(o)
        <5>1. FlagIsLowered(at, flag)
          BY <1>5, <2>2, <3>2, PlaceIs DEF FlagsComeDown
        <5>2. "unlock" \in effects /\ "lock" \notin effects
          BY <1>5, <2>1, <3>2, <4>2, <5>1 DEF FlagIsLowered, Lockable, Endgame
        <5> QED
          BY <1>3, <3>2, <5>2
      <4> QED
        BY <1>4, <4>1, <4>2
    <3> QED
      BY <3>1, <3>2
  <2> QED
    BY <2>1, <2>2
<1>7. ASSUME NEW x \in Ops, calls'[x].follow # 0  PROVE TRUE \in Op(x).handler.follows
  <2>1. CASE x # o
    BY <1>1, <1>7, <2>1 DEF CallsInv, FollowInv
  <2>2. CASE x = o /\ TRUE \notin Op(o).handler.follows
    <3>1. calls'[o].follow <= calls[o].follow
      BY <2>2 DEF Came
    <3>2. calls[o].follow # 0
      BY <1>2, <1>7, <2>2, <3>1
    <3> QED
      BY <2>2, <3>2 DEF CallsInv, FollowInv
  <2> QED
    BY <2>1, <2>2
<1>8. ASSUME NEW x \in Ops, LeavesFirst(Op(x))  PROVE calls'[x].here = 0
  <2>1. calls[x].here = 0
    BY <1>8 DEF CallsInv, PressInv
  <2>2. CASE x = o
    <3>1. calls'[o].here <= calls[o].here
      BY DEF Came
    <3> QED
      BY <1>2, <2>1, <2>2, <3>1
  <2>3. CASE x # o
    BY <1>1, <2>1, <2>3
  <2> QED
    BY <2>2, <2>3
<1>9. ASSUME NEW x \in Ops, Exclusive(at, Op(x).handler.flag), InFlight(x)' # 0
      PROVE  /\ Op(x).handler.flag \in locks'
             /\ InFlight(x)' = 1
             /\ \A y \in Ops : y # x /\ Op(y).handler.flag = Op(x).handler.flag
                                 => InFlight(y)' = 0
  <2>1. CASE Op(x).handler.flag = flag
    <3>1. Alone(o)
      BY <1>1, <1>9, <2>1 DEF CallsInv, PressInv
    <3>2. x = o
      BY <1>1, <1>9, <2>1, <3>1 DEF Alone
    <3>3. InFlight(o)' = InFlight(o) /\ TRUE \in Op(o).handler.follows
          /\ effects = Op(o).handler.late
      <4>1. InFlight(o) = 1
        BY <3>1 DEF Alone
      <4>2. InFlight(o)' # 0
        BY <1>9, <3>2
      <4>3. InFlight(o)' # InFlight(o) - 1
        BY <4>1, <4>2
      <4> QED
        BY <1>4, <4>3
    <3>4. "unlock" \notin effects
      BY <1>5, <1>9, <2>1, <3>3 DEF Exclusive
    <3>5. flag \in locks'
      BY <1>3, <3>1, <3>4 DEF Alone
    <3> QED
      BY <1>1, <3>1, <3>2, <3>3, <3>5 DEF Alone
  <2>2. CASE Op(x).handler.flag # flag
    <3>1. x # o /\ InFlight(x) # 0
      BY <1>1, <1>9, <2>2
    <3>2. Alone(x)
      BY <1>9, <3>1 DEF CallsInv, PressInv
    <3>3. \A y \in Ops : Op(y).handler.flag = Op(x).handler.flag => y # o
      BY <2>2
    <3> QED
      BY <1>1, <1>3, <2>2, <3>1, <3>2, <3>3 DEF Alone
  <2> QED
    BY <2>1, <2>2
<1> QED
  BY <1>6, <1>7, <1>8, <1>9, CallsIs

\* Nobody takes down the flag of a handler that must wait for it.
LEMMA EndedKeepsCalls ==
    ASSUME PlaceOK, TypeOK, QueuesOK, CallsInv, NEW l \in Loads, NEW i \in 1 .. Len(asked[l]),
           NEW kind \in {"done", "fail"}, Ended(l, i, kind)
    PROVE  CallsInv'
<1> DEFINE effects == Outcome(l, asked[l][i], kind)
<1>1. effects \in Endings(LoadOf(at, l), kind) /\ l \in LoadsOf(at) /\ page.loads[l] = LoadOf(at, l)
  BY OutcomeIs, PlaceIs
<1>2. /\ locks' = locks \ (IF "unspin" \in effects THEN {page.loads[l].flag} ELSE {})
      /\ calls' = calls /\ UNCHANGED place
  BY DEF Ended, Settle
<1> HIDE DEF effects
<1>3. /\ locks' \subseteq locks
      /\ \A f : f \in locks /\ f \notin locks' => "unspin" \in effects /\ f = page.loads[l].flag
  BY <1>2
<1>4. \A o \in Ops : InFlight(o)' = InFlight(o)
  BY <1>2 DEF InFlight
<1>5. ASSUME NEW f \in locks'
      PROVE  /\ Lockable(f)
             /\ \/ Exempt(Stuck, at, f)
                \/ \E x \in Ops : Op(x).handler.flag = f /\ InFlight(x)' # 0
  BY <1>3, <1>4 DEF CallsInv, LockInv
<1>6. ASSUME NEW x \in Ops, Exclusive(at, Op(x).handler.flag), InFlight(x)' # 0
      PROVE  /\ Op(x).handler.flag \in locks'
             /\ InFlight(x)' = 1
             /\ \A y \in Ops : y # x /\ Op(y).handler.flag = Op(x).handler.flag
                                 => InFlight(y)' = 0
  <2>1. Alone(x)
    BY <1>4, <1>6 DEF CallsInv, PressInv
  <2>2. Op(x).handler.flag = page.loads[l].flag => "unspin" \notin effects
    BY <1>1, <1>6 DEF Exclusive
  <2>3. Op(x).handler.flag \in locks'
    BY <1>3, <2>1, <2>2 DEF Alone
  <2> QED
    BY <1>4, <2>1, <2>3 DEF Alone
<1>7. /\ \A o \in Ops : calls'[o].follow # 0 => TRUE \in Op(o).handler.follows
      /\ \A o \in Ops : LeavesFirst(Op(o)) => calls'[o].here = 0
  BY <1>2 DEF CallsInv, FollowInv, PressInv
<1> QED
  BY <1>2, <1>5, <1>6, <1>7, CallsIs

\* The calls go on without the dialog that is closed.
LEMMA SameCalls ==
    ASSUME PlaceOK, TypeOK, CallsInv, UNCHANGED <<place, locks>>,
           \A o \in Ops : /\ InFlight(o)' = InFlight(o)
                          /\ calls'[o].here <= calls[o].here /\ calls'[o].here \in Nat
                          /\ calls'[o].follow = calls[o].follow
    PROVE  CallsInv'
<1>1. \A f \in locks' :
         /\ Lockable(f)
         /\ \/ Exempt(Stuck, at, f)
            \/ \E o \in Ops : Op(o).handler.flag = f /\ InFlight(o)' # 0
  BY DEF CallsInv, LockInv
<1>2. \A o \in Ops : calls'[o].follow # 0 => TRUE \in Op(o).handler.follows
  BY DEF CallsInv, FollowInv
<1>3. ASSUME NEW o \in Ops, LeavesFirst(Op(o))  PROVE calls'[o].here = 0
  <2>1. calls[o].here = 0 /\ calls'[o].here <= calls[o].here /\ calls'[o].here \in Nat
    BY <1>3 DEF CallsInv, PressInv
  <2> QED
    BY <2>1
<1>4. ASSUME NEW o \in Ops, Exclusive(at, Op(o).handler.flag), InFlight(o)' # 0
      PROVE  /\ Op(o).handler.flag \in locks'
             /\ InFlight(o)' = 1
             /\ \A x \in Ops : x # o /\ Op(x).handler.flag = Op(o).handler.flag
                                 => InFlight(x)' = 0
  BY <1>4 DEF CallsInv, PressInv, Alone
<1> QED
  BY <1>1, <1>2, <1>3, <1>4, CallsIs

-----------------------------------------------------------------------------
(* What was changed is seen.                                               *)

\* Something still follows the change after a step.
PendingNext(l) ==
    \E o \in Ops :
        l \in Op(o).changes /\ l \notin Sent(Op(o).handler.late) /\ calls'[o].follow # 0

LEMMA SeenIs ==
    ASSUME PlaceOK, UNCHANGED place,
           \A l \in Loads : AsksAgain(at, l) /\ InDoubt(l)' =>
              SaidNext(l) \/ HasFresh(asked'[l]) \/ PendingNext(l)
    PROVE  SeenInv'
<1>1. at' = at /\ page' = page /\ Loads' = Loads /\ Ops' = Ops /\ operations' = operations
  BY PlaceStep
<1>2. \A o : Op(o)' = Op(o)
  BY <1>1 DEF Op
<1>3. \A effects : Sent(effects)' = Sent(effects)
  BY <1>1 DEF Sent
<1>4. \A l : PendingNext(l) => Pending(l)'
  BY <1>1, <1>2, <1>3 DEF Pending, PendingNext
<1>5. \A l : SaidNext(l) => Said(l)'
  BY DEF Said, SaidNext
<1> QED
  BY <1>1, <1>4, <1>5 DEF SeenInv

\* A load that nothing happened to is in doubt as it was.
LEMMA SameDoubt ==
    ASSUME NEW l, asked'[l] = asked[l], shown'[l] = shown[l], overtaken' = overtaken,
           l \in behind' => l \in behind, InDoubt(l)'
    PROVE  InDoubt(l)
  BY DEF InDoubt

LEMMA ResentKeepsSeen ==
    ASSUME PlaceOK, SeenInv, UNCHANGED place, NEW ls \in SUBSET Loads, Resent(ls),
           behind' \subseteq behind, ErrorKept(ls),
           \A l \in Loads : AsksAgain(at, l) /\ l \notin ls /\ Pending(l) =>
              PendingNext(l) \/ SaidNext(l)
    PROVE  SeenInv'
<1>1. ASSUME NEW l \in Loads, AsksAgain(at, l), InDoubt(l)'
      PROVE  SaidNext(l) \/ HasFresh(asked'[l]) \/ PendingNext(l)
  <2>1. CASE l \in ls
    BY <2>1 DEF Resent, Renewed
  <2>2. CASE l \notin ls
    <3>1. InDoubt(l) /\ asked'[l] = asked[l]
      BY <1>1, <2>2, SameDoubt DEF Resent
    <3>2. Said(l) \/ HasFresh(asked[l]) \/ Pending(l)
      BY <1>1, <3>1 DEF SeenInv
    <3>3. Said(l) => SaidNext(l)
      BY <1>1, <2>2 DEF ErrorKept, AsksAgain, FailuresAreSaid
    <3> QED
      BY <1>1, <2>2, <3>1, <3>2, <3>3
  <2> QED
    BY <2>1, <2>2
<1> QED
  BY <1>1, SeenIs

\* What asks for the rows again after a change.
LEMMA AsksAgainIs ==
    ASSUME PlaceOK, NEW l, AsksAgain(at, l), NEW o \in Ops, l \in Op(o).changes,
           l \notin Sent(Op(o).handler.late) \/ FALSE \in Op(o).handler.follows
    PROVE  /\ l \in Sent(Op(o).handler.done)
           /\ TRUE \in Op(o).handler.follows =>
                 l \in Sent(Op(o).handler.missed) \/ "error" \in Op(o).handler.missed
<1>1. Ops = OpsOf(at) /\ Op(o) = OpOf(at, o)
  BY PlaceIs
<1>2. \A effects : Sent(effects) = SentOn(at, effects)
  BY PlaceIs
<1>3. ~ AsksAtOnce(at, l, Op(o).handler)
  BY <1>2 DEF AsksAtOnce
<1>4. AsksInTheEnd(at, l, Op(o).handler)
  BY <1>1, <1>3 DEF AsksAgain
<1> QED
  BY <1>2, <1>4 DEF AsksInTheEnd

\* The change that is made brings a request of its own, or something that follows.
LEMMA AnsweredKeepsSeen ==
    ASSUME PlaceOK, TypeOK, SeenInv, UNCHANGED place, NEW o \in Ops,
           NEW effects \in {Op(o).handler.done, Op(o).handler.late},
           Answered(o, Sent(effects), effects), ErrorKept(Sent(effects)),
           \/ effects = Op(o).handler.done /\ FALSE \in Op(o).handler.follows
           \/ effects = Op(o).handler.late /\ calls'[o].follow # 0,
           \A x \in Ops : calls[x].follow # 0 => calls'[x].follow # 0
    PROVE  SeenInv'
<1>1. ASSUME NEW l \in Loads, AsksAgain(at, l), InDoubt(l)'
      PROVE  SaidNext(l) \/ HasFresh(asked'[l]) \/ PendingNext(l)
  <2>1. CASE l \in Sent(effects)
    BY <2>1 DEF Answered, Renewed
  <2>2. CASE l \notin Sent(effects) /\ l \in Op(o).changes
    <3>1. FALSE \in Op(o).handler.follows => l \in Sent(Op(o).handler.done)
      BY <1>1, <2>2, AsksAgainIs
    <3>2. effects = Op(o).handler.late /\ calls'[o].follow # 0
      BY <2>2, <3>1
    <3> QED
      BY <2>2, <3>2 DEF PendingNext
  <2>3. CASE l \notin Sent(effects) /\ l \notin Op(o).changes
    <3>1. InDoubt(l) /\ asked'[l] = asked[l]
      BY <1>1, <2>3, SameDoubt DEF Answered
    <3>2. Said(l) \/ HasFresh(asked[l]) \/ Pending(l)
      BY <1>1, <3>1 DEF SeenInv
    <3>3. Said(l) => SaidNext(l)
      BY <1>1, <2>3 DEF ErrorKept, AsksAgain, FailuresAreSaid
    <3>4. Pending(l) => PendingNext(l)
      BY DEF Pending, PendingNext
    <3> QED
      BY <3>1, <3>2, <3>3, <3>4
  <2> QED
    BY <2>1, <2>2, <2>3
<1> QED
  BY <1>1, SeenIs

\* What follows asks again itself, or says that it could not.
LEMMA FollowUpKeepsPending ==
    ASSUME PlaceOK, TypeOK, FollowInv, NEW o \in Ops, calls[o].follow # 0,
           NEW effects \in {Op(o).handler.done, Op(o).handler.missed},
           ErrorOf(effects), \A x \in Ops : x # o => calls'[x] = calls[x],
           NEW l \in Loads, AsksAgain(at, l), l \notin Sent(effects), Pending(l)
    PROVE  PendingNext(l) \/ SaidNext(l)
<1>1. PICK x \in Ops : /\ l \in Op(x).changes /\ calls[x].follow # 0
                       /\ l \notin Sent(Op(x).handler.late)
  BY DEF Pending
<1>2. CASE x # o
  BY <1>1, <1>2 DEF PendingNext
<1>3. CASE x = o
  <2>1. TRUE \in Op(o).handler.follows
    BY DEF FollowInv
  <2>2. /\ l \in Sent(Op(o).handler.done)
        /\ l \in Sent(Op(o).handler.missed) \/ "error" \in Op(o).handler.missed
    BY <1>1, <1>3, <2>1, AsksAgainIs
  <2> QED
    BY <2>2 DEF ErrorOf, SaidNext
<1> QED
  BY <1>2, <1>3

LEMMA RefreshKeepsSeen ==
    ASSUME PlaceOK, TypeOK, DataInv, SeenInv, NEW l \in Loads, Refresh(l)
    PROVE  SeenInv'
<1>1. UNCHANGED <<place, shown, behind, overtaken, error, calls>> /\ told' = told \ {l}
  BY DEF Refresh
<1>2. HasFresh(asked'[l]) /\ \A k \in Loads : k # l => asked'[k] = asked[k]
  BY RefreshIs
<1>3. ASSUME NEW k \in Loads, AsksAgain(at, k), InDoubt(k)', k # l
      PROVE  SaidNext(k) \/ HasFresh(asked'[k]) \/ PendingNext(k)
  <2>1. InDoubt(k) /\ asked'[k] = asked[k]
    BY <1>1, <1>2, <1>3, SameDoubt
  <2> QED
    BY <1>1, <1>3, <2>1 DEF SeenInv, Pending, PendingNext, Said, SaidNext
<1> QED
  BY <1>1, <1>2, <1>3, SeenIs

LEMMA AbandonKeepsSeen ==
    ASSUME PlaceOK, TypeOK, SeenInv, NEW l \in Loads, Abandon(l)
    PROVE  SeenInv'
<1>1. /\ UNCHANGED <<place, behind, overtaken, error, told, calls>>
      /\ asked'[l] = <<>> /\ shown'[l] = "unasked"
      /\ \A k \in Loads : k # l => asked'[k] = asked[k] /\ shown'[k] = shown[k]
  BY DEF Abandon, TypeOK
<1>2. ~ InDoubt(l)'
  BY <1>1 DEF InDoubt, Doubtful
<1>3. ASSUME NEW k \in Loads, AsksAgain(at, k), InDoubt(k)', k # l
      PROVE  SaidNext(k) \/ HasFresh(asked'[k]) \/ PendingNext(k)
  <2>1. InDoubt(k) /\ asked'[k] = asked[k]
    BY <1>1, <1>3, SameDoubt
  <2> QED
    BY <1>1, <1>3, <2>1 DEF SeenInv, Pending, PendingNext, Said, SaidNext
<1> QED
  BY <1>1, <1>2, <1>3, SeenIs

\* An answer settles the doubt, or leaves the request that will.
LEMMA AnswerKeepsSeen ==
    ASSUME PlaceOK, TypeOK, QueuesOK, SeenInv, NEW l \in Loads, NEW i \in DOMAIN asked[l],
           Answer(l, i)
    PROVE  SeenInv'
<1>1. i \in 1 .. Len(asked[l]) /\ Ended(l, i, "done") /\ asked'[l] = Overtake(asked[l], i)
  BY AnswerEnds
<1>2. /\ UNCHANGED place /\ calls' = calls
      /\ Shortened(asked[l], i, asked'[l])
      /\ \A k \in Loads : k # l => asked'[k] = asked[k] /\ shown'[k] = shown[k]
  BY <1>1 DEF Ended, Settle
<1>3. /\ overtaken' = IF asked[l][i].late THEN overtaken \cup {l} ELSE overtaken \ {l}
      /\ behind' = behind \ {l} \/ (asked[l][i].old /\ behind' = behind \cup {l})
  BY DEF Answer
<1>4. QueueOK(page.loads[l], asked[l]) /\ asked[l] \in Seq(Request)
  BY DEF QueuesOK, QueueOK
<1>5. ErrorKept({l}) /\ (AsksAgain(at, l) /\ Said(l) => SaidNext(l))
  BY <1>1, EndedKeepsError
<1>6. ASSUME AsksAgain(at, l), InDoubt(l)'
      PROVE  SaidNext(l) \/ HasFresh(asked'[l]) \/ PendingNext(l)
  <2>1. CASE ~ asked[l][i].old
    <3>1. ~ Doubtful(asked'[l])
      BY <1>1, <1>4, <2>1, OvertakeSettles
    <3>2. l \notin behind'
      BY <1>3, <2>1
    <3> QED
      BY <1>6, <3>1, <3>2 DEF InDoubt
  <2>2. CASE asked[l][i].old
    <3>1. Doubtful(asked[l])
      <4>1. CASE asked[l][i].late
        <5>1. Doubtful(asked'[l])
          BY <1>3, <1>6, <4>1 DEF InDoubt
        <5> QED
          BY <1>1, <1>2, <1>4, <5>1, ShortenedDoubt
      <4>2. CASE ~ asked[l][i].late
        BY <1>1, <2>2, <4>2 DEF Doubtful
      <4> QED
        BY <4>1, <4>2
    <3>2. Said(l) \/ HasFresh(asked[l]) \/ Pending(l)
      BY <1>6, <3>1 DEF SeenInv, InDoubt
    <3>3. HasFresh(asked[l]) => HasFresh(asked'[l])
      BY <1>1, <1>2, <1>4, <2>2, ShortenedFresh
    <3>4. Pending(l) => PendingNext(l)
      BY <1>2 DEF Pending, PendingNext
    <3> QED
      BY <1>5, <1>6, <3>2, <3>3, <3>4
  <2> QED
    BY <2>1, <2>2
<1>7. ASSUME NEW k \in Loads, AsksAgain(at, k), InDoubt(k)', k # l
      PROVE  SaidNext(k) \/ HasFresh(asked'[k]) \/ PendingNext(k)
  <2>1. InDoubt(k) /\ asked'[k] = asked[k]
    BY <1>2, <1>3, <1>7 DEF InDoubt
  <2>2. Said(k) \/ HasFresh(asked[k]) \/ Pending(k)
    BY <1>7, <2>1 DEF SeenInv
  <2>3. Said(k) => SaidNext(k)
    BY <1>5, <1>7 DEF ErrorKept, AsksAgain, FailuresAreSaid
  <2>4. Pending(k) => PendingNext(k)
    BY <1>2 DEF Pending, PendingNext
  <2> QED
    BY <2>1, <2>2, <2>3, <2>4
<1> QED
  BY <1>2, <1>6, <1>7, SeenIs

LEMMA FailKeepsSeen ==
    ASSUME PlaceOK, TypeOK, QueuesOK, SeenInv, NEW l \in Loads, NEW i \in DOMAIN asked[l],
           Fail(l, i)
    PROVE  SeenInv'
<1>1. i \in 1 .. Len(asked[l]) /\ Ended(l, i, "fail")
  BY FailEnds
<1>2. /\ UNCHANGED place /\ calls' = calls
      /\ \A k \in Loads : k # l => asked'[k] = asked[k] /\ shown'[k] = shown[k]
      /\ UNCHANGED <<overtaken, behind>>
  BY <1>1 DEF Ended, Settle, Fail
<1>3. ErrorKept({l}) /\ (SaysItFailed(LoadOf(at, l)) => SaidNext(l))
  BY <1>1, EndedKeepsError
<1>4. AsksAgain(at, l) => SaidNext(l)
  BY <1>3 DEF AsksAgain, FailuresAreSaid
<1>5. ASSUME NEW k \in Loads, AsksAgain(at, k), InDoubt(k)', k # l
      PROVE  SaidNext(k) \/ HasFresh(asked'[k]) \/ PendingNext(k)
  <2>1. InDoubt(k) /\ asked'[k] = asked[k]
    BY <1>2, <1>5, SameDoubt
  <2>2. Said(k) \/ HasFresh(asked[k]) \/ Pending(k)
    BY <1>5, <2>1 DEF SeenInv
  <2>3. Said(k) => SaidNext(k)
    BY <1>3, <1>5 DEF ErrorKept, AsksAgain, FailuresAreSaid
  <2>4. Pending(k) => PendingNext(k)
    BY <1>2 DEF Pending, PendingNext
  <2> QED
    BY <2>1, <2>2, <2>3, <2>4
<1> QED
  BY <1>2, <1>4, <1>5, SeenIs

LEMMA SameSeen ==
    ASSUME PlaceOK, SeenInv, UNCHANGED <<place, data, error, told>>,
           \A o \in Ops : calls'[o].follow = calls[o].follow
    PROVE  SeenInv'
<1>1. /\ UNCHANGED place /\ error' = error /\ asked' = asked /\ shown' = shown
      /\ behind' = behind /\ overtaken' = overtaken /\ told' = told
  BY DEF data
<1>2. ASSUME NEW l \in Loads, AsksAgain(at, l), InDoubt(l)'
      PROVE  SaidNext(l) \/ HasFresh(asked'[l]) \/ PendingNext(l)
  <2>1. InDoubt(l)
    BY <1>1, <1>2, SameDoubt
  <2> QED
    BY <1>1, <1>2, <2>1 DEF SeenInv, Pending, PendingNext, Said, SaidNext
<1> QED
  BY <1>1, <1>2, SeenIs

-----------------------------------------------------------------------------
(* What is patched by hand was there.                                      *)

Patched(l) == PatchesByHand(at, l) /\ Changeable(l)

LEMMA PatchIs ==
    ASSUME PlaceOK, UNCHANGED place,
           \A l \in Loads : Patched(l) =>
              /\ l \notin behind'
              /\ Len(asked'[l]) <= 1
              /\ asked'[l] # <<>> => l \in spin' /\ ~ asked'[l][1].old
              /\ \A o \in Ops : l \in Op(o).changes /\ InFlight(o)' # 0 => asked'[l] = <<>>
    PROVE  PatchInv'
<1>1. at' = at /\ Loads' = Loads /\ Ops' = Ops /\ operations' = operations
  BY PlaceStep
<1> QED
  BY <1>1 DEF PatchInv, Patched, Changeable, Op

\* Nothing sends such a load again, and nothing else has its flag.
LEMMA PatchedIs ==
    ASSUME PlaceOK, NEW l \in Loads, Patched(l)
    PROVE  /\ page.loads[l].at = {"mount"} /\ page.loads[l].again = {}
           /\ page.loads[l].start \cap OnMount # {} /\ ~ page.loads[l].abandons
           /\ \A k \in Loads : k # l => page.loads[k].flag # page.loads[l].flag
           /\ \A o \in Ops : \A effects \in EffectsOf(at, o) : l \notin Sent(effects)
           /\ \A o \in Ops : l \in Op(o).changes =>
                 /\ ~ Op(o).form /\ ~ Op(o).toast
                 /\ Op(o).handler.follows = {FALSE} /\ "patch" \in Op(o).handler.done
                 /\ \A region \in page.regions : o \in DOMAIN region.ops =>
                       page.loads[l].flag \in page.gates \cup region.hiddenBy
<1>1. /\ Loads = LoadsOf(at) /\ Ops = OpsOf(at) /\ \A k : page.loads[k] = LoadOf(at, k)
      /\ \A o : Op(o) = OpOf(at, o)
      /\ page.regions = Rules[at].regions /\ page.gates = Rules[at].gates
  BY PlaceIs
<1>2. OnlyOnce(at, l) /\ PatchesByHand(at, l)
  BY DEF Patched, PatchesByHand
<1>3. \A o \in Ops : \A effects \in EffectsOf(at, o) : l \notin Sent(effects)
  <2> TAKE o \in Ops
  <2> TAKE effects \in EffectsOf(at, o)
  <2>1. "mount" \notin effects
    BY <1>1, <1>2 DEF OnlyOnce
  <2>2. page.loads[l].at = {"mount"}
    BY <1>1, <1>2 DEF OnlyOnce
  <2> QED
    BY <2>1, <2>2 DEF Sent
<1>4. /\ page.loads[l].at = {"mount"} /\ page.loads[l].again = {}
      /\ page.loads[l].start \cap OnMount # {} /\ ~ page.loads[l].abandons
      /\ \A k \in Loads : k # l => page.loads[k].flag # page.loads[l].flag
  BY <1>1, <1>2 DEF OnlyOnce
<1>5. \A o \in Ops : l \in Op(o).changes =>
         /\ ~ Op(o).form /\ ~ Op(o).toast
         /\ Op(o).handler.follows = {FALSE} /\ "patch" \in Op(o).handler.done
         /\ \A region \in page.regions : o \in DOMAIN region.ops =>
               page.loads[l].flag \in page.gates \cup region.hiddenBy
  BY <1>1, <1>2 DEF PatchesByHand
<1> QED
  BY <1>3, <1>4, <1>5

LEMMA ResentKeepsPatch ==
    ASSUME PlaceOK, PatchInv, UNCHANGED place, NEW ls \in SUBSET Loads, Resent(ls),
           behind' \subseteq behind,
           \A l \in Loads : Patched(l) => l \notin ls,
           \A l \in Loads : \A o \in Ops :
              Patched(l) /\ l \in Op(o).changes /\ InFlight(o)' # 0 =>
                 InFlight(o) # 0 \/ asked[l] = <<>>
    PROVE  PatchInv'
<1>1. ASSUME NEW l \in Loads, Patched(l)
      PROVE  /\ l \notin behind'
             /\ Len(asked'[l]) <= 1
             /\ asked'[l] # <<>> => l \in spin' /\ ~ asked'[l][1].old
             /\ \A o \in Ops : l \in Op(o).changes /\ InFlight(o)' # 0 => asked'[l] = <<>>
  <2>1. asked'[l] = asked[l] /\ spin \subseteq spin'
    BY <1>1 DEF Resent
  <2> QED
    BY <1>1, <2>1 DEF PatchInv, Patched
<1> QED
  BY <1>1, PatchIs

LEMMA AnsweredKeepsPatch ==
    ASSUME PlaceOK, QueuesOK, PatchInv, UNCHANGED place, NEW o \in Ops,
           NEW effects \in {Op(o).handler.done, Op(o).handler.late},
           Answered(o, Sent(effects), effects), InFlight(o) # 0,
           effects = Op(o).handler.done \/ TRUE \in Op(o).handler.follows,
           \A x \in Ops : InFlight(x)' # 0 => InFlight(x) # 0
    PROVE  PatchInv'
<1>1. ASSUME NEW l \in Loads, Patched(l)
      PROVE  /\ l \notin behind'
             /\ Len(asked'[l]) <= 1
             /\ asked'[l] # <<>> => l \in spin' /\ ~ asked'[l][1].old
             /\ \A x \in Ops : l \in Op(x).changes /\ InFlight(x)' # 0 => asked'[l] = <<>>
  <2>1. effects \in EffectsOf(at, o)
    BY PlaceIs DEF EffectsOf
  <2>2. l \notin Sent(effects)
    BY <1>1, <2>1, PatchedIs
  <2>3. l \notin behind /\ spin \subseteq spin'
    BY <1>1 DEF PatchInv, Patched, Answered
  <2>4. CASE l \in Op(o).changes
    <3>1. asked[l] = <<>>
      BY <1>1, <2>4 DEF PatchInv, Patched
    <3>2. asked'[l] = <<>>
      <4>1. QueueOK(page.loads[l], asked[l])
        BY DEF QueuesOK
      <4>2. Len(Aged(asked[l])) = Len(asked[l]) /\ Aged(asked[l]) \in Seq(Request)
        BY <4>1, AgedOK DEF QueueOK
      <4>3. Aged(asked[l]) = <<>>
        BY <3>1, <4>2
      <4> QED
        BY <2>2, <3>1, <4>3 DEF Answered
    <3>3. effects = Op(o).handler.done /\ "patch" \in effects
      BY <1>1, <2>4, PatchedIs
    <3>4. l \notin behind'
      BY <2>3, <3>3 DEF Answered
    <3> QED
      BY <3>2, <3>4
  <2>5. CASE l \notin Op(o).changes
    <3>1. asked'[l] = asked[l] /\ l \notin behind'
      BY <2>2, <2>3, <2>5 DEF Answered
    <3> QED
      BY <1>1, <2>3, <3>1 DEF PatchInv, Patched
  <2> QED
    BY <2>4, <2>5
<1> QED
  BY <1>1, PatchIs

\* Who would change the rows is hidden until they are there.
LEMMA SubmitWaits ==
    ASSUME PlaceOK, PatchInv, NEW o \in Ops, Submit(o),
           NEW l \in Loads, Patched(l), l \in Op(o).changes
    PROVE  asked[l] = <<>>
<1>1. ~ Op(o).form /\ ~ Op(o).toast
      /\ \A region \in page.regions : o \in DOMAIN region.ops =>
            page.loads[l].flag \in page.gates \cup region.hiddenBy
  BY PatchedIs
<1>2. Offered(o)
  BY <1>1 DEF Submit
<1>3. PICK region \in page.regions : o \in DOMAIN region.ops /\ Visible(region)
  BY <1>1, <1>2 DEF Offered
<1>4. ~ FlagUp(page.loads[l].flag)
  BY <1>1, <1>3 DEF Visible, Whole
<1>5. l \notin spin
  BY <1>4 DEF FlagUp
<1> QED
  BY <1>5 DEF PatchInv, Patched

LEMMA RefreshKeepsPatch ==
    ASSUME PlaceOK, TypeOK, DataInv, PatchInv, NEW l \in Loads, Refresh(l)
    PROVE  PatchInv'
<1>1. UNCHANGED <<place, behind, calls>> /\ spin \subseteq spin' /\ page.loads[l].again # {}
      /\ \A k \in Loads : k # l => asked'[k] = asked[k]
  BY RefreshIs DEF Refresh
<1>2. ASSUME NEW k \in Loads, Patched(k)
      PROVE  /\ k \notin behind'
             /\ Len(asked'[k]) <= 1
             /\ asked'[k] # <<>> => k \in spin' /\ ~ asked'[k][1].old
             /\ \A o \in Ops : k \in Op(o).changes /\ InFlight(o)' # 0 => asked'[k] = <<>>
  <2>1. k # l
    BY <1>1, <1>2, PatchedIs
  <2>2. asked'[k] = asked[k] /\ \A o \in Ops : InFlight(o)' = InFlight(o)
    BY <1>1, <2>1 DEF InFlight
  <2> QED
    BY <1>1, <1>2, <2>2 DEF PatchInv, Patched
<1> QED
  BY <1>1, <1>2, PatchIs

LEMMA AbandonKeepsPatch ==
    ASSUME PlaceOK, TypeOK, PatchInv, NEW l \in Loads, Abandon(l)
    PROVE  PatchInv'
<1>1. UNCHANGED <<place, behind, spin, calls>> /\ page.loads[l].abandons
      /\ \A k \in Loads : k # l => asked'[k] = asked[k]
  BY DEF Abandon, TypeOK
<1>2. ASSUME NEW k \in Loads, Patched(k)
      PROVE  /\ k \notin behind'
             /\ Len(asked'[k]) <= 1
             /\ asked'[k] # <<>> => k \in spin' /\ ~ asked'[k][1].old
             /\ \A o \in Ops : k \in Op(o).changes /\ InFlight(o)' # 0 => asked'[k] = <<>>
  <2>1. k # l
    BY <1>1, <1>2, PatchedIs
  <2>2. asked'[k] = asked[k] /\ \A o \in Ops : InFlight(o)' = InFlight(o)
    BY <1>1, <2>1 DEF InFlight
  <2> QED
    BY <1>1, <1>2, <2>2 DEF PatchInv, Patched
<1> QED
  BY <1>1, <1>2, PatchIs

\* Only the answer of the one request takes the flag of such a load down.
LEMMA EndedKeepsPatch ==
    ASSUME PlaceOK, TypeOK, QueuesOK, PatchInv, NEW l \in Loads, NEW i \in 1 .. Len(asked[l]),
           NEW kind \in {"done", "fail"}, Ended(l, i, kind)
    PROVE  PatchInv'
<1> DEFINE effects == Outcome(l, asked[l][i], kind)
<1>1. /\ Settle(l, effects) /\ UNCHANGED place /\ calls' = calls
      /\ Shortened(asked[l], i, asked'[l])
      /\ \A k \in Loads : k # l => asked'[k] = asked[k]
      /\ behind' \subseteq behind \/ (asked[l][i].old /\ behind' \subseteq behind \cup {l})
  BY DEF Ended, Settle
<1> HIDE DEF effects
<1>2. asked[l] \in Seq(Request)
  BY DEF TypeOK
<1>3. \A o \in Ops : InFlight(o)' = InFlight(o)
  BY <1>1 DEF InFlight
<1>4. ASSUME NEW k \in Loads, Patched(k)
      PROVE  /\ k \notin behind'
             /\ Len(asked'[k]) <= 1
             /\ asked'[k] # <<>> => k \in spin' /\ ~ asked'[k][1].old
             /\ \A o \in Ops : k \in Op(o).changes /\ InFlight(o)' # 0 => asked'[k] = <<>>
  <2>1. /\ k \notin behind /\ Len(asked[k]) <= 1
        /\ asked[k] # <<>> => k \in spin /\ ~ asked[k][1].old
        /\ \A o \in Ops : k \in Op(o).changes /\ InFlight(o) # 0 => asked[k] = <<>>
    BY <1>4 DEF PatchInv, Patched
  <2>2. CASE k = l
    <3>1. Len(asked[l]) \in Nat /\ Len(asked[l]) = 1 /\ i = 1 /\ asked[l] # <<>>
      <4>1. Len(asked[l]) \in Nat /\ Len(asked[l]) <= 1
        BY <1>2, <2>1, <2>2
      <4>2. \A n \in Nat : \A j \in 1 .. n : n <= 1 => n = 1 /\ j = 1
        OBVIOUS
      <4>3. Len(asked[l]) = 1 /\ i = 1
        BY <4>1, <4>2
      <4>4. asked[l] # <<>>
        BY <4>3
      <4> QED
        BY <4>1, <4>3, <4>4
    <3>2. ~ asked[l][i].old
      BY <2>1, <2>2, <3>1
    <3>3. Len(asked'[l]) = 0 /\ asked'[l] \in Seq(Request)
      BY <1>1, <3>1 DEF Shortened
    <3>4. asked'[l] = <<>>
      BY <3>3
    <3> QED
      BY <1>1, <2>1, <2>2, <3>2, <3>3, <3>4
  <2>3. CASE k # l
    <3>1. asked'[k] = asked[k] /\ k \notin behind'
      BY <1>1, <2>1, <2>3
    <3>2. k \in spin => k \in spin'
      <4>1. page.loads[l].flag # page.loads[k].flag
        BY <1>4, <2>3, PatchedIs
      <4> QED
        BY <1>1, <4>1 DEF Settle
    <3> QED
      BY <1>3, <2>1, <3>1, <3>2
  <2> QED
    BY <2>2, <2>3
<1> QED
  BY <1>1, <1>4, PatchIs

LEMMA SamePatch ==
    ASSUME PlaceOK, PatchInv, UNCHANGED <<place, data>>,
           \A o \in Ops : InFlight(o)' = InFlight(o)
    PROVE  PatchInv'
<1>1. UNCHANGED place /\ asked' = asked /\ spin' = spin /\ behind' = behind
  BY DEF data
<1> QED
  BY <1>1, PatchIs DEF PatchInv, Patched

-----------------------------------------------------------------------------
(* Every step keeps the invariant.                                         *)

LEMMA InvIs ==
    /\ IInv <=> PlaceOK /\ TypeOK /\ DataInv /\ CallsInv /\ EmptyInv /\ SeenInv /\ PatchInv
    /\ DataInv => QueuesOK /\ OldIsChangeable
    /\ CallsInv => FollowInv
  BY DEF IInv, DataInv, CallsInv

LEMMA TypeIs ==
    ASSUME PlaceOK, UNCHANGED place,
           shown' \in [Loads -> {"unasked", "failed", "rows"}],
           asked' \in [Loads -> Seq(Request)],
           spin' \subseteq Loads,
           error' \in BOOLEAN, told' \subseteq Loads,
           dialogs' \in Seq(Names),
           calls' \in [Ops -> Calls]
    PROVE  TypeOK'
<1>1. Loads' = Loads /\ Ops' = Ops /\ Names' = Names
  BY PlaceStep
<1> QED
  BY <1>1 DEF TypeOK, Calls

\* A step that sends loads and does nothing to the calls.
LEMMA SendKeeps ==
    ASSUME IInv, UNCHANGED <<place, locks, calls>>, NEW ls \in SUBSET Loads,
           NEW covering \in {ByUser, ByHandler}, Resend(ls, covering), behind' \subseteq behind,
           ErrorKept(ls), error' \in BOOLEAN, dialogs' \in Seq(Names),
           \A l \in Loads : Patched(l) => l \notin ls
    PROVE  IInv'
<1> USE InvIs
<1>1. Resent(ls)
  BY ResendIs
<1>2. PlaceOK'
  BY PlaceStep
<1>3. TypeOK'
  <2>1. calls' \in [Ops -> Calls]
    BY DEF TypeOK, Calls
  <2>2. told' \subseteq Loads
    BY <1>1 DEF Resent, TypeOK
  <2> QED
    BY <1>1, <2>1, <2>2, TypeIs DEF Resent
<1>4. DataInv'
  BY <1>1, ResentKeepsData
<1>5. /\ \A o \in Ops : InFlight(o)' = InFlight(o) /\ calls'[o].follow = calls[o].follow
      /\ \A o \in Ops : calls'[o].here \in Nat /\ calls'[o].here <= calls[o].here
  BY DEF TypeOK, InFlight
<1>6. CallsInv'
  BY <1>5, SameCalls
<1>7. EmptyInv'
  BY <1>1, ResentKeepsEmpty
<1>8. SeenInv'
  <2>1. \A l \in Loads : Pending(l) => PendingNext(l)
    BY DEF Pending, PendingNext
  <2> QED
    BY <1>1, <2>1, ResentKeepsSeen
<1>9. PatchInv'
  BY <1>1, <1>5, ResentKeepsPatch
<1>10. IInv' <=> (PlaceOK /\ TypeOK /\ DataInv /\ CallsInv /\ EmptyInv /\ SeenInv /\ PatchInv)'
  BY DEF IInv, DataInv, CallsInv
<1> QED
  BY <1>2, <1>3, <1>4, <1>6, <1>7, <1>8, <1>9, <1>10

LEMMA AskKeeps ==
    ASSUME IInv, NEW l \in Loads, Ask(l)
    PROVE  IInv'
<1>1. /\ l \in Triggered("asked") /\ Resend({l}, ByUser) /\ behind' = behind
      /\ error' = (error /\ ~ Cleared({l})) /\ told' = told \ {l}
      /\ UNCHANGED <<place, dialogs, locks, calls>>
  BY DEF Ask, Send, Resend
<1>2. ErrorKept({l}) /\ error' \in BOOLEAN
  BY <1>1, InvIs, AskKeepsError
<1>3. \A k \in Loads : Patched(k) => k \notin {l}
  <2>1. "asked" \in page.loads[l].at
    BY <1>1 DEF Triggered
  <2>2. \A k \in Loads : Patched(k) => page.loads[k].at = {"mount"}
    BY InvIs, PatchedIs
  <2> QED
    BY <2>1, <2>2
<1>4. dialogs' \in Seq(Names)
  BY <1>1, InvIs DEF TypeOK
<1> QED
  BY <1>1, <1>2, <1>3, <1>4, SendKeeps

LEMMA OpenKeeps ==
    ASSUME IInv, NEW o \in Ops, Open(o)
    PROVE  IInv'
<1> DEFINE effects == Op(o).opens
<1>1. /\ Resend(Sent(effects), ByHandler) /\ behind' = behind /\ ErrorOf(effects)
      /\ told' = told \ Sent(effects)
      /\ dialogs' = Append(dialogs, o) /\ UNCHANGED <<place, locks, calls>>
  BY DEF Open, Send, Resend
<1>2. effects \in EffectsOf(at, o)
  BY InvIs, PlaceIs DEF EffectsOf
<1> HIDE DEF effects
<1>3. ErrorKept(Sent(effects)) /\ error' \in BOOLEAN
  BY <1>1, <1>2, InvIs, ErrorOfKeeps
<1>4. \A l \in Loads : Patched(l) => l \notin Sent(effects)
  BY <1>2, InvIs, PatchedIs
<1>5. dialogs' \in Seq(Names)
  <2>1. o \in Names /\ dialogs \in Seq(Names)
    BY InvIs DEF Names, TypeOK
  <2> QED
    BY <1>1, <2>1
<1>6. Sent(effects) \in SUBSET Loads
  BY DEF Sent
<1> QED
  BY <1>1, <1>3, <1>4, <1>5, <1>6, SendKeeps

LEMMA RefreshKeeps ==
    ASSUME IInv, NEW l \in Loads, Refresh(l)
    PROVE  IInv'
<1> USE InvIs
<1>1. /\ UNCHANGED <<place, shown, error, dialogs, locks, calls>> /\ told' = told \ {l}
      /\ asked' \in [Loads -> Seq(Request)] /\ spin' \subseteq Loads
  BY RefreshIs DEF Refresh
<1>2. PlaceOK'
  BY <1>1, PlaceStep
<1>3. TypeOK'
  BY <1>1, TypeIs DEF TypeOK, Calls
<1>4. DataInv' /\ EmptyInv' /\ SeenInv' /\ PatchInv'
  BY RefreshKeepsData, RefreshKeepsEmpty, RefreshKeepsSeen, RefreshKeepsPatch
<1>5. /\ \A o \in Ops : InFlight(o)' = InFlight(o) /\ calls'[o].follow = calls[o].follow
      /\ \A o \in Ops : calls'[o].here \in Nat /\ calls'[o].here <= calls[o].here
  BY <1>1 DEF TypeOK, InFlight
<1>6. CallsInv'
  BY <1>1, <1>5, SameCalls
<1>7. IInv' <=> (PlaceOK /\ TypeOK /\ DataInv /\ CallsInv /\ EmptyInv /\ SeenInv /\ PatchInv)'
  BY DEF IInv, DataInv, CallsInv
<1> QED
  BY <1>2, <1>3, <1>4, <1>6, <1>7

LEMMA AbandonKeeps ==
    ASSUME IInv, NEW l \in Loads, Abandon(l)
    PROVE  IInv'
<1> USE InvIs
<1>1. UNCHANGED <<place, spin, error, told, dialogs, locks, calls>>
  BY DEF Abandon
<1>2. PlaceOK'
  BY <1>1, PlaceStep
<1>3. TypeOK'
  <2>1. asked' \in [Loads -> Seq(Request)] /\ shown' \in [Loads -> {"unasked", "failed", "rows"}]
    BY DEF Abandon, TypeOK
  <2> QED
    BY <1>1, <2>1, TypeIs DEF TypeOK, Calls
<1>4. DataInv' /\ EmptyInv' /\ SeenInv' /\ PatchInv'
  BY AbandonKeepsData, AbandonKeepsEmpty, AbandonKeepsSeen, AbandonKeepsPatch
<1>5. /\ \A o \in Ops : InFlight(o)' = InFlight(o) /\ calls'[o].follow = calls[o].follow
      /\ \A o \in Ops : calls'[o].here \in Nat /\ calls'[o].here <= calls[o].here
  BY <1>1 DEF TypeOK, InFlight
<1>6. CallsInv'
  BY <1>1, <1>5, SameCalls
<1>7. IInv' <=> (PlaceOK /\ TypeOK /\ DataInv /\ CallsInv /\ EmptyInv /\ SeenInv /\ PatchInv)'
  BY DEF IInv, DataInv, CallsInv
<1> QED
  BY <1>2, <1>3, <1>4, <1>6, <1>7

\* The end of a request, whichever it is.
LEMMA EndedKeepsType ==
    ASSUME PlaceOK, TypeOK, QueuesOK, NEW l \in Loads, NEW i \in 1 .. Len(asked[l]),
           NEW kind \in {"done", "fail"}, Ended(l, i, kind)
    PROVE  PlaceOK' /\ TypeOK'
<1>1. /\ UNCHANGED <<place, dialogs, calls>> /\ spin' \subseteq spin
      /\ asked' \in [Loads -> Seq(Request)]
      /\ shown' \in [Loads -> {"unasked", "failed", "rows"}]
  BY DEF Ended, Settle
<1>2. error' \in BOOLEAN /\ told' \subseteq Loads
  BY EndedKeepsError
<1>3. spin' \subseteq Loads
  BY <1>1 DEF TypeOK
<1>4. dialogs' \in Seq(Names) /\ calls' \in [Ops -> Calls]
  BY <1>1 DEF TypeOK, Calls
<1> QED
  BY <1>1, <1>2, <1>3, <1>4, TypeIs, PlaceStep

LEMMA AnswerKeeps ==
    ASSUME IInv, NEW l \in Loads, NEW i \in DOMAIN asked[l], Answer(l, i)
    PROVE  IInv'
<1> USE InvIs
<1>1. i \in 1 .. Len(asked[l]) /\ Ended(l, i, "done")
  BY AnswerEnds
<1>2. shown'[l] = "rows"
  BY DEF Answer, TypeOK
<1>3. PlaceOK' /\ TypeOK'
  BY <1>1, EndedKeepsType
<1>4. DataInv' /\ EmptyInv' /\ CallsInv' /\ PatchInv'
  BY <1>1, <1>2, EndedKeepsData, EndedKeepsEmpty, EndedKeepsCalls, EndedKeepsPatch
<1>5. SeenInv'
  BY AnswerKeepsSeen
<1>6. IInv' <=> (PlaceOK /\ TypeOK /\ DataInv /\ CallsInv /\ EmptyInv /\ SeenInv /\ PatchInv)'
  BY DEF IInv, DataInv, CallsInv
<1> QED
  BY <1>3, <1>4, <1>5, <1>6

LEMMA FailKeeps ==
    ASSUME IInv, NEW l \in Loads, NEW i \in DOMAIN asked[l], Fail(l, i)
    PROVE  IInv'
<1> USE InvIs
<1>1. i \in 1 .. Len(asked[l]) /\ Ended(l, i, "fail")
  BY FailEnds
<1>2. PlaceOK' /\ TypeOK'
  BY <1>1, EndedKeepsType
<1>3. DataInv' /\ EmptyInv' /\ CallsInv' /\ PatchInv'
  BY <1>1, EndedKeepsData, EndedKeepsEmpty, EndedKeepsCalls, EndedKeepsPatch
<1>4. SeenInv'
  BY FailKeepsSeen
<1>5. IInv' <=> (PlaceOK /\ TypeOK /\ DataInv /\ CallsInv /\ EmptyInv /\ SeenInv /\ PatchInv)'
  BY DEF IInv, DataInv, CallsInv
<1> QED
  BY <1>2, <1>3, <1>4, <1>5

\* The steps of a handler that send loads: it starts, it is refused, or what
\* follows a change is answered.
LEMMA HandlerKeeps ==
    ASSUME IInv, UNCHANGED place, NEW o \in Ops, NEW effects \in EffectsOf(at, o),
           Resend(Sent(effects), ByHandler), behind' \subseteq behind, ErrorOf(effects),
           dialogs' \in Seq(Names), calls' \in [Ops -> Calls], CallsInv',
           \A l \in Loads : AsksAgain(at, l) /\ l \notin Sent(effects) /\ Pending(l) =>
              PendingNext(l) \/ SaidNext(l),
           \A l \in Loads : \A x \in Ops :
              Patched(l) /\ l \in Op(x).changes /\ InFlight(x)' # 0 =>
                 InFlight(x) # 0 \/ asked[l] = <<>>
    PROVE  IInv'
<1> USE InvIs
<1> DEFINE ls == Sent(effects)
<1>1. ls \in SUBSET Loads
  BY DEF Sent
<1> HIDE DEF ls
<1>2. Resent(ls)
  BY <1>1, ResendIs DEF ls
<1>3. ErrorKept(ls) /\ error' \in BOOLEAN
  BY <1>2, ErrorOfKeeps DEF ls, Resent
<1>4. \A l \in Loads : Patched(l) => l \notin ls
  BY PatchedIs DEF ls
<1>5. PlaceOK'
  BY PlaceStep
<1>6. TypeOK'
  <2>1. told' \subseteq Loads
    BY <1>2 DEF Resent, TypeOK
  <2> QED
    BY <1>2, <1>3, <2>1, TypeIs DEF Resent
<1>7. DataInv'
  BY <1>1, <1>2, ResentKeepsData
<1>8. EmptyInv'
  BY <1>1, <1>2, <1>3, ResentKeepsEmpty
<1>9. SeenInv'
  <2>1. \A l \in Loads :
           AsksAgain(at, l) /\ l \notin ls /\ Pending(l) => PendingNext(l) \/ SaidNext(l)
    BY DEF ls
  <2> QED
    BY <1>1, <1>2, <1>3, <2>1, ResentKeepsSeen
<1>10. PatchInv'
  BY <1>1, <1>2, <1>4, ResentKeepsPatch
<1>11. IInv' <=> (PlaceOK /\ TypeOK /\ DataInv /\ CallsInv /\ EmptyInv /\ SeenInv /\ PatchInv)'
  BY DEF IInv, DataInv, CallsInv
<1> QED
  BY <1>5, <1>6, <1>7, <1>8, <1>9, <1>10, <1>11

\* Calls that are answered are under way, and leave what follows another change.
LEMMA CameIs ==
    ASSUME TypeOK, NEW o \in Ops, NEW from, NEW effects, Came(o, from, effects)
    PROVE  /\ \A x \in Ops : InFlight(x)' # 0 => InFlight(x) # 0
           /\ from # "follow" =>
                 \A x \in Ops : calls[x].follow # 0 => calls'[x].follow # 0
<1>1. \A x \in Ops : x # o => calls'[x] = calls[x] /\ InFlight(x)' = InFlight(x)
  BY DEF Came, InFlight
<1>2. InFlight(o) # 0
  BY DEF Came
<1>3. ASSUME from # "follow", calls[o].follow # 0  PROVE calls'[o].follow # 0
  <2>1. calls'[o].follow >= calls[o].follow
    BY <1>3 DEF Came
  <2>2. calls[o].follow \in Nat /\ calls'[o].follow \in Nat
    BY DEF TypeOK, Came, Calls
  <2> QED
    BY <1>3, <2>1, <2>2
<1> QED
  BY <1>1, <1>2, <1>3

LEMMA SubmitKeeps ==
    ASSUME IInv, NEW o \in Ops, Submit(o)
    PROVE  IInv'
<1> USE InvIs
<1> DEFINE effects == Op(o).handler.start
<1>1. /\ UNCHANGED place /\ ErrorOf(effects)
      /\ Resend(Sent(effects), ByHandler) /\ behind' = behind
      /\ Pressed(o) /\ LocksAfter(o, effects)
      /\ "lock" \in effects => Op(o).handler.flag \in locks'
      /\ Op(o).handler.held => Op(o).handler.flag \notin locks
      /\ dialogs' \in Seq(Names)
  BY SubmitIs
<1>2. effects \in EffectsOf(at, o)
  BY PlaceIs DEF EffectsOf
<1>3. CallsInv'
  BY <1>1, PressedKeepsCalls
<1> HIDE DEF effects
<1>4. calls' \in [Ops -> Calls]
  BY <1>1 DEF Pressed
<1>5. \A l \in Loads : Pending(l) => PendingNext(l)
  <2>1. \A x \in Ops : calls'[x].follow = calls[x].follow
    BY <1>1 DEF Pressed
  <2> QED
    BY <2>1 DEF Pending, PendingNext
<1>6. ASSUME NEW l \in Loads, NEW x \in Ops, Patched(l), l \in Op(x).changes, InFlight(x)' # 0
      PROVE  InFlight(x) # 0 \/ asked[l] = <<>>
  <2>1. CASE x = o
    BY <1>6, <2>1, SubmitWaits
  <2>2. CASE x # o
    <3>1. InFlight(x)' = InFlight(x)
      BY <1>1, <2>2 DEF Pressed, InFlight
    <3> QED
      BY <1>6, <3>1
  <2> QED
    BY <2>1, <2>2
<1> QED
  BY <1>1, <1>2, <1>3, <1>4, <1>5, <1>6, HandlerKeeps

LEMMA RefuseKeeps ==
    ASSUME IInv, NEW o \in Ops, NEW from \in {"here", "gone"}, Refuse(o, from)
    PROVE  IInv'
<1> USE InvIs
<1> DEFINE effects == Op(o).handler.fail
<1>1. /\ UNCHANGED place /\ ErrorOf(effects)
      /\ Resend(Sent(effects), ByHandler) /\ behind' = behind
      /\ Came(o, from, effects) /\ LocksAfter(o, effects)
      /\ dialogs' \in Seq(Names)
  BY RefuseIs
<1>2. effects \in EffectsOf(at, o)
  BY PlaceIs DEF EffectsOf
<1> HIDE DEF effects
<1>3. CallsInv'
  BY <1>1, CameKeepsCalls
<1>4. calls' \in [Ops -> Calls]
  BY <1>1 DEF Came
<1>5. /\ \A x \in Ops : InFlight(x)' # 0 => InFlight(x) # 0
      /\ \A x \in Ops : calls[x].follow # 0 => calls'[x].follow # 0
  BY <1>1, CameIs
<1>6. \A l \in Loads : Pending(l) => PendingNext(l)
  BY <1>5 DEF Pending, PendingNext
<1> QED
  BY <1>1, <1>2, <1>3, <1>4, <1>5, <1>6, HandlerKeeps

LEMMA FollowUpKeeps ==
    ASSUME IInv, NEW o \in Ops, FollowUp(o)
    PROVE  IInv'
<1> USE InvIs
<1>1. PICK effects \in {Op(o).handler.done, Op(o).handler.missed} :
         /\ UNCHANGED place /\ ErrorOf(effects)
         /\ Resend(Sent(effects), ByHandler) /\ behind' \subseteq behind
         /\ Came(o, "follow", effects) /\ LocksAfter(o, effects)
         /\ dialogs' \in Seq(Names) /\ calls[o].follow # 0
  BY FollowUpIs
<1>2. effects \in EffectsOf(at, o)
  BY PlaceIs DEF EffectsOf
<1>3. CallsInv'
  BY <1>1, CameKeepsCalls
<1>4. calls' \in [Ops -> Calls] /\ \A x \in Ops : x # o => calls'[x] = calls[x]
  BY <1>1 DEF Came
<1>5. \A x \in Ops : InFlight(x)' # 0 => InFlight(x) # 0
  BY <1>1, CameIs
<1>6. \A l \in Loads : AsksAgain(at, l) /\ l \notin Sent(effects) /\ Pending(l) =>
         PendingNext(l) \/ SaidNext(l)
  BY <1>1, <1>4, FollowUpKeepsPending
<1> QED
  BY <1>1, <1>2, <1>3, <1>4, <1>5, <1>6, HandlerKeeps

LEMMA AgreeKeeps ==
    ASSUME IInv, NEW o \in Ops, NEW from \in {"here", "gone"}, Agree(o, from)
    PROVE  IInv'
<1> USE InvIs
<1>1. PICK effects \in {Op(o).handler.done, Op(o).handler.late} :
         /\ UNCHANGED place
         /\ Changed(o, effects) /\ ErrorOf(effects)
         /\ Came(o, from, effects) /\ LocksAfter(o, effects) /\ dialogs' \in Seq(Names)
         /\ \/ effects = Op(o).handler.done /\ FALSE \in Op(o).handler.follows
            \/ effects = Op(o).handler.late /\ calls'[o].follow # 0
  BY AgreeIs
<1>2. effects \in EffectsOf(at, o)
  BY PlaceIs DEF EffectsOf
<1>3. Answered(o, Sent(effects), effects) /\ Sent(effects) \in SUBSET Loads
  BY <1>1, ChangedIs DEF Sent
<1>4. ErrorKept(Sent(effects)) /\ error' \in BOOLEAN
  BY <1>1, <1>2, <1>3, ErrorOfKeeps DEF Answered
<1>5. CallsInv'
  BY <1>1, CameKeepsCalls
<1>6. calls' \in [Ops -> Calls] /\ InFlight(o) # 0
  BY <1>1 DEF Came
<1>7. /\ \A x \in Ops : InFlight(x)' # 0 => InFlight(x) # 0
      /\ \A x \in Ops : calls[x].follow # 0 => calls'[x].follow # 0
  BY <1>1, CameIs
<1>8. PlaceOK'
  BY <1>1, PlaceStep
<1>9. TypeOK'
  <2>1. told' \subseteq Loads
    BY <1>3 DEF Answered, TypeOK
  <2> QED
    BY <1>1, <1>3, <1>4, <1>6, <2>1, TypeIs DEF Answered, TypeOK
<1>10. DataInv'
  BY <1>1, <1>3, AnsweredKeepsData
<1>11. EmptyInv'
  BY <1>1, <1>3, <1>4, AnsweredKeepsEmpty
<1>12. SeenInv'
  BY <1>1, <1>3, <1>4, <1>7, AnsweredKeepsSeen
<1>13. PatchInv'
  <2>1. effects = Op(o).handler.done \/ TRUE \in Op(o).handler.follows
    <3>1. calls'[o].follow # 0 => TRUE \in Op(o).handler.follows
      BY <1>1, <1>5, PlaceStep DEF CallsInv, FollowInv, Op
    <3> QED
      BY <1>1, <3>1
  <2> QED
    BY <1>1, <1>3, <1>6, <1>7, <2>1, AnsweredKeepsPatch
<1>14. IInv' <=> (PlaceOK /\ TypeOK /\ DataInv /\ CallsInv /\ EmptyInv /\ SeenInv /\ PatchInv)'
  BY DEF IInv, DataInv, CallsInv
<1> QED
  BY <1>5, <1>8, <1>9, <1>10, <1>11, <1>12, <1>13, <1>14

LEMMA EscalateKeeps ==
    ASSUME IInv, NEW o \in Ops, NEW from \in {"here", "gone"},
           NEW next \in Op(o).handler.escalates, Escalate(o, from, next)
    PROVE  IInv'
<1> USE InvIs
<1>1. /\ UNCHANGED place /\ error' = error
      /\ Resend({}, ByHandler) /\ behind' = behind
      /\ Came(o, from, Op(o).handler.fail) /\ LocksAfter(o, Op(o).handler.fail)
      /\ dialogs' \in Seq(Names)
  BY EscalateIs
<1>2. Resent({}) /\ ErrorKept({})
  <2>1. Resent({})
    BY <1>1, ResendIs
  <2> QED
    BY <1>1, <2>1 DEF ErrorKept, Resent, Said, SaidNext
<1>3. CallsInv'
  BY <1>1, CameKeepsCalls
<1>4. calls' \in [Ops -> Calls]
  BY <1>1 DEF Came
<1>5. /\ \A x \in Ops : InFlight(x)' # 0 => InFlight(x) # 0
      /\ \A x \in Ops : calls[x].follow # 0 => calls'[x].follow # 0
  BY <1>1, CameIs
<1>6. \A l \in Loads : Pending(l) => PendingNext(l)
  BY <1>5 DEF Pending, PendingNext
<1>7. PlaceOK' /\ TypeOK'
  BY <1>1, <1>2, <1>4, TypeIs, PlaceStep DEF Resent, TypeOK
<1>8. DataInv' /\ EmptyInv'
  BY <1>1, <1>2, ResentKeepsData, ResentKeepsEmpty
<1>9. SeenInv'
  BY <1>1, <1>2, <1>6, ResentKeepsSeen
<1>10. PatchInv'
  BY <1>1, <1>2, <1>5, ResentKeepsPatch
<1>11. IInv' <=> (PlaceOK /\ TypeOK /\ DataInv /\ CallsInv /\ EmptyInv /\ SeenInv /\ PatchInv)'
  BY DEF IInv, DataInv, CallsInv
<1> QED
  BY <1>3, <1>7, <1>8, <1>9, <1>10, <1>11

\* The steps that touch neither the data nor the error.
LEMMA StillKeeps ==
    ASSUME IInv, UNCHANGED <<place, data, error, told, locks>>,
           dialogs' \in Seq(Names), calls' \in [Ops -> Calls],
           \A o \in Ops : /\ InFlight(o)' = InFlight(o)
                          /\ calls'[o].here <= calls[o].here
                          /\ calls'[o].follow = calls[o].follow
    PROVE  IInv'
<1> USE InvIs
<1>1. PlaceOK' /\ TypeOK'
  BY TypeIs, PlaceStep DEF data, TypeOK
<1>2. DataInv' /\ EmptyInv' /\ SeenInv' /\ PatchInv'
  BY SameData, SameEmpty, SameSeen, SamePatch
<1>3. CallsInv'
  <2>1. \A o \in Ops : calls'[o].here \in Nat
    BY DEF Calls
  <2> QED
    BY <2>1, SameCalls
<1>4. IInv' <=> (PlaceOK /\ TypeOK /\ DataInv /\ CallsInv /\ EmptyInv /\ SeenInv /\ PatchInv)'
  BY DEF IInv, DataInv, CallsInv
<1> QED
  BY <1>1, <1>2, <1>3, <1>4

\* The user takes the error down: that of every load that failed, or is behind.
LEMMA DismissKeeps ==
    ASSUME IInv, Dismiss
    PROVE  IInv'
<1> USE InvIs
<1>1. /\ UNCHANGED <<place, data, dialogs, locks, calls>>
      /\ error' = FALSE /\ told' = told \cup {l \in Loads : Amiss(l)}
  BY DEF Dismiss
<1>2. dialogs' \in Seq(Names) /\ calls' \in [Ops -> Calls]
  BY <1>1 DEF TypeOK, Calls
<1>3. told' \subseteq Loads
  BY <1>1 DEF TypeOK
<1>4. PlaceOK' /\ TypeOK'
  BY <1>1, <1>2, <1>3, TypeIs, PlaceStep DEF data, TypeOK
<1>5. \A o \in Ops : /\ InFlight(o)' = InFlight(o)
                     /\ calls'[o].here <= calls[o].here /\ calls'[o].here \in Nat
                     /\ calls'[o].follow = calls[o].follow
  BY <1>1 DEF InFlight, TypeOK
<1>6. DataInv' /\ CallsInv' /\ PatchInv'
  BY <1>1, <1>5, SameData, SameCalls, SamePatch
<1>7. asked' = asked /\ shown' = shown /\ behind' = behind /\ overtaken' = overtaken
  BY <1>1 DEF data
<1>8. EmptyInv'
  BY <1>1, <1>7, EmptyIs DEF SaidNext, Amiss
<1>9. SeenInv'
  <2>1. ASSUME NEW l \in Loads, AsksAgain(at, l), InDoubt(l)'
        PROVE  SaidNext(l) \/ HasFresh(asked'[l]) \/ PendingNext(l)
    <3>1. CASE l \in behind
      BY <1>1, <3>1 DEF SaidNext, Amiss
    <3>2. CASE Doubtful(asked[l])
      <4>1. PICK i \in 1 .. Len(asked[l]) : asked[l][i].old
        BY <3>2 DEF Doubtful
      <4>2. i \in DOMAIN asked[l]
        BY <4>1 DEF TypeOK
      <4> QED
        BY <1>1, <4>1, <4>2 DEF SaidNext, Amiss
    <3> QED
      BY <1>7, <2>1, <3>1, <3>2 DEF InDoubt
  <2> QED
    BY <1>1, <2>1, SeenIs
<1>10. IInv' <=> (PlaceOK /\ TypeOK /\ DataInv /\ CallsInv /\ EmptyInv /\ SeenInv /\ PatchInv)'
  BY DEF IInv, DataInv, CallsInv
<1> QED
  BY <1>4, <1>6, <1>8, <1>9, <1>10

-----------------------------------------------------------------------------
\* A page that is opened asks for what it shows, and is otherwise at rest.
LEMMA InitHolds ==
    ASSUME Init
    PROVE  IInv
<1>1. PlaceOK
  BY DEF Init, PlaceOK
<1>2. /\ shown = [l \in Loads |-> "unasked"]
      /\ asked = [l \in Loads |-> IF l \in Triggered("mount") THEN <<New>> ELSE <<>>]
      /\ spin = Raised(Triggered("mount"), OnMount) /\ error = FALSE /\ behind = {}
      /\ told = {}
      /\ dialogs = <<>> /\ locks = {} /\ calls = [o \in Ops |-> NoCalls]
  BY DEF Init
<1>3. \A l \in Loads : asked[l] = IF l \in Triggered("mount") THEN <<New>> ELSE <<>>
  BY <1>2
<1>4. <<New>> \in Seq(Request) /\ Len(<<New>>) = 1 /\ <<New>>[1] = New /\ Len(<<>>) = 0
      /\ <<>> \in Seq(Request)
  BY NewIs
<1>5. \A l \in spin : l \in Triggered("mount") /\ ~ NeverRaises(page.loads[l])
  <2>1. Triggered("mount") \in SUBSET Loads
    BY DEF Triggered
  <2> QED
    BY <1>2, <2>1, RaisedIs
<1>6. Triggered("mount") \subseteq Loads
  BY DEF Triggered
<1>7. \A o \in Ops : InFlight(o) = 0 /\ calls[o].here = 0 /\ calls[o].follow = 0
  BY <1>2 DEF InFlight, NoCalls
<1>8. TypeOK
  <2>1. asked \in [Loads -> Seq(Request)]
    BY <1>2, <1>4
  <2>2. shown \in [Loads -> {"unasked", "failed", "rows"}]
    BY <1>2
  <2>3. spin \subseteq Loads
    BY <1>5, <1>6
  <2>4. error \in BOOLEAN /\ told \subseteq Loads
    BY <1>2
  <2>5. dialogs \in Seq(Names)
    BY <1>2
  <2>6. calls \in [Ops -> [here : Nat, gone : Nat, follow : Nat]]
    BY <1>2 DEF NoCalls
  <2> QED
    BY <2>1, <2>2, <2>3, <2>4, <2>5, <2>6 DEF TypeOK
<1>9. \A load : QueueOK(load, <<New>>) /\ QueueOK(load, <<>>)
  BY <1>4, NewIs DEF QueueOK, OldFirst, RepeatsKnown
<1>10. DataInv
  <2>1. QueuesOK
    BY <1>3, <1>9 DEF QueuesOK
  <2>2. SpinInv
    <3>1. ASSUME NEW l \in spin, ~ Exempt(Stuck, at, page.loads[l].flag)
          PROVE  TakesDown(page.loads[l]) /\ WillLower(page.loads[l], asked[l])
      <4>1. l \in Loads /\ asked[l] = <<New>>
        BY <1>3, <1>5, <1>6
      <4>2. TakesDown(page.loads[l])
        BY <1>1, <1>5, <3>1, <4>1, RaisedComesDown
      <4>3. Lowers(page.loads[l], New)
        BY <4>2, NewIs DEF Lowers, Result, TakesDown
      <4>4. WillLower(page.loads[l], <<New>>)
        BY <1>4, <4>3 DEF WillLower
      <4> QED
        BY <4>1, <4>2, <4>4
    <3> QED
      BY <3>1 DEF SpinInv
  <2>3. OldIsChangeable
    <3>1. ASSUME NEW l \in Loads, NEW i \in 1 .. Len(asked[l])  PROVE ~ asked[l][i].old
      <4>1. CASE asked[l] = <<New>>
        BY <1>4, <4>1, NewIs
      <4>2. CASE asked[l] = <<>>
        BY <1>4, <4>2
      <4> QED
        BY <1>3, <4>1, <4>2
    <3> QED
      BY <1>2, <3>1 DEF OldIsChangeable
  <2> QED
    BY <2>1, <2>2, <2>3 DEF DataInv
<1>11. CallsInv
  BY <1>2, <1>7 DEF CallsInv, LockInv, FollowInv, PressInv
<1>12. EmptyInv
  BY <1>2 DEF EmptyInv
<1>13. SeenInv
  <2>1. ASSUME NEW l \in Loads  PROVE ~ InDoubt(l)
    <3>1. ~ Doubtful(<<New>>) /\ ~ Doubtful(<<>>)
      BY <1>4, NewIs DEF Doubtful
    <3> QED
      BY <1>2, <1>3, <3>1 DEF InDoubt
  <2> QED
    BY <2>1 DEF SeenInv
<1>14. PatchInv
  <2>1. ASSUME NEW l \in Loads, Patched(l)
        PROVE  /\ l \notin behind /\ Len(asked[l]) <= 1
               /\ asked[l] # <<>> => l \in spin /\ ~ asked[l][1].old
               /\ \A o \in Ops : l \in Op(o).changes /\ InFlight(o) # 0 => asked[l] = <<>>
    <3>1. CASE asked[l] = <<New>>
      <4>1. l \in Triggered("mount")
        BY <1>3, <1>4, <3>1
      <4>2. l \in spin
        BY <1>1, <1>2, <2>1, <4>1, PatchedIs DEF Raised
      <4> QED
        BY <1>2, <1>4, <1>7, <3>1, <4>2, NewIs
    <3>2. CASE asked[l] = <<>>
      BY <1>2, <1>4, <3>2
    <3> QED
      BY <1>3, <3>1, <3>2
  <2> QED
    BY <2>1 DEF PatchInv, Patched
<1> QED
  BY <1>1, <1>8, <1>10, <1>11, <1>12, <1>13, <1>14, InvIs

LEMMA NextKeeps ==
    ASSUME IInv, [Next]_vars
    PROVE  IInv'
<1>1. ASSUME NEW l \in Loads, Ask(l) \/ Refresh(l) \/ Abandon(l)  PROVE IInv'
  BY <1>1, AskKeeps, RefreshKeeps, AbandonKeeps
<1>2. ASSUME NEW l \in Loads, NEW i \in DOMAIN asked[l], Answer(l, i) \/ Fail(l, i)
      PROVE  IInv'
  BY <1>2, AnswerKeeps, FailKeeps
<1>3. ASSUME NEW o \in Ops, Open(o) \/ Submit(o) \/ FollowUp(o)  PROVE IInv'
  BY <1>3, OpenKeeps, SubmitKeeps, FollowUpKeeps
<1>4. ASSUME NEW o \in Ops, NEW from \in {"here", "gone"}, Agree(o, from) \/ Refuse(o, from)
      PROVE  IInv'
  BY <1>4, AgreeKeeps, RefuseKeeps
<1>5. ASSUME NEW o \in Ops, NEW from \in {"here", "gone"},
             NEW next \in Op(o).handler.escalates, Escalate(o, from, next)
      PROVE  IInv'
  BY <1>5, EscalateKeeps
<1>6. ASSUME Close  PROVE IInv'
  <2>1. PlaceOK /\ TypeOK
    BY InvIs
  <2>2. /\ UNCHANGED <<place, data, error, told, locks>>
        /\ calls' \in [Ops -> Calls]
        /\ dialogs' \in Seq(Names)
        /\ \A o \in Ops : /\ InFlight(o)' = InFlight(o)
                          /\ calls'[o].here <= calls[o].here
                          /\ calls'[o].follow = calls[o].follow
    BY <1>6, <2>1, CloseIs
  <2> QED
    BY <2>2, StillKeeps
<1>7. ASSUME Expire \/ UNCHANGED vars  PROVE IInv'
  <2>1. UNCHANGED <<place, data, error, told, dialogs, locks, calls>>
    BY <1>7 DEF Expire, vars
  <2>2. dialogs' \in Seq(Names) /\ calls' \in [Ops -> Calls]
    BY <2>1, InvIs DEF TypeOK, Calls
  <2>3. \A o \in Ops : /\ InFlight(o)' = InFlight(o)
                       /\ calls'[o].here <= calls[o].here
                       /\ calls'[o].follow = calls[o].follow
    <3>1. \A o \in Ops : calls[o].here \in Nat
      BY InvIs DEF TypeOK
    <3> QED
      BY <2>1, <3>1 DEF InFlight
  <2> QED
    BY <2>1, <2>2, <2>3, StillKeeps
<1>8. ASSUME Dismiss  PROVE IInv'
  BY <1>8, DismissKeeps
<1> QED
  BY <1>1, <1>2, <1>3, <1>4, <1>5, <1>6, <1>7, <1>8 DEF Next

\* The invariant that the properties of the pages follow from holds on every page
\* whose rules have the habits, whatever the order of the answers.
THEOREM Invariance == Spec => []IInv
<1>1. Init => IInv
  BY InitHolds
<1>2. IInv /\ [Next]_vars => IInv'
  BY NextKeeps
<1> QED
  BY <1>1, <1>2, PTL DEF Spec

\* What a page keeps has its type: queues of requests, flags of its own loads, the
\* dialogs it has, and no negative number of calls.
THEOREM TypeCorrect == Spec => []TypeOK
<1>1. IInv => TypeOK
  BY InvIs
<1> QED
  BY <1>1, Invariance, PTL

LEMMA EmptyQueue ==
    /\ \A load : ~ WillLower(load, <<>>)
    /\ ~ HasFresh(<<>>)
  BY DEF WillLower, HasFresh

LEMMA NothingIsStuckHolds ==
    ASSUME IInv  PROVE NothingIsStuck
<1>1. \A f : Excepted(Stuck, f) <=> Exempt(Stuck, at, f)
  BY DEF Excepted, Exempt
<1>2. \A l \in spin : asked[l] = <<>> => Excepted(Stuck, page.loads[l].flag)
  BY <1>1, EmptyQueue DEF IInv, SpinInv
<1>3. \A f \in locks :
         (\A o \in Ops : Op(o).handler.flag = f => InFlight(o) = 0) => Excepted(Stuck, f)
  BY <1>1 DEF IInv, LockInv
<1> QED
  BY <1>2, <1>3 DEF NothingIsStuck

\* A flag that hides a part of a page or disables a button comes down: it is up only
\* while something is under way that takes it down, whatever becomes of it.
THEOREM FlagsComeDownInTheEnd == Spec => []NothingIsStuck
<1>1. IInv => NothingIsStuck
  BY NothingIsStuckHolds
<1> QED
  BY <1>1, Invariance, PTL

LEMMA NoFalseEmptyHolds ==
    ASSUME IInv  PROVE NoFalseEmpty
<1> SUFFICES ASSUME NEW region \in page.regions, region.lists # "", Visible(region),
                    shown[region.lists] = "failed", asked[region.lists] = <<>>
             PROVE  error \/ region.lists \in told \/ Excepted(Silent, region.lists)
  BY DEF NoFalseEmpty
<1> DEFINE l == region.lists
<1>1. /\ page.regions = Rules[at].regions /\ page.broken = Rules[at].broken
      /\ Loads = LoadsOf(at) /\ WellFormed(at) /\ EmptyIsTrue(at)
  BY InvIs, PlaceIs
<1>2. l \in Loads
  BY <1>1 DEF WellFormed
<1>3. Exempt(Silent, at, l) \/ l \in page.broken \/ FailuresAreSaid(at, l)
  BY <1>1 DEF EmptyIsTrue
<1>4. l \notin page.broken
  BY <1>2 DEF Visible, Whole
<1>5. FailuresAreSaid(at, l) => error \/ l \in told
  BY <1>2 DEF IInv, EmptyInv, Said
<1> QED
  BY <1>3, <1>4, <1>5 DEF Excepted, Exempt

\* A list that could not be loaded is never shown as a list that has no rows without
\* an error next to it, unless the user has taken that error down since.
THEOREM FailuresAreNotEmptyLists == Spec => []NoFalseEmpty
<1>1. IInv => NoFalseEmpty
  BY NoFalseEmptyHolds
<1> QED
  BY <1>1, Invariance, PTL

LEMMA WritesAreSeenHolds ==
    ASSUME IInv  PROVE WritesAreSeen
<1> SUFFICES ASSUME AtRest, ~ error, NEW l \in (behind \ overtaken) \ told, shown[l] = "rows"
             PROVE  Excepted(Outdated, l)
  BY DEF WritesAreSeen
<1>1. l \in Loads /\ Changeable(l)
  BY DEF IInv, OldIsChangeable
<1>2. PICK o \in Ops : l \in Op(o).changes
  BY <1>1 DEF Changeable
<1>3. Exempt(Outdated, at, l) \/ AsksAgain(at, l) \/ PatchesByHand(at, l)
  <2>1. ChangesAreShown(at) /\ o \in OpsOf(at) /\ Op(o) = OpOf(at, o)
    BY InvIs, PlaceIs
  <2> QED
    BY <1>2, <2>1 DEF ChangesAreShown
<1>4. ~ PatchesByHand(at, l)
  BY <1>1 DEF IInv, PatchInv
<1>5. ~ AsksAgain(at, l)
  <2>1. asked[l] = <<>> /\ \A x \in Ops : InFlight(x) = 0
    BY <1>1 DEF AtRest
  <2>2. \A x \in Ops : calls[x].here \in Nat /\ calls[x].gone \in Nat /\ calls[x].follow \in Nat
    BY InvIs DEF TypeOK
  <2>3. \A x \in Ops : calls[x].follow = 0
    BY <2>1, <2>2 DEF InFlight
  <2>4. AsksAgain(at, l) => Said(l) \/ HasFresh(asked[l])
    BY <1>1, <2>3 DEF IInv, SeenInv, InDoubt, Pending
  <2> QED
    BY <2>1, <2>4, EmptyQueue DEF Said
<1> QED
  BY <1>3, <1>4, <1>5 DEF Excepted, Exempt

\* Rows that are older than a change of the user's are shown no longer once every
\* request is answered, unless the page says that something went wrong, or said it
\* until the user took that down, or shows an answer that a later one had overtaken.
THEOREM ChangesAreSeenInTheEnd == Spec => []WritesAreSeen
<1>1. IInv => WritesAreSeen
  BY WritesAreSeenHolds
<1> QED
  BY <1>1, Invariance, PTL

LEMMA OncePerPressHolds ==
    ASSUME IInv  PROVE OncePerPress
<1> SUFFICES ASSUME NEW o \in Ops, calls[o].here > 1
             PROVE  (Op(o).row # "" /\ ~ Op(o).form) \/ Excepted(Unheld, o)
  BY DEF OncePerPress
<1>1. /\ (Op(o).row # "" /\ ~ Op(o).form) \/ Exempt(Unheld, at, o)
         \/ LeavesFirst(Op(o)) \/ Exclusive(at, Op(o).handler.flag)
  <2>1. PressedOnce(at) /\ o \in OpsOf(at) /\ Op(o) = OpOf(at, o)
    BY InvIs, PlaceIs
  <2> QED
    BY <2>1 DEF PressedOnce
<1>2. calls[o].here \in Nat /\ calls[o].gone \in Nat /\ calls[o].follow \in Nat
  BY InvIs DEF TypeOK
<1>3. ~ LeavesFirst(Op(o))
  BY <1>2 DEF IInv, PressInv
<1>4. ~ Exclusive(at, Op(o).handler.flag)
  <2>1. InFlight(o) > 1
    BY <1>2 DEF InFlight
  <2>2. InFlight(o) # 0 /\ InFlight(o) # 1
    BY <1>2, <2>1 DEF InFlight
  <2> QED
    BY <2>2 DEF IInv, PressInv, Alone
<1> QED
  BY <1>1, <1>3, <1>4 DEF Excepted, Exempt

\* A dialog or a button has one change under way at a time, whoever shares its flag.
THEOREM OneChangeAtATime == Spec => []OncePerPress
<1>1. IInv => OncePerPress
  BY OncePerPressHolds
<1> QED
  BY <1>1, Invariance, PTL

LEMMA NothingForbiddenHolds ==
    ASSUME IInv  PROVE NothingForbiddenIsOffered
<1> SUFFICES ASSUME NEW o \in Ops, Offered(o)
             PROVE  users \subseteq Admits[Op(o).handler.endpoint] \/ Excepted(Forbidden, o)
  BY DEF NothingForbiddenIsOffered
<1>1. /\ OnlyToAdmitted(at) /\ o \in OpsOf(at) /\ Op(o) = OpOf(at, o)
      /\ page.roles = Rules[at].roles
  BY InvIs, PlaceIs
<1>2. \/ Exempt(Forbidden, at, o)
      \/ Op(o).by \cap page.roles \subseteq Admits[Op(o).handler.endpoint]
  BY <1>1 DEF OnlyToAdmitted
<1>3. users \subseteq Op(o).by /\ users \subseteq page.roles
  BY InvIs DEF Offered, PlaceOK
<1> QED
  BY <1>2, <1>3 DEF Excepted, Exempt

\* Whom the server would refuse is offered nothing, whatever the state of the page.
THEOREM OfferedIsAdmitted == Spec => []NothingForbiddenIsOffered
<1>1. IInv => NothingForbiddenIsOffered
  BY NothingForbiddenHolds
<1> QED
  BY <1>1, Invariance, PTL
=============================================================================
