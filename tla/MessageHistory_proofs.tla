------------------------ MODULE MessageHistory_proofs ------------------------
(***************************************************************************)
(* The messages of a task, for any number of turns, any sizes of answers   *)
(* and any head and tail that a compaction protects: requests are paired,  *)
(* and no result is lost on the way to the model unless something was put  *)
(* between it and its call.                                                *)
(***************************************************************************)
EXTENDS MessageHistory, FiniteSetTheorems, TLAPS

-----------------------------------------------------------------------------
(* Lists that are made of others.                                           *)

Places(P) == IsFiniteSet(P) /\ P \subseteq Nat \X Nat

LEMMA BeforeOrders ==
  ASSUME NEW p \in Nat \X Nat, NEW q \in Nat \X Nat
  PROVE  /\ ~Before(p, p) /\ (Before(p, q) => ~Before(q, p)) /\ (Before(p, q) \/ Before(q, p) \/ p = q)
         /\ \A r \in Nat \X Nat : Before(p, q) /\ Before(q, r) => Before(p, r)
<1>1. p = q <=> p[1] = q[1] /\ p[2] = q[2]  OBVIOUS
<1> QED BY <1>1 DEF Before

\* The positions of places are the numbers up to how many there are, in their order.
LEMMA PositionsFit ==
  ASSUME NEW P, Places(P)
  PROVE  /\ Cardinality(P) \in Nat
         /\ \A p \in P : Position(p, P) \in 1..Cardinality(P)
         /\ \A p, q \in P : Before(p, q) <=> Position(p, P) < Position(q, P)
         /\ \A p, q \in P : Position(p, P) = Position(q, P) => p = q
         /\ \A n \in 1..Cardinality(P) : \E p \in P : Position(p, P) = n
<1> DEFINE below(p) == {q \in P : Before(q, p)}
           N == Cardinality(P)
<1>1. IsFiniteSet(P) /\ P \subseteq Nat \X Nat  BY DEF Places
<1>2. N \in Nat  BY <1>1, FS_CardinalityType
<1>3. ASSUME NEW p \in P PROVE IsFiniteSet(below(p)) /\ Cardinality(below(p)) \in 0..(N - 1)
  <2>1. below(p) \in SUBSET P /\ p \notin below(p)  BY <1>1, BeforeOrders
  <2>2. IsFiniteSet(below(p)) /\ Cardinality(below(p)) <= N /\ Cardinality(below(p)) # N
    BY <1>1, <2>1, FS_Subset
  <2>3. Cardinality(below(p)) \in Nat  BY <2>2, FS_CardinalityType
  <2> QED BY <1>2, <2>2, <2>3
<1>4. ASSUME NEW p \in P PROVE Position(p, P) \in 1..N
  <2>1. Position(p, P) = Cardinality(below(p)) + 1  BY DEF Position
  <2> QED BY <1>2, <1>3, <2>1
<1>5. ASSUME NEW p \in P, NEW q \in P, Before(p, q) PROVE Position(p, P) < Position(q, P)
  <2>1. below(p) \in SUBSET below(q) /\ p \in below(q) /\ p \notin below(p)
    BY <1>1, <1>5, BeforeOrders
  <2>2. Cardinality(below(p)) <= Cardinality(below(q)) /\ Cardinality(below(p)) # Cardinality(below(q))
    BY <1>3, <2>1, FS_Subset
  <2>3. Position(p, P) = Cardinality(below(p)) + 1 /\ Position(q, P) = Cardinality(below(q)) + 1
    BY DEF Position
  <2> QED BY <1>2, <1>3, <2>2, <2>3
<1>6. ASSUME NEW p \in P, NEW q \in P
      PROVE  /\ Before(p, q) <=> Position(p, P) < Position(q, P)
             /\ Position(p, P) = Position(q, P) => p = q
  <2>1. p \in Nat \X Nat /\ q \in Nat \X Nat  BY <1>1
  <2>2. Before(p, q) \/ Before(q, p) \/ p = q  BY <2>1, BeforeOrders
  <2>3. Position(p, P) \in 1..N /\ Position(q, P) \in 1..N  BY <1>4
  <2>4. Before(p, q) => Position(p, P) < Position(q, P)  BY <1>5
  <2>5. Before(q, p) => Position(q, P) < Position(p, P)  BY <1>5
  <2> QED BY <1>2, <2>2, <2>3, <2>4, <2>5
<1>7. ASSUME NEW n \in 1..N PROVE \E p \in P : Position(p, P) = n
  <2> DEFINE pos == [p \in P |-> Position(p, P)]
  <2>1. IsFiniteSet(1..N) /\ Cardinality(1..N) = N  BY <1>2, FS_Interval
  <2>2. pos \in Injection(P, 1..N)
    <3>1. pos \in [P -> 1..N]  BY <1>4
    <3>2. \A p, q \in P : pos[p] = pos[q] => p = q  BY <1>6
    <3> QED BY <3>1, <3>2 DEF Injection, IsInjective
  <2>3. pos \in Surjection(P, 1..N)  BY <2>1, <2>2, FS_Injection
  <2> QED BY <2>3 DEF Surjection
<1>8. \A p, q \in P : Before(p, q) <=> Position(p, P) < Position(q, P)  BY <1>6
<1>9. \A p, q \in P : Position(p, P) = Position(q, P) => p = q  BY <1>6
<1> QED BY <1>2, <1>4, <1>7, <1>8, <1>9

\* What a list made of places holds.
LEMMA ListedHolds ==
  ASSUME NEW P, Places(P), NEW f, DOMAIN f = P
  PROVE  /\ DOMAIN Listed(f) = 1..Cardinality(P) /\ Len(Listed(f)) = Cardinality(P)
         /\ \A p \in P : Position(p, P) \in DOMAIN Listed(f) /\ Listed(f)[Position(p, P)] = f[p]
         /\ \A S : (\A p \in P : f[p] \in S) => Listed(f) \in Seq(S)
<1>1. Cardinality(P) \in Nat  BY PositionsFit
<1>2. Listed(f) = [n \in 1..Cardinality(P) |-> f[CHOOSE p \in P : Position(p, P) = n]]  BY DEF Listed
<1>3. ASSUME NEW p \in P PROVE Position(p, P) \in 1..Cardinality(P) /\ Listed(f)[Position(p, P)] = f[p]
  <2>1. Position(p, P) \in 1..Cardinality(P)  BY PositionsFit
  <2>2. (CHOOSE q \in P : Position(q, P) = Position(p, P)) = p  BY PositionsFit
  <2> QED BY <1>2, <2>1, <2>2
<1>4. ASSUME NEW S, \A p \in P : f[p] \in S PROVE Listed(f) \in Seq(S)
  <2>1. ASSUME NEW n \in 1..Cardinality(P) PROVE Listed(f)[n] \in S
    <3>1. (CHOOSE p \in P : Position(p, P) = n) \in P  BY PositionsFit
    <3> QED BY <1>2, <1>4, <3>1
  <2> QED BY <1>1, <1>2, <2>1
<1>5. \A S : (\A p \in P : f[p] \in S) => Listed(f) \in Seq(S)  BY <1>4
<1>6. DOMAIN Listed(f) = 1..Cardinality(P) /\ Len(Listed(f)) = Cardinality(P)
  <2>1. Listed(f) \in Seq({f[p] : p \in P})  BY <1>5
  <2> QED BY <1>1, <1>2, <2>1
<1> QED BY <1>3, <1>5, <1>6

\* Some numbers have a smallest and a largest.
LEMMA Extremes ==
  ASSUME NEW I, I \subseteq Nat, IsFiniteSet(I), I # {}
  PROVE  (\E i \in I : \A j \in I : i <= j) /\ (\E i \in I : \A j \in I : j <= i)
<1> DEFINE P == I \X {0}
           at(i) == Position(<<i, 0>>, P)
           N == Cardinality(P)
<1>1. Places(P)
  <2>1. IsFiniteSet({0})  BY FS_Singleton
  <2>2. IsFiniteSet(P)  BY <2>1, FS_Product
  <2>3. ASSUME NEW p \in P PROVE p \in Nat \X Nat
    <3>1. p[1] \in I /\ p = <<p[1], 0>>  OBVIOUS
    <3>2. p[1] \in Nat  BY <3>1
    <3> QED BY <3>1, <3>2
  <2> QED BY <2>2, <2>3 DEF Places
<1>2. N \in Nat /\ N # 0
  <2>1. PICK i \in I : TRUE  OBVIOUS
  <2>2. <<i, 0>> \in P  BY <2>1
  <2>3. Position(<<i, 0>>, P) \in 1..N  BY <1>1, <2>2, PositionsFit
  <2> QED BY <1>1, <2>3, PositionsFit
<1>3. \A i \in I : at(i) \in 1..N  BY <1>1, PositionsFit
<1>4. ASSUME NEW i \in I, NEW j \in I, j < i PROVE at(j) < at(i)
  <2>1. <<i, 0>> \in P /\ <<j, 0>> \in P /\ Before(<<j, 0>>, <<i, 0>>)  BY <1>4 DEF Before
  <2> QED BY <1>1, <2>1, PositionsFit
<1>5. ASSUME NEW n \in 1..N PROVE \E i \in I : at(i) = n
  <2>1. PICK p \in P : Position(p, P) = n  BY <1>1, <1>5, PositionsFit
  <2>2. p[1] \in I /\ p = <<p[1], 0>>  OBVIOUS
  <2> QED BY <2>1, <2>2
<1> HIDE DEF P, at, N
<1>6. \E i \in I : \A j \in I : i <= j
  <2>1. PICK i \in I : at(i) = 1  BY <1>2, <1>5
  <2> QED BY <1>2, <1>3, <1>4, <2>1
<1>7. \E i \in I : \A j \in I : j <= i
  <2>1. PICK i \in I : at(i) = N  BY <1>2, <1>5
  <2> QED BY <1>2, <1>3, <1>4, <2>1
<1> QED BY <1>6, <1>7

-----------------------------------------------------------------------------
(* Calls and results in a list, and at the places it is made of.            *)

NoStray(m)     == \A j \in DOMAIN m : ~Stray(m, j)
AllAnswered(m) == \A i \in DOMAIN m : m[i].calls \subseteq Answers(m, i)

\* The message j is the first result of a call of the message i.
First(m, i, j) ==
  /\ i \in 1..(j - 1) /\ ~IsTool(m, i) /\ j \in ResultsOf(m, i) /\ m[j].id \in m[i].calls
  /\ \A k \in (i + 1)..(j - 1) : m[k].id # m[j].id

LEMMA StrayMeans ==
  ASSUME NEW m, NEW j
  PROVE  Stray(m, j) <=> IsTool(m, j) /\ \A i \in 1..(j - 1) : ~First(m, i, j)
BY DEF Stray, First

Follows(f, p, q) ==
  /\ Before(p, q)
  /\ \A r \in DOMAIN f : Before(p, r) /\ ~Before(q, r) => f[r].role = "tool"

FirstAt(f, p, q) ==
  /\ f[p].role # "tool" /\ Follows(f, p, q) /\ f[q].id \in f[p].calls
  /\ \A r \in DOMAIN f : Before(p, r) /\ Before(r, q) => f[r].id # f[q].id

LEMMA ListedTools ==
  ASSUME NEW P, Places(P), NEW f, DOMAIN f = P, NEW p \in P
  PROVE  IsTool(Listed(f), Position(p, P)) <=> f[p].role = "tool"
BY ListedHolds DEF IsTool

LEMMA ListedFollows ==
  ASSUME NEW P, Places(P), NEW f, DOMAIN f = P, NEW p \in P, NEW q \in P
  PROVE  Position(q, P) \in ResultsOf(Listed(f), Position(p, P)) <=> Follows(f, p, q)
<1> DEFINE a == Position(p, P)
           b == Position(q, P)
           N == Cardinality(P)
           L == Listed(f)
<1>1. N \in Nat /\ a \in 1..N /\ b \in 1..N /\ Len(L) = N  BY PositionsFit, ListedHolds
<1>2. b \in ResultsOf(L, a) <=> a < b /\ \A k \in (a + 1)..b : IsTool(L, k)
  BY <1>1 DEF ResultsOf
<1>3. Before(p, q) <=> a < b  BY PositionsFit
<1>4. ASSUME \A k \in (a + 1)..b : IsTool(L, k), NEW r \in P, Before(p, r), ~Before(q, r)
      PROVE  f[r].role = "tool"
  <2>1. Position(r, P) \in 1..N /\ a < Position(r, P) /\ ~(b < Position(r, P))  BY <1>4, PositionsFit
  <2>2. Position(r, P) \in (a + 1)..b  BY <1>1, <2>1
  <2> QED BY <1>4, <2>2, ListedTools
<1>5. ASSUME \A r \in P : Before(p, r) /\ ~Before(q, r) => f[r].role = "tool", NEW k \in (a + 1)..b
      PROVE  IsTool(L, k)
  <2>1. k \in 1..N /\ a < k /\ ~(b < k)  BY <1>1
  <2>2. PICK r \in P : Position(r, P) = k  BY <2>1, PositionsFit
  <2>3. Before(p, r) /\ ~Before(q, r)  BY <2>1, <2>2, PositionsFit
  <2> QED BY <1>5, <2>2, <2>3, ListedTools
<1> HIDE DEF a, b, L
<1>6. Follows(f, p, q) <=> Before(p, q) /\ \A r \in P : Before(p, r) /\ ~Before(q, r) => f[r].role = "tool"
  BY DEF Follows
<1>7. b \in ResultsOf(L, a) <=> Follows(f, p, q)
  <2>1. ASSUME \A k \in (a + 1)..b : IsTool(L, k)
        PROVE  \A r \in P : Before(p, r) /\ ~Before(q, r) => f[r].role = "tool"
    BY <1>4, <2>1
  <2>2. ASSUME \A r \in P : Before(p, r) /\ ~Before(q, r) => f[r].role = "tool"
        PROVE  \A k \in (a + 1)..b : IsTool(L, k)
    BY <1>5, <2>2
  <2> QED BY <1>2, <1>3, <1>6, <2>1, <2>2
<1> QED BY <1>7 DEF a, b, L

\* A list is without strays, and its calls are answered, if that is so at its places.
LEMMA ListedNoStray ==
  ASSUME NEW P, Places(P), NEW f, DOMAIN f = P,
         \A q \in P : f[q].role = "tool" => \E p \in P : FirstAt(f, p, q)
  PROVE  NoStray(Listed(f))
<1> DEFINE L == Listed(f)
<1> SUFFICES ASSUME NEW j \in DOMAIN L, IsTool(L, j) PROVE \E i \in 1..(j - 1) : First(L, i, j)
  BY StrayMeans DEF NoStray
<1>1. PICK q \in P : Position(q, P) = j  BY PositionsFit, ListedHolds
<1>2. f[q].role = "tool"  BY <1>1, ListedTools
<1>3. PICK p \in P : FirstAt(f, p, q)  BY <1>2
<1> DEFINE i == Position(p, P)
<1>4. Cardinality(P) \in Nat /\ i \in 1..Cardinality(P) /\ j \in 1..Cardinality(P) /\ i < j
  BY <1>1, <1>3, PositionsFit DEF FirstAt, Follows
<1>5. ~IsTool(L, i)  BY <1>3, ListedTools DEF FirstAt
<1>6. j \in ResultsOf(L, i)  BY <1>1, <1>3, ListedFollows DEF FirstAt
<1>7. L[j] = f[q] /\ L[i] = f[p]  BY <1>1, ListedHolds
<1>8. ASSUME NEW k \in (i + 1)..(j - 1) PROVE L[k].id # L[j].id
  <2>1. PICK r \in P : Position(r, P) = k  BY <1>4, PositionsFit
  <2>2. Before(p, r) /\ Before(r, q)  BY <1>1, <1>4, <2>1, PositionsFit
  <2>3. L[k] = f[r]  BY <2>1, ListedHolds
  <2> QED BY <1>3, <1>7, <2>2, <2>3 DEF FirstAt
<1>9. L[j].id \in L[i].calls  BY <1>3, <1>7 DEF FirstAt
<1>10. i \in 1..(j - 1)  BY <1>4
<1> QED BY <1>5, <1>6, <1>8, <1>9, <1>10 DEF First

LEMMA ListedAnswered ==
  ASSUME NEW P, Places(P), NEW f, DOMAIN f = P,
         \A p \in P : \A c \in f[p].calls : \E q \in P : Follows(f, p, q) /\ f[q].id = c
  PROVE  AllAnswered(Listed(f))
<1> DEFINE L == Listed(f)
<1> SUFFICES ASSUME NEW i \in DOMAIN L, NEW c \in L[i].calls PROVE c \in Answers(L, i)
  BY DEF AllAnswered
<1>1. PICK p \in P : Position(p, P) = i  BY PositionsFit, ListedHolds
<1>2. L[i] = f[p]  BY <1>1, ListedHolds
<1>3. PICK q \in P : Follows(f, p, q) /\ f[q].id = c  BY <1>2
<1>4. Position(q, P) \in ResultsOf(L, i)  BY <1>1, <1>3, ListedFollows
<1>5. L[Position(q, P)].id = c  BY <1>3, ListedHolds
<1> QED BY <1>4, <1>5 DEF Answers

LEMMA ListedFirst ==
  ASSUME NEW P, Places(P), NEW f, DOMAIN f = P, NEW p \in P, \A q \in P : ~Before(q, p)
  PROVE  1 \in DOMAIN Listed(f) /\ Listed(f)[1] = f[p]
<1>1. Cardinality(P) \in Nat /\ Position(p, P) \in 1..Cardinality(P)  BY PositionsFit
<1>2. PICK q \in P : Position(q, P) = 1  BY <1>1, PositionsFit
<1>3. Position(p, P) = 1
  <2>1. ~(Position(q, P) < Position(p, P))  BY <1>2, PositionsFit
  <2> QED BY <1>1, <1>2, <2>1
<1> QED BY <1>1, <1>3, ListedHolds

-----------------------------------------------------------------------------
(* The types.                                                               *)

CallIds == Nat \X (1..MaxTurnCalls)

\* Only answers have calls, which differ in their place, and a result has its call.
Proper ==
  {x \in [role  : {"system", "handoff", "user", "assistant", "tool"},
          calls : SUBSET CallIds, id : CallIds \cup {<<>>}] :
     /\ x.calls # {} => x.role = "assistant"
     /\ \A c, d \in x.calls : c[2] = d[2] => c = d
     /\ x.role = "tool" => x.id \in CallIds}

HistTypes ==
  /\ messages \in Seq(Proper) /\ 1 \in DOMAIN messages /\ messages[1] = System
  /\ step \in {"plan", "asked", "tools"} /\ turn \in 0..MaxTurns
  /\ retried \in BOOLEAN /\ split \in BOOLEAN
  /\ toRun \in Seq(CallIds) /\ Len(toRun) <= MaxTurnCalls

LEMMA ProperFields ==
  ASSUME NEW x \in Proper
  PROVE  /\ x.role \in {"system", "handoff", "user", "assistant", "tool"}
         /\ x.calls \subseteq CallIds /\ x.id \in CallIds \cup {<<>>}
         /\ x.calls # {} => x.role = "assistant"
         /\ \A c, d \in x.calls : c[2] = d[2] => c = d
BY DEF Proper

LEMMA ProperMessages ==
  /\ System \in Proper /\ Handoff \in Proper /\ User \in Proper /\ Text \in Proper
  /\ \A c \in CallIds : Result(c) \in Proper
  /\ \A C \in SUBSET CallIds : (\A c, d \in C : c[2] = d[2] => c = d) => Asks(C) \in Proper
  /\ System.role = "system" /\ Handoff.role = "handoff" /\ User.role = "user" /\ Text.role = "assistant"
  /\ System.calls = {} /\ Handoff.calls = {} /\ User.calls = {} /\ Text.calls = {}
  /\ \A c : Result(c).role = "tool" /\ Result(c).id = c /\ Result(c).calls = {}
  /\ \A C : Asks(C).role = "assistant" /\ Asks(C).calls = C
<1> USE DEF Message
<1>1. System \in Proper /\ Handoff \in Proper /\ User \in Proper /\ Text \in Proper
  BY DEF Proper, System, Handoff, User, Text
<1>2. \A c \in CallIds : Result(c) \in Proper  BY DEF Proper, Result
<1>3. \A C \in SUBSET CallIds : (\A c, d \in C : c[2] = d[2] => c = d) => Asks(C) \in Proper
  BY DEF Proper, Asks
<1>4. /\ System.role = "system" /\ Handoff.role = "handoff" /\ User.role = "user" /\ Text.role = "assistant"
      /\ System.calls = {} /\ Handoff.calls = {} /\ User.calls = {} /\ Text.calls = {}
  BY DEF System, Handoff, User, Text
<1>5. /\ \A c : Result(c).role = "tool" /\ Result(c).id = c /\ Result(c).calls = {}
      /\ \A C : Asks(C).role = "assistant" /\ Asks(C).calls = C
  BY DEF Result, Asks
<1> QED BY <1>1, <1>2, <1>3, <1>4, <1>5

-----------------------------------------------------------------------------
(* Some messages of a list.                                                 *)

LEMMA PickedPlaces ==
  ASSUME NEW m \in Seq(Proper), NEW I \in SUBSET DOMAIN m
  PROVE  /\ Places(I \X {0})
         /\ \A i, j \in I : Before(<<i, 0>>, <<j, 0>>) <=> i < j
         /\ \A p \in I \X {0} : p[1] \in I /\ p = <<p[1], 0>>
<1>1. DOMAIN m = 1..Len(m) /\ Len(m) \in Nat  OBVIOUS
<1>2. IsFiniteSet(1..Len(m))  BY <1>1, FS_Interval
<1>3. IsFiniteSet(I)  BY <1>1, <1>2, FS_Subset
<1>4. IsFiniteSet({0})  BY FS_Singleton
<1>5. IsFiniteSet(I \X {0})  BY <1>3, <1>4, FS_Product
<1>6. ASSUME NEW p \in I \X {0} PROVE p[1] \in I /\ p = <<p[1], 0>>  OBVIOUS
<1>7. ASSUME NEW p \in I \X {0} PROVE p \in Nat \X Nat
  <2>1. p[1] \in I /\ p = <<p[1], 0>>  BY <1>6
  <2>2. p[1] \in Nat  BY <1>1, <2>1
  <2> QED BY <2>1, <2>2
<1>8. \A i, j \in I : Before(<<i, 0>>, <<j, 0>>) <=> i < j  BY DEF Before
<1> QED BY <1>5, <1>6, <1>7, <1>8 DEF Places

\* What follows a message in the list still follows it, if it is picked.
LEMMA PickedFollows ==
  ASSUME NEW m \in Seq(Proper), NEW I \in SUBSET DOMAIN m, NEW i \in I, NEW j \in I, j \in ResultsOf(m, i)
  PROVE  Follows([p \in I \X {0} |-> m[p[1]]], <<i, 0>>, <<j, 0>>)
<1> DEFINE P == I \X {0}
           f == [p \in P |-> m[p[1]]]
<1>1. DOMAIN m = 1..Len(m) /\ Len(m) \in Nat  OBVIOUS
<1>2. i < j /\ \A k \in (i + 1)..j : m[k].role = "tool"  BY <1>1 DEF ResultsOf, IsTool
<1>3. ASSUME NEW r \in P, Before(<<i, 0>>, r), ~Before(<<j, 0>>, r) PROVE f[r].role = "tool"
  <2>1. r[1] \in I /\ r = <<r[1], 0>>  BY PickedPlaces
  <2>2. i < r[1] /\ ~(j < r[1])  BY <1>1, <1>3, <2>1 DEF Before
  <2>3. r[1] \in (i + 1)..j  BY <1>1, <2>1, <2>2
  <2> QED BY <1>2, <2>3
<1>4. Before(<<i, 0>>, <<j, 0>>)  BY <1>2, PickedPlaces
<1> QED BY <1>3, <1>4 DEF Follows

LEMMA PickedNoStray ==
  ASSUME NEW m \in Seq(Proper), NEW I \in SUBSET DOMAIN m,
         \A j \in I : IsTool(m, j) => \E i \in I : First(m, i, j)
  PROVE  NoStray(Picked(m, I))
<1> DEFINE P == I \X {0}
           f == [p \in P |-> m[p[1]]]
<1>1. DOMAIN m = 1..Len(m) /\ Len(m) \in Nat  OBVIOUS
<1>2. ASSUME NEW q \in P, f[q].role = "tool" PROVE \E p \in P : FirstAt(f, p, q)
  <2> DEFINE j == q[1]
  <2>1. j \in I /\ q = <<j, 0>> /\ f[q] = m[j]  BY PickedPlaces
  <2>2. PICK i \in I : First(m, i, j)  BY <1>2, <2>1 DEF IsTool
  <2>3. <<i, 0>> \in P /\ f[<<i, 0>>] = m[i]  OBVIOUS
  <2>4. m[i].role # "tool"  BY <1>1, <2>2 DEF First, IsTool
  <2>5. Follows(f, <<i, 0>>, q)
    <3>1. Follows(f, <<i, 0>>, <<j, 0>>)
      <4>1. j \in ResultsOf(m, i)  BY <2>2 DEF First
      <4> QED BY <2>1, <4>1, PickedFollows
    <3> QED BY <2>1, <3>1
  <2>6. m[j].id \in m[i].calls  BY <2>2 DEF First
  <2>7. ASSUME NEW r \in P, Before(<<i, 0>>, r), Before(r, q) PROVE f[r].id # f[q].id
    <3>1. r[1] \in I /\ r = <<r[1], 0>> /\ f[r] = m[r[1]]  BY PickedPlaces
    <3>2. i < r[1] /\ r[1] < j  BY <2>1, <2>7, <3>1, PickedPlaces
    <3>3. r[1] \in (i + 1)..(j - 1)  BY <1>1, <2>1, <3>1, <3>2
    <3> QED BY <2>1, <2>2, <3>1, <3>3 DEF First
  <2>8. DOMAIN f = P /\ f[<<i, 0>>].role # "tool" /\ f[q].id \in f[<<i, 0>>].calls
    BY <2>1, <2>3, <2>4, <2>6
  <2> HIDE DEF f, P, j
  <2>9. FirstAt(f, <<i, 0>>, q)  BY <2>5, <2>7, <2>8 DEF FirstAt
  <2> QED BY <2>3, <2>9
<1>3. Places(P)  BY PickedPlaces
<1>4. DOMAIN f = P  OBVIOUS
<1> HIDE DEF f, P
<1>5. NoStray(Listed(f))  BY <1>2, <1>3, <1>4, ListedNoStray
<1> QED BY <1>5 DEF Picked, f, P

LEMMA PickedAnswered ==
  ASSUME NEW m \in Seq(Proper), NEW I \in SUBSET DOMAIN m,
         \A i \in I : \A c \in m[i].calls : \E j \in I : j \in ResultsOf(m, i) /\ m[j].id = c
  PROVE  AllAnswered(Picked(m, I))
<1> DEFINE P == I \X {0}
           f == [p \in P |-> m[p[1]]]
<1>1. ASSUME NEW p \in P, NEW c \in f[p].calls PROVE \E q \in P : Follows(f, p, q) /\ f[q].id = c
  <2> DEFINE i == p[1]
  <2>1. i \in I /\ p = <<i, 0>> /\ f[p] = m[i]  BY PickedPlaces
  <2>2. PICK j \in I : j \in ResultsOf(m, i) /\ m[j].id = c  BY <1>1, <2>1
  <2>3. <<j, 0>> \in P /\ f[<<j, 0>>] = m[j]  OBVIOUS
  <2>4. Follows(f, <<i, 0>>, <<j, 0>>)  BY <2>1, <2>2, PickedFollows
  <2> HIDE DEF f, P, i
  <2>5. Follows(f, p, <<j, 0>>)  BY <2>1, <2>4
  <2> QED BY <2>2, <2>3, <2>5
<1>2. Places(P)  BY PickedPlaces
<1>3. DOMAIN f = P  OBVIOUS
<1> HIDE DEF f, P
<1>4. AllAnswered(Listed(f))  BY <1>1, <1>2, <1>3, ListedAnswered
<1> QED BY <1>4 DEF Picked, f, P

LEMMA PickedProper ==
  ASSUME NEW m \in Seq(Proper), NEW I \in SUBSET DOMAIN m
  PROVE  /\ Picked(m, I) \in Seq(Proper)
         /\ 1 \in I => 1 \in DOMAIN Picked(m, I) /\ Picked(m, I)[1] = m[1]
<1> DEFINE P == I \X {0}
           f == [p \in P |-> m[p[1]]]
<1>1. DOMAIN m = 1..Len(m) /\ Len(m) \in Nat /\ \A i \in DOMAIN m : m[i] \in Proper  OBVIOUS
<1>2. Places(P)  BY PickedPlaces
<1>3. \A p \in P : f[p] \in Proper  BY <1>1, PickedPlaces
<1>4. ASSUME 1 \in I PROVE <<1, 0>> \in P /\ f[<<1, 0>>] = m[1] /\ \A q \in P : ~Before(q, <<1, 0>>)
  <2>1. ASSUME NEW q \in P PROVE ~Before(q, <<1, 0>>)
    <3>1. q[1] \in I /\ q = <<q[1], 0>>  BY PickedPlaces
    <3>2. ~(q[1] < 1)  BY <1>1, <3>1
    <3> QED BY <1>4, <3>1, <3>2, PickedPlaces
  <2> QED BY <1>4, <2>1
<1>5. DOMAIN f = P  OBVIOUS
<1> HIDE DEF f, P
<1>6. Listed(f) \in Seq(Proper)  BY <1>2, <1>3, <1>5, ListedHolds
<1>7. ASSUME 1 \in I PROVE 1 \in DOMAIN Listed(f) /\ Listed(f)[1] = m[1]
  BY <1>2, <1>4, <1>5, <1>7, ListedFirst
<1> QED BY <1>6, <1>7 DEF Picked, f, P

LEMMA PickedAll ==
  ASSUME NEW m \in Seq(Proper)
  PROVE  Picked(m, DOMAIN m) = m
<1> DEFINE P == (DOMAIN m) \X {0}
           f == [p \in P |-> m[p[1]]]
           N == Len(m)
<1>1. DOMAIN m = 1..N /\ N \in Nat  OBVIOUS
<1>2. Places(P) /\ DOMAIN f = P  BY PickedPlaces
<1>3. ASSUME NEW n \in 1..N PROVE <<n, 0>> \in P /\ Position(<<n, 0>>, P) = n
  <2> DEFINE below == {q \in P : Before(q, <<n, 0>>)}
             at == [i \in 1..(n - 1) |-> <<i, 0>>]
  <2>1. n - 1 \in Nat /\ IsFiniteSet(1..(n - 1)) /\ Cardinality(1..(n - 1)) = n - 1
    <3>1. n \in Int /\ n >= 1 /\ n - 1 \in Nat  BY <1>1
    <3>2. /\ IsFiniteSet(1..(n - 1))
          /\ Cardinality(1..(n - 1)) = IF 1 > n - 1 THEN 0 ELSE (n - 1) - 1 + 1
      BY <3>1, FS_Interval
    <3> QED BY <3>1, <3>2
  <2>2. ASSUME NEW q \in below PROVE \E i \in 1..(n - 1) : at[i] = q
    <3>1. q[1] \in 1..N /\ q = <<q[1], 0>>  BY <1>1, PickedPlaces
    <3>2. q[1] < n  BY <1>1, <3>1, PickedPlaces
    <3>3. q[1] \in 1..(n - 1)  BY <1>1, <3>1, <3>2
    <3> QED BY <3>1, <3>3
  <2>3. ASSUME NEW i \in 1..(n - 1) PROVE at[i] \in below
    <3>1. i \in DOMAIN m /\ i < n /\ n \in DOMAIN m  BY <1>1
    <3>2. Before(<<i, 0>>, <<n, 0>>)  BY <3>1, PickedPlaces
    <3> QED BY <3>1, <3>2
  <2>4. \A i, j \in 1..(n - 1) : at[i] = at[j] => i = j  OBVIOUS
  <2>5. at \in Bijection(1..(n - 1), below)
    <3>1. at \in [1..(n - 1) -> below]  BY <2>3
    <3> HIDE DEF at, below
    <3> QED BY <2>2, <2>4, <3>1 DEF Bijection, Injection, Surjection, IsInjective
  <2> HIDE DEF at, below
  <2>6. Cardinality(below) = n - 1  BY <2>1, <2>5, FS_Bijection DEF ExistsBijection
  <2> QED BY <1>1, <2>6 DEF Position, below
<1>4. Cardinality(P) = N
  <2> HIDE DEF N
  <2>1. IsFiniteSet(1..N) /\ Cardinality(1..N) = N
    <3>1. IsFiniteSet(1..N) /\ Cardinality(1..N) = IF 1 > N THEN 0 ELSE N - 1 + 1
      BY <1>1, FS_Interval
    <3> QED BY <1>1, <3>1
  <2>2. IsFiniteSet({0}) /\ Cardinality({0}) = 1  BY FS_Singleton
  <2>3. Cardinality((1..N) \X {0}) = Cardinality(1..N) * Cardinality({0})
    BY <2>1, <2>2, FS_Product, Zenon
  <2>4. P = (1..N) \X {0}  BY <1>1
  <2> QED BY <1>1, <2>1, <2>2, <2>3, <2>4
<1>5. \A n \in 1..N : f[<<n, 0>>] = m[n]  BY <1>3
<1>6. Len(Listed(f)) = N /\ DOMAIN Listed(f) = 1..N
  BY <1>2, <1>4, ListedHolds
<1>7. \A n \in 1..N : Listed(f)[n] = m[n]
  <2> TAKE n \in 1..N
  <2>1. <<n, 0>> \in P /\ Position(<<n, 0>>, P) = n /\ f[<<n, 0>>] = m[n]  BY <1>3, <1>5
  <2> HIDE DEF f, P
  <2>2. Listed(f)[Position(<<n, 0>>, P)] = f[<<n, 0>>]  BY <1>2, <2>1, ListedHolds
  <2> QED BY <2>1, <2>2
<1>8. Listed(f) \in Seq(Proper)  BY PickedProper DEF Picked
<1> HIDE DEF f, P
<1>9. Listed(f) = m  BY <1>1, <1>6, <1>7, <1>8
<1> QED BY <1>9 DEF Picked, f, P

-----------------------------------------------------------------------------
(* sanitizeToolCallPairing.                                                 *)

SentPlaces(m) ==
  ((DOMAIN m) \X {0}) \cup
  {p \in (DOMAIN m) \X (1..MaxTurnCalls) :
     ResultsOf(m, p[1]) = {} /\ \E c \in m[p[1]].calls : c[2] = p[2]}

SentAt(m) ==
  [p \in SentPlaces(m) |->
     IF p[2] = 0 THEN Repaired(m, p[1]) ELSE Result(CHOOSE c \in m[p[1]].calls : c[2] = p[2])]

LEMMA SanitizedIsListed == ASSUME NEW m PROVE Sanitized(m) = Listed(SentAt(m))
BY DEF Sanitized, SentAt, SentPlaces

LEMMA RepairedFields ==
  ASSUME NEW m \in Seq(Proper), NEW i \in DOMAIN m
  PROVE  /\ Repaired(m, i) \in Proper /\ Repaired(m, i).role = m[i].role /\ Repaired(m, i).id = m[i].id
         /\ m[i].calls \cap Answers(m, i) \subseteq Repaired(m, i).calls
         /\ m[i].calls = {} \/ ResultsOf(m, i) = {} => Repaired(m, i) = m[i]
         /\ ResultsOf(m, i) # {} => Repaired(m, i).calls \subseteq Answers(m, i)
<1>1. m[i] \in Proper  OBVIOUS
<1>2. CASE m[i].calls = {} \/ ResultsOf(m, i) = {}
  <2>1. Repaired(m, i) = m[i]  BY <1>2 DEF Repaired
  <2> QED BY <1>1, <1>2, <2>1
<1>3. CASE ~(m[i].calls = {} \/ ResultsOf(m, i) = {})
  <2> DEFINE C == m[i].calls \cap Answers(m, i)
  <2>1. Repaired(m, i) = [m[i] EXCEPT !.calls = C]  BY <1>3 DEF Repaired
  <2>2. C \subseteq m[i].calls /\ C \subseteq Answers(m, i)  OBVIOUS
  <2> HIDE DEF C
  <2>3. Repaired(m, i).role = m[i].role /\ Repaired(m, i).id = m[i].id /\ Repaired(m, i).calls = C
    BY <1>1, <2>1 DEF Proper
  <2>4. Repaired(m, i) \in Proper  BY <1>1, <2>1, <2>2 DEF Proper
  <2> QED BY <1>3, <2>2, <2>3, <2>4 DEF C
<1> QED BY <1>2, <1>3

LEMMA SentShape ==
  ASSUME NEW m \in Seq(Proper)
  PROVE  /\ Places(SentPlaces(m)) /\ DOMAIN SentAt(m) = SentPlaces(m)
         /\ \A p \in SentPlaces(m) : /\ p[1] \in DOMAIN m /\ p = <<p[1], p[2]>>
                                     /\ p[1] \in Nat /\ p[2] \in Nat
<1> DEFINE box == (DOMAIN m) \X (0..MaxTurnCalls)
<1>1. DOMAIN m = 1..Len(m) /\ Len(m) \in Nat /\ MaxTurnCalls \in Nat  BY HistoryAssumption
<1>2. IsFiniteSet(1..Len(m)) /\ IsFiniteSet(0..MaxTurnCalls)  BY <1>1, FS_Interval
<1>3. IsFiniteSet(box)  BY <1>1, <1>2, FS_Product
<1>4. SentPlaces(m) \in SUBSET box
  <2>1. ASSUME NEW p \in SentPlaces(m) PROVE p \in box
    <3>1. CASE p \in (DOMAIN m) \X {0}
      <4>1. p[1] \in DOMAIN m /\ p = <<p[1], 0>>  BY <3>1
      <4> QED BY <1>1, <4>1
    <3>2. CASE p \in (DOMAIN m) \X (1..MaxTurnCalls)
      <4>1. p[1] \in DOMAIN m /\ p[2] \in 1..MaxTurnCalls /\ p = <<p[1], p[2]>>  BY <3>2
      <4>2. p[2] \in 0..MaxTurnCalls  BY <1>1, <4>1
      <4> QED BY <4>1, <4>2
    <3> QED BY <2>1, <3>1, <3>2 DEF SentPlaces
  <2> QED BY <2>1
<1>5. ASSUME NEW p \in SentPlaces(m)
      PROVE  p[1] \in DOMAIN m /\ p = <<p[1], p[2]>> /\ p[1] \in Nat /\ p[2] \in Nat
  <2>1. p[1] \in DOMAIN m /\ p[2] \in 0..MaxTurnCalls /\ p = <<p[1], p[2]>>  BY <1>4
  <2> QED BY <1>1, <2>1
<1>6. ASSUME NEW p \in SentPlaces(m) PROVE p \in Nat \X Nat
  <2>1. p = <<p[1], p[2]>> /\ p[1] \in Nat /\ p[2] \in Nat  BY <1>5
  <2> QED BY <2>1
<1>7. IsFiniteSet(SentPlaces(m))
  <2> HIDE DEF box
  <2> QED BY <1>3, <1>4, FS_Subset
<1>8. DOMAIN SentAt(m) = SentPlaces(m)  BY DEF SentAt
<1> QED BY <1>5, <1>6, <1>7, <1>8 DEF Places

\* A message of the list, repaired, and the placeholders after it.
LEMMA SentMessages ==
  ASSUME NEW m \in Seq(Proper), NEW i \in DOMAIN m
  PROVE  /\ <<i, 0>> \in SentPlaces(m) /\ SentAt(m)[<<i, 0>>] = Repaired(m, i)
         /\ \A c \in m[i].calls : ResultsOf(m, i) = {} =>
              c[2] \in Nat \ {0} /\ <<i, c[2]>> \in SentPlaces(m) /\ SentAt(m)[<<i, c[2]>>] = Result(c)
<1>1. <<i, 0>> \in SentPlaces(m)  BY DEF SentPlaces
<1>2. ASSUME NEW c \in m[i].calls, ResultsOf(m, i) = {}
      PROVE  c[2] \in Nat \ {0} /\ <<i, c[2]>> \in SentPlaces(m) /\ SentAt(m)[<<i, c[2]>>] = Result(c)
  <2>1. m[i] \in Proper  OBVIOUS
  <2>2. c \in CallIds  BY <2>1, ProperFields
  <2>3. c[2] \in 1..MaxTurnCalls  BY <2>2 DEF CallIds
  <2>4. c[2] \in Nat /\ c[2] # 0  BY <2>3, HistoryAssumption
  <2>5. <<i, c[2]>> \in SentPlaces(m)  BY <1>2, <2>3 DEF SentPlaces
  <2>6. (CHOOSE d \in m[i].calls : d[2] = c[2]) = c  BY <2>1, ProperFields
  <2> QED BY <2>4, <2>5, <2>6 DEF SentAt
<1> QED BY <1>1, <1>2 DEF SentAt

LEMMA SentPlaceholders ==
  ASSUME NEW m \in Seq(Proper), NEW p \in SentPlaces(m), p[2] # 0
  PROVE  /\ ResultsOf(m, p[1]) = {} /\ m[p[1]].role = "assistant"
         /\ \E c \in m[p[1]].calls : c[2] = p[2] /\ SentAt(m)[p] = Result(c)
<1>1. p \notin (DOMAIN m) \X {0}  OBVIOUS
<1>2. ResultsOf(m, p[1]) = {} /\ \E c \in m[p[1]].calls : c[2] = p[2]  BY <1>1 DEF SentPlaces
<1>3. PICK c \in m[p[1]].calls : c[2] = p[2]  BY <1>2
<1>4. p[1] \in DOMAIN m /\ p = <<p[1], p[2]>>  BY SentShape
<1>5. SentAt(m)[p] = Result(c)
  <2>1. SentAt(m)[<<p[1], c[2]>>] = Result(c)  BY <1>2, <1>4, SentMessages
  <2>2. <<p[1], c[2]>> = p  BY <1>3, <1>4
  <2> QED BY <2>1, <2>2
<1>6. m[p[1]].role = "assistant"
  <2>1. m[p[1]] \in Proper  BY <1>4
  <2> QED BY <1>3, <2>1, ProperFields
<1> QED BY <1>2, <1>3, <1>5, <1>6

\* No placeholder is put between a call and its results.
LEMMA SentBetween ==
  ASSUME NEW m \in Seq(Proper), NEW i \in DOMAIN m, NEW j \in ResultsOf(m, i),
         NEW r \in SentPlaces(m), Before(<<i, 0>>, r), ~Before(<<j, 0>>, r)
  PROVE  r[1] \in (i + 1)..j /\ IsTool(m, r[1]) /\ r = <<r[1], 0>>
<1>1. DOMAIN m = 1..Len(m) /\ Len(m) \in Nat  OBVIOUS
<1>2. j \in DOMAIN m /\ i < j /\ \A k \in (i + 1)..j : IsTool(m, k)  BY <1>1 DEF ResultsOf
<1>3. r[1] \in DOMAIN m /\ r = <<r[1], r[2]>> /\ r[1] \in Nat /\ r[2] \in Nat  BY SentShape
<1>4. (i < r[1] \/ (i = r[1] /\ 0 < r[2])) /\ ~(j < r[1])  BY <1>1, <1>2, <1>3 DEF Before
<1>5. i # r[1]
  <2>1. ASSUME i = r[1] PROVE FALSE
    <3>1. r[2] # 0  BY <1>1, <1>3, <1>4, <2>1
    <3>2. ResultsOf(m, r[1]) = {}  BY <3>1, SentPlaceholders
    <3> QED BY <2>1, <3>2
  <2> QED BY <2>1
<1>6. r[1] \in (i + 1)..j  BY <1>1, <1>2, <1>3, <1>4, <1>5
<1>7. IsTool(m, r[1])  BY <1>2, <1>6
<1>8. r[2] = 0  BY <1>7, SentPlaceholders DEF IsTool
<1> QED BY <1>3, <1>6, <1>7, <1>8

LEMMA SentFollows ==
  ASSUME NEW m \in Seq(Proper), NEW i \in DOMAIN m, NEW j \in ResultsOf(m, i)
  PROVE  Follows(SentAt(m), <<i, 0>>, <<j, 0>>)
<1>1. DOMAIN m = 1..Len(m) /\ Len(m) \in Nat  OBVIOUS
<1>2. Before(<<i, 0>>, <<j, 0>>)  BY <1>1 DEF ResultsOf, Before
<1>3. ASSUME NEW r \in SentPlaces(m), Before(<<i, 0>>, r), ~Before(<<j, 0>>, r)
      PROVE  SentAt(m)[r].role = "tool"
  <2>1. IsTool(m, r[1]) /\ r = <<r[1], 0>>  BY <1>3, SentBetween
  <2>2. r[1] \in DOMAIN m /\ m[r[1]].role = "tool"  BY <2>1 DEF IsTool
  <2>3. SentAt(m)[r] = Repaired(m, r[1])  BY <2>1, <2>2, SentMessages
  <2> QED BY <2>2, <2>3, RepairedFields
<1> QED BY <1>2, <1>3, SentShape DEF Follows

LEMMA PlaceholderFollows ==
  ASSUME NEW m \in Seq(Proper), NEW i \in DOMAIN m, ResultsOf(m, i) = {}, NEW c \in m[i].calls
  PROVE  Follows(SentAt(m), <<i, 0>>, <<i, c[2]>>)
<1>1. DOMAIN m = 1..Len(m) /\ Len(m) \in Nat  OBVIOUS
<1>2. c[2] \in Nat \ {0}  BY SentMessages
<1>3. Before(<<i, 0>>, <<i, c[2]>>)  BY <1>1, <1>2 DEF Before
<1>4. ASSUME NEW r \in SentPlaces(m), Before(<<i, 0>>, r), ~Before(<<i, c[2]>>, r)
      PROVE  SentAt(m)[r].role = "tool"
  <2>1. r = <<r[1], r[2]>> /\ r[1] \in Nat /\ r[2] \in Nat  BY SentShape
  <2>2. r[2] # 0  BY <1>1, <1>4, <2>1 DEF Before
  <2> QED BY <2>2, SentPlaceholders, ProperMessages
<1> QED BY <1>3, <1>4, SentShape DEF Follows

\* Whatever list sanitizeToolCallPairing is given, it leaves no call without a
\* result: of an answer with some results the other calls are taken back, and one
\* without any gets a placeholder for each.
THEOREM SanitizedAnswered == ASSUME NEW m \in Seq(Proper) PROVE AllAnswered(Sanitized(m))
<1> DEFINE P == SentPlaces(m)
           f == SentAt(m)
<1>1. Places(P) /\ DOMAIN f = P  BY SentShape
<1>2. ASSUME NEW p \in P, NEW c \in f[p].calls PROVE \E q \in P : Follows(f, p, q) /\ f[q].id = c
  <2> DEFINE i == p[1]
  <2>1. i \in DOMAIN m /\ p = <<i, p[2]>>  BY SentShape
  <2>2. p[2] = 0  BY <1>2, SentPlaceholders, ProperMessages
  <2>3. f[p] = Repaired(m, i)  BY <2>1, <2>2, SentMessages
  <2>4. CASE ResultsOf(m, i) # {}
    <3>1. c \in Answers(m, i)  BY <1>2, <2>1, <2>3, <2>4, RepairedFields
    <3>2. PICK j \in ResultsOf(m, i) : m[j].id = c  BY <3>1 DEF Answers
    <3>3. j \in DOMAIN m  BY <2>1 DEF ResultsOf
    <3>4. <<j, 0>> \in P /\ f[<<j, 0>>].id = c  BY <3>2, <3>3, SentMessages, RepairedFields
    <3>5. Follows(f, p, <<j, 0>>)  BY <2>1, <2>2, <3>2, SentFollows
    <3> QED BY <3>4, <3>5
  <2>5. CASE ResultsOf(m, i) = {}
    <3>1. c \in m[i].calls  BY <1>2, <2>1, <2>3, <2>5, RepairedFields
    <3>2. <<i, c[2]>> \in P /\ f[<<i, c[2]>>].id = c  BY <2>1, <2>5, <3>1, SentMessages, ProperMessages
    <3>3. Follows(f, p, <<i, c[2]>>)  BY <2>1, <2>2, <2>5, <3>1, PlaceholderFollows
    <3> QED BY <3>2, <3>3
  <2> QED BY <2>4, <2>5
<1> HIDE DEF P, f
<1>3. AllAnswered(Listed(f))  BY <1>1, <1>2, ListedAnswered
<1> QED BY <1>3, SanitizedIsListed DEF f

LEMMA SanitizedNoStray == ASSUME NEW m \in Seq(Proper), NoStray(m) PROVE NoStray(Sanitized(m))
<1> DEFINE P == SentPlaces(m)
           f == SentAt(m)
<1>1. Places(P) /\ DOMAIN f = P  BY SentShape
<1>2. DOMAIN m = 1..Len(m) /\ Len(m) \in Nat  OBVIOUS
<1>3. ASSUME NEW q \in P, f[q].role = "tool" PROVE \E p \in P : FirstAt(f, p, q)
  <2>1. q[1] \in DOMAIN m /\ q = <<q[1], q[2]>> /\ q[2] \in Nat  BY SentShape
  <2>2. CASE q[2] = 0
    <3> DEFINE j == q[1]
    <3>1. q = <<j, 0>> /\ f[q].id = m[j].id /\ m[j].role = "tool"
      BY <1>3, <2>1, <2>2, SentMessages, RepairedFields
    <3>2. PICK i \in 1..(j - 1) : First(m, i, j)
      BY <2>1, <3>1, StrayMeans DEF NoStray, IsTool
    <3>3. i \in DOMAIN m /\ j \in ResultsOf(m, i) /\ m[i].role # "tool" /\ m[j].id \in m[i].calls
      BY <1>2, <2>1, <3>2 DEF First, IsTool
    <3>4. <<i, 0>> \in P /\ f[<<i, 0>>].role # "tool" /\ m[j].id \in f[<<i, 0>>].calls
      BY <3>3, SentMessages, RepairedFields DEF Answers
    <3>5. Follows(f, <<i, 0>>, q)  BY <3>1, <3>3, SentFollows
    <3>6. ASSUME NEW r \in P, Before(<<i, 0>>, r), Before(r, q) PROVE f[r].id # f[q].id
      <4>1. r \in Nat \X Nat /\ q \in Nat \X Nat  BY <1>1 DEF Places
      <4>2. ~Before(q, r)  BY <3>6, <4>1, BeforeOrders
      <4>3. r[1] \in (i + 1)..j /\ IsTool(m, r[1]) /\ r = <<r[1], 0>>
        BY <3>1, <3>3, <3>6, <4>2, SentBetween
      <4>4. r[1] \in (i + 1)..(j - 1)  BY <1>2, <2>1, <3>1, <3>6, <4>3 DEF Before
      <4>5. m[r[1]].id # m[j].id  BY <3>2, <4>4 DEF First
      <4>6. f[r].id = m[r[1]].id  BY <4>3, SentMessages, RepairedFields DEF IsTool
      <4> QED BY <3>1, <4>5, <4>6
    <3> HIDE DEF j, f, P
    <3>7. FirstAt(f, <<i, 0>>, q)  BY <1>1, <3>1, <3>4, <3>5, <3>6 DEF FirstAt
    <3> QED BY <3>4, <3>7
  <2>3. CASE q[2] # 0
    <3> DEFINE i == q[1]
    <3>1. PICK c \in m[i].calls : c[2] = q[2] /\ f[q] = Result(c)  BY <2>3, SentPlaceholders
    <3>2. ResultsOf(m, i) = {} /\ m[i].role = "assistant"  BY <2>3, SentPlaceholders
    <3>3. <<i, 0>> \in P /\ f[<<i, 0>>] = m[i]  BY <2>1, <3>2, SentMessages, RepairedFields
    <3>4. Follows(f, <<i, 0>>, q)  BY <2>1, <3>1, <3>2, PlaceholderFollows
    <3>5. ASSUME NEW r \in P, Before(<<i, 0>>, r), Before(r, q) PROVE f[r].id # f[q].id
      <4>1. r = <<r[1], r[2]>> /\ r[1] \in Nat /\ r[2] \in Nat  BY SentShape
      <4>2. r[1] = i /\ r[2] # 0 /\ r[2] # q[2]  BY <1>2, <2>1, <3>5, <4>1 DEF Before
      <4>3. PICK d \in m[i].calls : d[2] = r[2] /\ f[r] = Result(d)  BY <4>2, SentPlaceholders
      <4>4. c # d  BY <3>1, <4>2, <4>3
      <4> QED BY <3>1, <4>3, <4>4, ProperMessages
    <3>6. f[q].id = c  BY <3>1, ProperMessages
    <3> HIDE DEF i, f, P
    <3>7. FirstAt(f, <<i, 0>>, q)  BY <1>1, <3>1, <3>2, <3>3, <3>4, <3>5, <3>6 DEF FirstAt
    <3> QED BY <3>3, <3>7
  <2> QED BY <2>2, <2>3
<1> HIDE DEF P, f
<1>4. NoStray(Listed(f))  BY <1>1, <1>3, ListedNoStray
<1> QED BY <1>4, SanitizedIsListed DEF f

LEMMA SanitizedProper ==
  ASSUME NEW m \in Seq(Proper), 1 \in DOMAIN m, m[1] = System
  PROVE  Sanitized(m) \in Seq(Proper) /\ 1 \in DOMAIN Sanitized(m) /\ Sanitized(m)[1] = System
<1> DEFINE P == SentPlaces(m)
           f == SentAt(m)
<1>1. Places(P) /\ DOMAIN f = P  BY SentShape
<1>2. DOMAIN m = 1..Len(m) /\ Len(m) \in Nat  OBVIOUS
<1>3. ASSUME NEW p \in P PROVE f[p] \in Proper
  <2>1. p[1] \in DOMAIN m /\ p = <<p[1], p[2]>>  BY SentShape
  <2>2. CASE p[2] = 0  BY <2>1, <2>2, SentMessages, RepairedFields
  <2>3. CASE p[2] # 0
    <3>1. PICK c \in m[p[1]].calls : f[p] = Result(c)  BY <2>3, SentPlaceholders
    <3>2. m[p[1]] \in Proper  BY <2>1
    <3>3. c \in CallIds  BY <3>1, <3>2, ProperFields
    <3> QED BY <3>1, <3>3, ProperMessages
  <2> QED BY <2>2, <2>3
<1>4. <<1, 0>> \in P /\ f[<<1, 0>>] = System
  BY SentMessages, RepairedFields, ProperMessages
<1>5. ASSUME NEW q \in P PROVE ~Before(q, <<1, 0>>)
  <2>1. q[1] \in DOMAIN m /\ q[1] \in Nat /\ q[2] \in Nat  BY SentShape
  <2> QED BY <1>2, <2>1 DEF Before
<1> HIDE DEF P, f
<1>6. Listed(f) \in Seq(Proper)  BY <1>1, <1>3, ListedHolds
<1>7. 1 \in DOMAIN Listed(f) /\ Listed(f)[1] = System  BY <1>1, <1>4, <1>5, ListedFirst
<1> QED BY <1>6, <1>7, SanitizedIsListed DEF f

-----------------------------------------------------------------------------
(* normalizeOpenAiCompatibleMessages.                                       *)

\* A result follows one message only that is none.
LEMMA HeadUnique ==
  ASSUME NEW m, Len(m) \in Nat, DOMAIN m = 1..Len(m), NEW i \in DOMAIN m, NEW k \in DOMAIN m, NEW j,
         j \in ResultsOf(m, i), j \in ResultsOf(m, k), ~IsTool(m, i), ~IsTool(m, k)
  PROVE  i = k
<1>1. j \in Nat /\ i < j /\ k < j  BY DEF ResultsOf
<1>2. ~(i < k)
  <2>1. ASSUME i < k PROVE FALSE
    <3>1. k \in (i + 1)..j  BY <1>1, <2>1
    <3> QED BY <3>1 DEF ResultsOf
  <2> QED BY <2>1
<1>3. ~(k < i)
  <2>1. ASSUME k < i PROVE FALSE
    <3>1. i \in (k + 1)..j  BY <1>1, <2>1
    <3> QED BY <3>1 DEF ResultsOf
  <2> QED BY <2>1
<1> QED BY <1>2, <1>3

LEMMA FirstAnswer ==
  ASSUME NEW m \in Seq(Proper), NEW i \in DOMAIN m, NEW c \in m[i].calls, c \in Answers(m, i)
  PROVE  \E j \in ResultsOf(m, i) : m[j].id = c /\ First(m, i, j)
<1> DEFINE J == {j \in ResultsOf(m, i) : m[j].id = c}
<1>1. DOMAIN m = 1..Len(m) /\ Len(m) \in Nat /\ m[i] \in Proper  OBVIOUS
<1>2. J \in SUBSET (1..Len(m)) /\ J # {}  BY <1>1 DEF Answers, ResultsOf
<1>3. J \subseteq Nat /\ IsFiniteSet(J)
  <2> HIDE DEF J
  <2>1. IsFiniteSet(1..Len(m))  BY <1>1, FS_Interval
  <2>2. IsFiniteSet(J)  BY <1>2, <2>1, FS_Subset
  <2>3. J \subseteq Nat  BY <1>1, <1>2
  <2> QED BY <2>2, <2>3
<1>4. PICK j \in J : \A k \in J : j <= k
  <2> HIDE DEF J
  <2> QED BY <1>2, <1>3, Extremes
<1>5. j \in ResultsOf(m, i) /\ m[j].id = c  OBVIOUS
<1>6. i \in 1..(j - 1)  BY <1>1, <1>5 DEF ResultsOf
<1>7. ~IsTool(m, i)  BY <1>1, ProperFields DEF IsTool
<1>8. ASSUME NEW k \in (i + 1)..(j - 1) PROVE m[k].id # m[j].id
  <2>1. k \in ResultsOf(m, i) /\ ~(j <= k)  BY <1>1, <1>5, <1>8 DEF ResultsOf
  <2> QED BY <1>4, <1>5, <2>1
<1> QED BY <1>5, <1>6, <1>7, <1>8 DEF First

\* Without strays, what follows an answer is the results of its calls.
LEMMA PairedCalls ==
  ASSUME NEW m \in Seq(Proper), NoStray(m), AllAnswered(m), NEW i \in DOMAIN m, ~IsTool(m, i)
  PROVE  m[i].calls = Answers(m, i)
<1>1. DOMAIN m = 1..Len(m) /\ Len(m) \in Nat  OBVIOUS
<1>2. ASSUME NEW j \in ResultsOf(m, i) PROVE m[j].id \in m[i].calls
  <2>1. j \in DOMAIN m /\ IsTool(m, j)  BY <1>1 DEF ResultsOf
  <2>2. PICK k \in 1..(j - 1) : First(m, k, j)  BY <2>1, StrayMeans DEF NoStray
  <2>3. k \in DOMAIN m /\ ~IsTool(m, k) /\ j \in ResultsOf(m, k) /\ m[j].id \in m[k].calls
    BY <1>1, <2>1, <2>2 DEF First
  <2>4. i = k  BY <1>1, <2>3, HeadUnique
  <2> QED BY <2>3, <2>4
<1>3. Answers(m, i) \subseteq m[i].calls  BY <1>2 DEF Answers
<1> QED BY <1>3 DEF AllAnswered

LEMMA StrippedSame == ASSUME NEW m \in Seq(Proper), AllAnswered(m) PROVE Stripped(m) = m
<1>1. DOMAIN m = 1..Len(m) /\ Len(m) \in Nat /\ m = [i \in 1..Len(m) |-> m[i]]  OBVIOUS
<1>2. \A i \in 1..Len(m) : ~(m[i].calls # {} /\ m[i].calls \cap Answers(m, i) = {})
  BY <1>1 DEF AllAnswered
<1> QED BY <1>1, <1>2 DEF Stripped

\* And whatever results have lost their call, normalizeOpenAiCompatibleMessages
\* then leaves a list in which each call has a result and each result a call.
THEOREM NormalisedPaired ==
  ASSUME NEW m \in Seq(Proper), AllAnswered(m)
  PROVE  Normalised(m) \in Seq(Proper) /\ NoStray(Normalised(m)) /\ AllAnswered(Normalised(m))
<1> DEFINE I == {i \in DOMAIN m : ~Stray(m, i)}
<1>1. DOMAIN m = 1..Len(m) /\ Len(m) \in Nat  OBVIOUS
<1>2. ASSUME NEW j \in I, IsTool(m, j) PROVE \E i \in I : First(m, i, j)
  <2>1. PICK i \in 1..(j - 1) : First(m, i, j)  BY <1>2, StrayMeans
  <2>2. i \in DOMAIN m /\ ~Stray(m, i)  BY <1>1, <2>1 DEF First, Stray
  <2> QED BY <2>1, <2>2
<1>3. ASSUME NEW i \in I, NEW c \in m[i].calls PROVE \E j \in I : j \in ResultsOf(m, i) /\ m[j].id = c
  <2>1. c \in Answers(m, i)  BY <1>3 DEF AllAnswered
  <2>2. PICK j \in ResultsOf(m, i) : m[j].id = c /\ First(m, i, j)  BY <2>1, FirstAnswer
  <2>3. j \in DOMAIN m  BY <1>1 DEF ResultsOf
  <2>4. ~Stray(m, j)  BY <2>2, StrayMeans DEF First
  <2> QED BY <2>2, <2>3, <2>4
<1>4. I \in SUBSET DOMAIN m  OBVIOUS
<1> HIDE DEF I
<1>5. NoStray(Picked(m, I))  BY <1>2, <1>4, PickedNoStray
<1>6. AllAnswered(Picked(m, I))  BY <1>3, <1>4, PickedAnswered
<1>7. Picked(m, I) \in Seq(Proper)  BY <1>4, PickedProper
<1>8. Normalised(m) = Picked(m, I)  BY <1>6, <1>7, StrippedSame DEF Normalised, I
<1> QED BY <1>5, <1>6, <1>7, <1>8

LEMMA NormalisedSame ==
  ASSUME NEW m \in Seq(Proper), AllAnswered(m), NoStray(m)
  PROVE  Normalised(m) = m
<1>1. {i \in DOMAIN m : ~Stray(m, i)} = DOMAIN m  BY DEF NoStray
<1> QED BY <1>1, PickedAll, StrippedSame DEF Normalised

-----------------------------------------------------------------------------
(* dropOldestCompactibleMessages.                                           *)

LEMMA OldestDropped ==
  ASSUME NEW m \in Seq(Proper), Droppable(m) # {}
  PROVE  \E o \in Droppable(m) :
           /\ \A i \in Droppable(m) : o <= i
           /\ Drops(m) = {o} \cup (IF m[o].calls = {} THEN {} ELSE ResultsOf(m, o))
<1> DEFINE D == Droppable(m)
           o == CHOOSE i \in D : \A j \in D : i <= j
<1>1. DOMAIN m = 1..Len(m) /\ Len(m) \in Nat  OBVIOUS
<1>2. D \in SUBSET (1..Len(m))  BY <1>1 DEF Droppable
<1>3. D \subseteq Nat /\ IsFiniteSet(D)
  <2> HIDE DEF D
  <2>1. IsFiniteSet(1..Len(m))  BY <1>1, FS_Interval
  <2>2. IsFiniteSet(D)  BY <1>2, <2>1, FS_Subset
  <2>3. D \subseteq Nat  BY <1>1, <1>2
  <2> QED BY <2>2, <2>3
<1>4. o \in D /\ \A i \in D : o <= i
  <2> HIDE DEF D
  <2>1. \E i \in D : \A j \in D : i <= j  BY <1>3, Extremes DEF D
  <2> QED BY <2>1
<1>5. Drops(m) = {o} \cup (IF m[o].calls = {} THEN {} ELSE ResultsOf(m, o))  BY DEF Drops
<1> QED BY <1>4, <1>5

\* What is kept keeps the results of its calls, and the calls of its results.
LEMMA DropsWhole ==
  ASSUME NEW m \in Seq(Proper), Droppable(m) # {}, NEW i \in DOMAIN m, NEW j \in ResultsOf(m, i),
         m[i].calls # {}
  PROVE  i \in Drops(m) <=> j \in Drops(m)
<1>1. DOMAIN m = 1..Len(m) /\ Len(m) \in Nat /\ m[i] \in Proper  OBVIOUS
<1>2. PICK o \in Droppable(m) :
        /\ \A k \in Droppable(m) : o <= k
        /\ Drops(m) = {o} \cup (IF m[o].calls = {} THEN {} ELSE ResultsOf(m, o))
  BY OldestDropped
<1>3. o \in DOMAIN m /\ m[o] \in Proper  BY DEF Droppable
<1>4. m[i].role = "assistant" /\ ~IsTool(m, i)  BY <1>1, ProperFields DEF IsTool
<1>5. i \in Droppable(m)  BY <1>4 DEF Droppable, LatestUser
<1>6. o <= i /\ i < j /\ j \in Nat  BY <1>1, <1>2, <1>5 DEF ResultsOf
<1>7. ASSUME i \in Drops(m) PROVE j \in Drops(m)
  <2>1. i \notin ResultsOf(m, o)  BY <1>1, <1>3, <1>4 DEF ResultsOf
  <2>2. i = o  BY <1>2, <1>7, <2>1
  <2> QED BY <1>2, <2>2
<1>8. ASSUME j \in Drops(m) PROVE i \in Drops(m)
  <2>1. j # o  BY <1>1, <1>3, <1>6
  <2>2. m[o].calls # {} /\ j \in ResultsOf(m, o)  BY <1>2, <1>8, <2>1
  <2>3. ~IsTool(m, o)  BY <1>3, <2>2, ProperFields DEF IsTool
  <2>4. i = o  BY <1>1, <1>3, <1>4, <2>2, <2>3, HeadUnique
  <2> QED BY <1>2, <2>4
<1> QED BY <1>7, <1>8

LEMMA DroppedKeeps ==
  ASSUME NEW m \in Seq(Proper), Droppable(m) # {}, 1 \in DOMAIN m, m[1] = System
  PROVE  /\ Dropped(m) \in Seq(Proper) /\ 1 \in DOMAIN Dropped(m) /\ Dropped(m)[1] = System
         /\ AllAnswered(m) => AllAnswered(Dropped(m))
         /\ NoStray(m) => NoStray(Dropped(m))
<1> DEFINE I == (DOMAIN m) \ Drops(m)
<1>1. DOMAIN m = 1..Len(m) /\ Len(m) \in Nat /\ I \in SUBSET DOMAIN m  OBVIOUS
<1>2. 1 \in I
  <2>1. PICK o \in Droppable(m) : Drops(m) = {o} \cup (IF m[o].calls = {} THEN {} ELSE ResultsOf(m, o))
    BY OldestDropped
  <2>2. o \in DOMAIN m /\ o # 1  BY ProperMessages DEF Droppable
  <2>3. 1 \notin ResultsOf(m, o)  BY <1>1, <2>2 DEF ResultsOf
  <2> QED BY <2>1, <2>2, <2>3
<1>3. ASSUME AllAnswered(m), NEW i \in I, NEW c \in m[i].calls
      PROVE  \E j \in I : j \in ResultsOf(m, i) /\ m[j].id = c
  <2>1. c \in Answers(m, i)  BY <1>3 DEF AllAnswered
  <2>2. PICK j \in ResultsOf(m, i) : m[j].id = c  BY <2>1 DEF Answers
  <2>3. j \in DOMAIN m  BY <1>1 DEF ResultsOf
  <2>4. j \notin Drops(m)  BY <1>3, <2>2, DropsWhole
  <2> QED BY <2>2, <2>3, <2>4
<1>4. ASSUME NoStray(m), NEW j \in I, IsTool(m, j) PROVE \E i \in I : First(m, i, j)
  <2>1. PICK i \in 1..(j - 1) : First(m, i, j)  BY <1>4, StrayMeans DEF NoStray
  <2>2. i \in DOMAIN m /\ j \in ResultsOf(m, i) /\ m[i].calls # {}  BY <1>1, <2>1 DEF First
  <2>3. i \notin Drops(m)  BY <1>4, <2>2, DropsWhole
  <2> QED BY <2>1, <2>2, <2>3
<1> HIDE DEF I
<1>5. AllAnswered(m) => AllAnswered(Picked(m, I))  BY <1>1, <1>3, PickedAnswered
<1>6. NoStray(m) => NoStray(Picked(m, I))  BY <1>1, <1>4, PickedNoStray
<1>7. Picked(m, I) \in Seq(Proper) /\ 1 \in DOMAIN Picked(m, I) /\ Picked(m, I)[1] = System
  BY <1>1, <1>2, PickedProper
<1> QED BY <1>5, <1>6, <1>7 DEF Dropped, I

-----------------------------------------------------------------------------
(* A message is added.                                                      *)

LEMMA AppendedFields ==
  ASSUME NEW m \in Seq(Proper), NEW x \in Proper
  PROVE  /\ Append(m, x) \in Seq(Proper) /\ Len(m) \in Nat /\ DOMAIN m = 1..Len(m)
         /\ Len(Append(m, x)) = Len(m) + 1 /\ DOMAIN Append(m, x) = 1..(Len(m) + 1)
         /\ \A i \in DOMAIN m : Append(m, x)[i] = m[i]
         /\ Append(m, x)[Len(m) + 1] = x
OBVIOUS

LEMMA AppendedFirst ==
  ASSUME NEW m \in Seq(Proper), NEW x \in Proper, NEW i \in DOMAIN m
  PROVE  /\ ResultsOf(m, i) \subseteq ResultsOf(Append(m, x), i)
         /\ \A j \in DOMAIN m : First(m, i, j) => First(Append(m, x), i, j)
<1> DEFINE n == Append(m, x)
<1>1. /\ n \in Seq(Proper) /\ Len(m) \in Nat /\ DOMAIN m = 1..Len(m)
      /\ Len(n) = Len(m) + 1 /\ DOMAIN n = 1..(Len(m) + 1) /\ \A k \in DOMAIN m : n[k] = m[k]
  BY AppendedFields
<1> HIDE DEF n
<1>2. \A k \in DOMAIN m : IsTool(m, k) <=> IsTool(n, k)  BY <1>1 DEF IsTool
<1>3. ASSUME NEW j \in ResultsOf(m, i) PROVE j \in ResultsOf(n, i)
  <2>1. j \in (i + 1)..Len(m) /\ \A k \in (i + 1)..j : IsTool(m, k)  BY DEF ResultsOf
  <2>2. \A k \in (i + 1)..j : IsTool(n, k)  BY <1>1, <1>2, <2>1
  <2> QED BY <1>1, <2>1, <2>2 DEF ResultsOf
<1>4. ASSUME NEW j \in DOMAIN m, First(m, i, j) PROVE First(n, i, j)
  <2>1. \A k \in (i + 1)..(j - 1) : k \in DOMAIN m  BY <1>1
  <2> QED BY <1>1, <1>2, <1>3, <1>4, <2>1 DEF First
<1> QED BY <1>3, <1>4 DEF n

LEMMA AppendedKeeps ==
  ASSUME NEW m \in Seq(Proper), NEW x \in Proper, x.role # "tool"
  PROVE  /\ NoStray(m) => NoStray(Append(m, x))
         /\ AllAnswered(m) /\ x.calls = {} => AllAnswered(Append(m, x))
<1> DEFINE n == Append(m, x)
<1>1. /\ n \in Seq(Proper) /\ Len(m) \in Nat /\ DOMAIN m = 1..Len(m)
      /\ Len(n) = Len(m) + 1 /\ DOMAIN n = 1..(Len(m) + 1) /\ \A k \in DOMAIN m : n[k] = m[k]
      /\ n[Len(m) + 1] = x
  BY AppendedFields
<1>2. \A i \in DOMAIN m : /\ ResultsOf(m, i) \subseteq ResultsOf(n, i)
                          /\ \A j \in DOMAIN m : First(m, i, j) => First(n, i, j)
  BY AppendedFirst
<1> HIDE DEF n
<1>3. ASSUME NoStray(m), NEW j \in DOMAIN n PROVE ~Stray(n, j)
  <2>1. CASE j \in DOMAIN m /\ IsTool(n, j)
    <3>1. IsTool(m, j)  BY <1>1, <2>1 DEF IsTool
    <3>2. PICK i \in 1..(j - 1) : First(m, i, j)  BY <1>3, <2>1, <3>1, StrayMeans DEF NoStray
    <3>3. i \in DOMAIN m  BY <1>1, <2>1
    <3>4. First(n, i, j)  BY <1>2, <2>1, <3>2, <3>3
    <3> QED BY <3>4, StrayMeans
  <2>2. CASE j = Len(m) + 1  BY <1>1, <2>2 DEF Stray, IsTool
  <2>3. CASE ~IsTool(n, j)  BY <2>3 DEF Stray
  <2> QED BY <1>1, <2>1, <2>2, <2>3
<1>4. ASSUME AllAnswered(m), x.calls = {}, NEW i \in DOMAIN n PROVE n[i].calls \subseteq Answers(n, i)
  <2>1. CASE i \in DOMAIN m
    <3>1. \A j \in ResultsOf(m, i) : j \in ResultsOf(n, i) /\ n[j].id = m[j].id
      BY <1>1, <1>2, <2>1 DEF ResultsOf
    <3>2. Answers(m, i) \subseteq Answers(n, i)  BY <3>1 DEF Answers
    <3> QED BY <1>1, <1>4, <2>1, <3>2 DEF AllAnswered
  <2>2. CASE i = Len(m) + 1  BY <1>1, <1>4, <2>2
  <2> QED BY <1>1, <2>1, <2>2
<1> QED BY <1>3, <1>4 DEF NoStray, AllAnswered, n

\* The calls that are still to be run are those of the last answer, which only
\* results of other calls follow.
OpenAt(m, i, calls) ==
  /\ m[i].role = "assistant"
  /\ \A k \in (i + 1)..Len(m) : m[k].role = "tool" /\ \A a \in DOMAIN calls : m[k].id # calls[a]
  /\ \A a \in DOMAIN calls : calls[a] \in m[i].calls
  /\ \A a, b \in DOMAIN calls : calls[a] = calls[b] => a = b

Open(m, calls) == calls # <<>> => \E i \in DOMAIN m : OpenAt(m, i, calls)

LEMMA OpenFewer ==
  ASSUME NEW m, NEW calls \in Seq(CallIds), NEW some \in Seq(CallIds), NEW n \in Nat,
         n + Len(some) <= Len(calls), \A a \in DOMAIN some : some[a] = calls[n + a], Open(m, calls)
  PROVE  Open(m, some)
<1> SUFFICES ASSUME some # <<>> PROVE \E i \in DOMAIN m : OpenAt(m, i, some)  BY DEF Open
<1>1. /\ DOMAIN some = 1..Len(some) /\ DOMAIN calls = 1..Len(calls)
      /\ Len(some) \in Nat /\ Len(calls) \in Nat /\ Len(some) # 0
  OBVIOUS
<1>2. calls # <<>>  BY <1>1
<1>3. PICK i \in DOMAIN m : OpenAt(m, i, calls)  BY <1>2 DEF Open
<1>4. \A a \in DOMAIN some : n + a \in DOMAIN calls  BY <1>1
<1>5. \A a, b \in DOMAIN some : n + a = n + b => a = b  BY <1>1
<1>6. OpenAt(m, i, some)
  <2>1. \A k \in (i + 1)..Len(m) : m[k].role = "tool" /\ \A a \in DOMAIN some : m[k].id # some[a]
    BY <1>3, <1>4 DEF OpenAt
  <2>2. \A a \in DOMAIN some : some[a] \in m[i].calls  BY <1>3, <1>4 DEF OpenAt
  <2>3. \A a, b \in DOMAIN some : some[a] = some[b] => a = b  BY <1>3, <1>4, <1>5 DEF OpenAt
  <2> QED BY <1>3, <2>1, <2>2, <2>3 DEF OpenAt
<1> QED BY <1>6

\* The result of the first of them is added.
LEMMA OpenResult ==
  ASSUME NEW m \in Seq(Proper), NEW calls \in Seq(CallIds), calls # <<>>, Open(m, calls), NoStray(m)
  PROVE  /\ NoStray(Append(m, Result(Head(calls))))
         /\ Open(Append(m, Result(Head(calls))), Tail(calls))
<1> DEFINE c == Head(calls)
           x == Result(c)
           n == Append(m, x)
           rest == Tail(calls)
<1>1. /\ c \in CallIds /\ c = calls[1] /\ 1 \in DOMAIN calls
      /\ \A a \in DOMAIN rest : rest[a] = calls[a + 1] /\ a + 1 \in DOMAIN calls /\ a + 1 # 1 /\ a \in Nat
  OBVIOUS
<1>2. x \in Proper /\ x.role = "tool" /\ x.id = c  BY <1>1, ProperMessages
<1>3. /\ n \in Seq(Proper) /\ Len(m) \in Nat /\ DOMAIN m = 1..Len(m)
      /\ Len(n) = Len(m) + 1 /\ DOMAIN n = 1..(Len(m) + 1) /\ \A k \in DOMAIN m : n[k] = m[k]
      /\ n[Len(m) + 1] = x
  BY <1>2, AppendedFields
<1>4. \A k \in DOMAIN m : \A j \in DOMAIN m : First(m, k, j) => First(n, k, j)
  BY <1>2, AppendedFirst
<1> HIDE DEF c, x, n, rest
<1>5. PICK i \in DOMAIN m : OpenAt(m, i, calls)  BY DEF Open
<1>6. First(n, i, Len(m) + 1)
  <2>1. i \in 1..((Len(m) + 1) - 1)  BY <1>3
  <2>2. ~IsTool(n, i)  BY <1>3, <1>5 DEF OpenAt, IsTool
  <2>3. \A k \in (i + 1)..(Len(m) + 1) : IsTool(n, k)  BY <1>2, <1>3, <1>5 DEF OpenAt, IsTool
  <2>4. Len(m) + 1 \in ResultsOf(n, i)  BY <1>3, <2>3 DEF ResultsOf
  <2>5. n[Len(m) + 1].id \in n[i].calls  BY <1>1, <1>2, <1>3, <1>5 DEF OpenAt
  <2>6. \A k \in (i + 1)..((Len(m) + 1) - 1) : n[k].id # n[Len(m) + 1].id
    BY <1>1, <1>2, <1>3, <1>5, SMTT(30) DEF OpenAt
  <2> QED BY <2>1, <2>2, <2>4, <2>5, <2>6 DEF First
<1>7. ASSUME NEW j \in DOMAIN n, IsTool(n, j) PROVE \E k \in 1..(j - 1) : First(n, k, j)
  <2>1. CASE j = Len(m) + 1  BY <1>3, <1>6, <2>1
  <2>2. CASE j \in DOMAIN m
    <3>1. IsTool(m, j)  BY <1>3, <1>7, <2>2 DEF IsTool
    <3>2. PICK k \in 1..(j - 1) : First(m, k, j)  BY <2>2, <3>1, StrayMeans DEF NoStray
    <3>3. k \in DOMAIN m  BY <1>3, <2>2
    <3> QED BY <1>4, <2>2, <3>2, <3>3
  <2>3. DOMAIN m = 1..Len(m) /\ Len(m) \in Nat /\ DOMAIN n = 1..(Len(m) + 1)  BY <1>3
  <2>4. j = Len(m) + 1 \/ j \in DOMAIN m  BY <2>3
  <2> QED BY <2>1, <2>2, <2>4
<1>8. NoStray(n)  BY <1>7, StrayMeans DEF NoStray
<1>9. OpenAt(n, i, rest)
  <2>1. n[i] = m[i] /\ n[i].role = "assistant"  BY <1>3, <1>5 DEF OpenAt
  <2>2. ASSUME NEW k \in (i + 1)..Len(n)
        PROVE  n[k].role = "tool" /\ \A a \in DOMAIN rest : n[k].id # rest[a]
    <3>1. CASE k = Len(m) + 1
      BY <1>1, <1>2, <1>3, <1>5, <3>1 DEF OpenAt
    <3>2. CASE k \in (i + 1)..Len(m)
      BY <1>1, <1>3, <1>5, <3>2 DEF OpenAt
    <3> QED BY <1>3, <3>1, <3>2
  <2>3. \A a \in DOMAIN rest : rest[a] \in n[i].calls  BY <1>1, <1>5, <2>1 DEF OpenAt
  <2>4. \A a, b \in DOMAIN rest : rest[a] = rest[b] => a = b
    <3>1. \A a, b \in DOMAIN rest : a + 1 = b + 1 => a = b  BY <1>1
    <3> QED BY <1>1, <1>5, <3>1 DEF OpenAt
  <2> QED BY <2>1, <2>2, <2>3, <2>4 DEF OpenAt
<1>10. Open(n, rest)  BY <1>3, <1>5, <1>9 DEF Open
<1> QED BY <1>8, <1>10 DEF n, x, c, rest

-----------------------------------------------------------------------------
(* compactMessages.                                                         *)

LEMMA HeadIsFirst ==
  ASSUME NEW m \in Seq(Proper), NEW i \in HeadIndexes(m), NEW k \in Talk(m), k < i
  PROVE  k \in HeadIndexes(m)
<1> DEFINE before(j) == {l \in Talk(m) : l < j}
<1>1. DOMAIN m = 1..Len(m) /\ Len(m) \in Nat  OBVIOUS
<1>2. Talk(m) \in SUBSET (1..Len(m)) /\ i \in Talk(m)  BY <1>1 DEF Talk, HeadIndexes
<1>3. IsFiniteSet(1..Len(m))  BY <1>1, FS_Interval
<1>4. before(i) \in SUBSET (1..Len(m)) /\ before(k) \in SUBSET before(i)
  BY <1>1, <1>2
<1>5. IsFiniteSet(before(i))  BY <1>3, <1>4, FS_Subset
<1>6. Cardinality(before(k)) <= Cardinality(before(i)) /\ IsFiniteSet(before(k))
  BY <1>4, <1>5, FS_Subset
<1>7. Cardinality(before(i)) < ProtectFirst  BY DEF HeadIndexes
<1>8. Cardinality(before(i)) \in Nat /\ Cardinality(before(k)) \in Nat  BY <1>5, <1>6, FS_CardinalityType
<1> HIDE DEF before
<1>9. Cardinality(before(k)) < ProtectFirst  BY <1>6, <1>7, <1>8, HistoryAssumption
<1> QED BY <1>9 DEF HeadIndexes, before

\* A tail does not start inside a block.
LEMMA TailStartsWhole ==
  ASSUME NEW m \in Seq(Proper), 1 \in DOMAIN m, NEW start \in TailStarts(m)
  PROVE  start \in DOMAIN m /\ (NoStray(m) => ~IsTool(m, start))
<1> DEFINE heads == {i \in 1..(Least(m) - 1) : Least(m) \in ResultsOf(m, i) /\ m[i].calls # {}}
<1>1. DOMAIN m = 1..Len(m) /\ Len(m) \in Nat /\ Len(m) >= 1  OBVIOUS
<1>2. Least(m) \in DOMAIN m  BY <1>1, HistoryAssumption DEF Least
<1>3. \/ heads = {} /\ start = Least(m)
      \/ start \in heads
      \/ start \in DOMAIN m /\ ~IsTool(m, start)
  BY DEF TailStarts
<1>4. CASE heads = {} /\ start = Least(m)
  <2>1. ASSUME NoStray(m), IsTool(m, start) PROVE FALSE
    <3>1. PICK i \in 1..(start - 1) : First(m, i, start)
      BY <1>2, <1>4, <2>1, StrayMeans DEF NoStray
    <3>2. i \in heads  BY <1>4, <3>1 DEF First
    <3> QED BY <1>4, <3>2
  <2> QED BY <1>2, <1>4, <2>1
<1>5. CASE start \in heads
  <2>1. start \in DOMAIN m /\ m[start].calls # {}  BY <1>1, <1>2, <1>5
  <2>2. m[start] \in Proper  BY <2>1
  <2> QED BY <2>1, <2>2, ProperFields DEF IsTool
<1> QED BY <1>3, <1>4, <1>5

CutTail(m, start) == (start..Len(m)) \ HeadIndexes(m)

CutPlaces(m, start) ==
  {<<0, 0>>} \cup ({1} \X HeadIndexes(m)) \cup {<<2, 0>>} \cup ({3} \X CutTail(m, start))

CutAt(m, start) ==
  [p \in CutPlaces(m, start) |->
     CASE p[1] = 0 -> System [] p[1] = 2 -> Handoff [] OTHER -> m[p[2]]]

LEMMA CompactedIsListed == ASSUME NEW m, NEW start PROVE Compacted(m, start) = Listed(CutAt(m, start))
BY DEF Compacted, CutAt, CutPlaces, CutTail

LEMMA CutShape ==
  ASSUME NEW m \in Seq(Proper), NEW start \in DOMAIN m
  PROVE  /\ Places(CutPlaces(m, start)) /\ DOMAIN CutAt(m, start) = CutPlaces(m, start)
         /\ HeadIndexes(m) \subseteq DOMAIN m /\ CutTail(m, start) \subseteq DOMAIN m
         /\ <<0, 0>> \in CutPlaces(m, start) /\ CutAt(m, start)[<<0, 0>>] = System
         /\ \A i \in HeadIndexes(m) :
              <<1, i>> \in CutPlaces(m, start) /\ CutAt(m, start)[<<1, i>>] = m[i]
         /\ \A i \in CutTail(m, start) :
              <<3, i>> \in CutPlaces(m, start) /\ CutAt(m, start)[<<3, i>>] = m[i]
         /\ \A p \in CutPlaces(m, start) :
              \/ p = <<0, 0>> /\ CutAt(m, start)[p] = System
              \/ p = <<2, 0>> /\ CutAt(m, start)[p] = Handoff
              \/ p = <<1, p[2]>> /\ p[2] \in HeadIndexes(m)
              \/ p = <<3, p[2]>> /\ p[2] \in CutTail(m, start)
<1> DEFINE P == CutPlaces(m, start)
           f == CutAt(m, start)
           H == HeadIndexes(m)
           T == CutTail(m, start)
<1>1. DOMAIN m = 1..Len(m) /\ Len(m) \in Nat  OBVIOUS
<1>2. H \subseteq DOMAIN m /\ T \subseteq DOMAIN m  BY <1>1 DEF HeadIndexes, Talk, CutTail
<1> HIDE DEF H, T
<1>3. ASSUME NEW p \in P
      PROVE  \/ p = <<0, 0>> \/ p = <<2, 0>>
             \/ p = <<1, p[2]>> /\ p[2] \in H
             \/ p = <<3, p[2]>> /\ p[2] \in T
  <2>1. CASE p \in {1} \X H  BY <2>1
  <2>2. CASE p \in {3} \X T  BY <2>2
  <2>3. CASE p \in {<<0, 0>>, <<2, 0>>}  BY <2>3
  <2> QED BY <2>1, <2>2, <2>3 DEF CutPlaces, H, T
<1>4. <<0, 0>> \in P /\ <<2, 0>> \in P  BY DEF CutPlaces
<1>5. f[<<0, 0>>] = System  BY <1>4 DEF CutAt
<1>6. f[<<2, 0>>] = Handoff  BY <1>4 DEF CutAt
<1>7. \A i \in H : <<1, i>> \in P /\ f[<<1, i>>] = m[i]  BY DEF CutAt, CutPlaces, H
<1>8. \A i \in T : <<3, i>> \in P /\ f[<<3, i>>] = m[i]  BY DEF CutAt, CutPlaces, T
<1>9. DOMAIN f = P  BY DEF CutAt
<1>10. Places(P)
  <2> DEFINE box == (0..3) \X (0..Len(m))
  <2>1. 0 \in Int /\ 3 \in Int /\ Len(m) \in Int  BY <1>1
  <2>2. IsFiniteSet(box)
    <3>1. IsFiniteSet(0..3)  BY <2>1, FS_Interval
    <3>2. IsFiniteSet(0..Len(m))  BY <2>1, FS_Interval
    <3> QED BY <3>1, <3>2, FS_Product
  <2>3. ASSUME NEW p \in P PROVE p \in box /\ p \in Nat \X Nat
    <3>1. \A i \in DOMAIN m : i \in 0..Len(m) /\ i \in Nat  BY <1>1
    <3> QED BY <1>1, <1>2, <1>3, <3>1
  <2>4. P \in SUBSET box  BY <2>3
  <2> HIDE DEF box
  <2>5. IsFiniteSet(P)  BY <2>2, <2>4, FS_Subset
  <2> QED BY <2>3, <2>5 DEF Places
<1> HIDE DEF P, f
<1>11. \A p \in P : \/ p = <<0, 0>> /\ f[p] = System
                    \/ p = <<2, 0>> /\ f[p] = Handoff
                    \/ p = <<1, p[2]>> /\ p[2] \in H
                    \/ p = <<3, p[2]>> /\ p[2] \in T
  BY <1>3, <1>5, <1>6
<1> QED BY <1>2, <1>4, <1>5, <1>7, <1>8, <1>9, <1>10, <1>11 DEF P, f, H, T

LEMMA CompactedProper ==
  ASSUME NEW m \in Seq(Proper), NEW start \in DOMAIN m
  PROVE  /\ Compacted(m, start) \in Seq(Proper)
         /\ 1 \in DOMAIN Compacted(m, start) /\ Compacted(m, start)[1] = System
<1> DEFINE P == CutPlaces(m, start)
           f == CutAt(m, start)
<1>1. Places(P) /\ DOMAIN f = P /\ <<0, 0>> \in P /\ f[<<0, 0>>] = System  BY CutShape
<1>2. \A i \in DOMAIN m : m[i] \in Proper /\ i \in Nat  OBVIOUS
<1>3. ASSUME NEW p \in P PROVE f[p] \in Proper
  <2>1. CASE p = <<1, p[2]>> /\ p[2] \in HeadIndexes(m)  BY <1>2, <2>1, CutShape
  <2>2. CASE p = <<3, p[2]>> /\ p[2] \in CutTail(m, start)  BY <1>2, <2>2, CutShape
  <2> QED BY <2>1, <2>2, CutShape, ProperMessages
<1>4. ASSUME NEW q \in P PROVE ~Before(q, <<0, 0>>)
  <2>1. q \in Nat \X Nat  BY <1>1 DEF Places
  <2>2. q[1] \in Nat /\ q[2] \in Nat  BY <2>1
  <2> QED BY <2>2 DEF Before
<1> HIDE DEF P, f
<1>5. Listed(f) \in Seq(Proper) /\ 1 \in DOMAIN Listed(f) /\ Listed(f)[1] = System
  BY <1>1, <1>3, <1>4, ListedHolds, ListedFirst
<1> QED BY <1>5, CompactedIsListed DEF f

\* A result goes where its call goes, unless the handoff comes between them.
LEMMA CutKeepsCall ==
  ASSUME NEW m \in Seq(Proper), NEW start \in DOMAIN m, ~IsTool(m, start), ~Cuts(m, start),
         NEW i \in DOMAIN m, NEW j \in DOMAIN m, First(m, i, j)
  PROVE  /\ j \in HeadIndexes(m) => \A k \in i..j : k \in HeadIndexes(m)
         /\ j \in CutTail(m, start) => \A k \in i..j : k \in CutTail(m, start)
<1> DEFINE H == HeadIndexes(m)
<1>1. DOMAIN m = 1..Len(m) /\ Len(m) \in Nat /\ m[i] \in Proper  OBVIOUS
<1>2. i < j /\ \A k \in (i + 1)..j : IsTool(m, k)  BY <1>1 DEF First, ResultsOf
<1>3. m[i].role = "assistant"  BY <1>1, ProperFields DEF First
<1>4. \A k \in i..j : k \in Talk(m) /\ k \in DOMAIN m
  <2> TAKE k \in i..j
  <2>1. CASE k = i  BY <1>3, <2>1 DEF Talk
  <2>2. CASE k \in (i + 1)..j  BY <1>2, <2>2 DEF Talk, IsTool
  <2> QED BY <1>1, <2>1, <2>2
<1>5. ASSUME j \in H, NEW k \in i..j PROVE k \in H
  <2>1. k = j \/ k < j  BY <1>1
  <2> QED BY <1>4, <1>5, <2>1, HeadIsFirst
<1>6. ASSUME j \in CutTail(m, start) PROVE i >= start /\ i \notin H
  <2>1. start <= j /\ j \notin H  BY <1>1, <1>6 DEF CutTail
  <2>2. i >= start
    <3>1. start \notin (i + 1)..j  BY <1>2
    <3> QED BY <1>1, <2>1, <3>1
  <2>3. ASSUME i \in H PROVE FALSE
    <3>1. H \in SUBSET (1..Len(m))  BY <1>1 DEF HeadIndexes, Talk
    <3>2. IsFiniteSet(1..Len(m))  BY <1>1, FS_Interval
    <3>3. IsFiniteSet(H)  BY <3>1, <3>2, FS_Subset
    <3>4. H \subseteq Nat /\ H # {}  BY <1>1, <2>3, <3>1
    <3> HIDE DEF H
    <3>5. PICK h \in H : \A l \in H : l <= h  BY <3>3, <3>4, Extremes
    <3>6. h \in Nat /\ i <= h  BY <2>3, <3>4, <3>5
    <3>7. j \in Talk(m)  BY <1>1, <1>2, <1>4
    <3>8. ~(j < h)  BY <2>1, <3>5, <3>7, HeadIsFirst DEF H
    <3>9. h < j  BY <1>1, <2>1, <3>5, <3>6, <3>8
    <3>10. h + 1 \in (i + 1)..j  BY <1>1, <3>6, <3>9
    <3>11. IsTool(m, h + 1) /\ start <= h + 1  BY <1>1, <1>2, <2>2, <3>6, <3>10
    <3>12. Cuts(m, start)  BY <3>5, <3>11 DEF Cuts, H
    <3> QED BY <3>12
  <2> QED BY <2>2, <2>3
<1>7. ASSUME j \in CutTail(m, start), NEW k \in i..j PROVE k \in CutTail(m, start)
  <2>1. i >= start /\ i \notin H  BY <1>6, <1>7
  <2>2. k \notin H
    <3>1. i \in Talk(m) /\ (i = k \/ i < k)  BY <1>1, <1>2, <1>4
    <3> QED BY <2>1, <3>1, HeadIsFirst
  <2>3. k \in start..Len(m)  BY <1>1, <1>4, <2>1
  <2> QED BY <2>2, <2>3 DEF CutTail
<1> QED BY <1>5, <1>7

\* A compaction parts no result from its call, wherever in a list its head ends and
\* its tail starts: if the tail does not start at a result (TailStartsWhole) and the
\* handoff is not put inside a block (Cuts).
THEOREM CompactedNoStray ==
  ASSUME NEW m \in Seq(Proper), NoStray(m), NEW start \in DOMAIN m, ~IsTool(m, start), ~Cuts(m, start)
  PROVE  NoStray(Compacted(m, start))
<1> DEFINE P == CutPlaces(m, start)
           f == CutAt(m, start)
<1>1. Places(P) /\ DOMAIN f = P  BY CutShape
<1>2. DOMAIN m = 1..Len(m) /\ Len(m) \in Nat  OBVIOUS
\* Section by section, what lies between two places lies between two messages.
<1>3. ASSUME NEW s \in {1, 3}, NEW i \in DOMAIN m, NEW j \in DOMAIN m, First(m, i, j),
             \A k \in i..j : <<s, k>> \in P /\ f[<<s, k>>] = m[k]
      PROVE  FirstAt(f, <<s, i>>, <<s, j>>)
  <2>1. i < j /\ \A k \in (i + 1)..j : IsTool(m, k)  BY <1>2, <1>3 DEF First, ResultsOf
  <2>2. f[<<s, i>>] = m[i] /\ f[<<s, j>>] = m[j]  BY <1>2, <1>3, <2>1
  <2>3. ASSUME NEW r \in P, Before(<<s, i>>, r), ~Before(<<s, j>>, r)
        PROVE  r[2] \in (i + 1)..j /\ f[r] = m[r[2]] /\ r = <<s, r[2]>>
    <3>1. r \in Nat \X Nat  BY <1>1 DEF Places
    <3>2. r[1] \in Nat /\ r[2] \in Nat /\ r = <<r[1], r[2]>>  BY <3>1
    <3>3. r[1] = s /\ i < r[2] /\ ~(j < r[2])  BY <1>2, <2>3, <3>2 DEF Before
    <3>4. r[2] \in (i + 1)..j /\ r[2] \in i..j  BY <1>2, <3>2, <3>3
    <3>5. f[<<s, r[2]>>] = m[r[2]]  BY <1>3, <3>4
    <3>6. r = <<s, r[2]>>  BY <3>2, <3>3
    <3> QED BY <3>4, <3>5, <3>6
  <2>4. Before(<<s, i>>, <<s, j>>)  BY <1>2, <2>1 DEF Before
  <2> HIDE DEF P, f
  <2>5. Follows(f, <<s, i>>, <<s, j>>)  BY <1>1, <2>1, <2>3, <2>4 DEF Follows, IsTool
  <2>6. ASSUME NEW r \in P, Before(<<s, i>>, r), Before(r, <<s, j>>) PROVE f[r].id # f[<<s, j>>].id
    <3>1. r \in Nat \X Nat /\ <<s, j>> \in Nat \X Nat  BY <1>1, <1>2 DEF Places
    <3>2. ~Before(<<s, j>>, r)  BY <2>6, <3>1, BeforeOrders
    <3>3. r[2] \in (i + 1)..j /\ f[r] = m[r[2]] /\ r = <<s, r[2]>>  BY <2>3, <2>6, <3>2
    <3>4. r[2] # j  BY <2>6, <3>1, <3>3, BeforeOrders
    <3>5. r[2] \in (i + 1)..(j - 1)  BY <1>2, <3>3, <3>4
    <3> QED BY <1>3, <2>2, <3>3, <3>5 DEF First
  <2>7. f[<<s, i>>].role # "tool" /\ f[<<s, j>>].id \in f[<<s, i>>].calls
    BY <1>3, <2>2 DEF First, IsTool
  <2> QED BY <1>1, <2>5, <2>6, <2>7 DEF FirstAt
<1>4. ASSUME NEW q \in P, f[q].role = "tool" PROVE \E p \in P : FirstAt(f, p, q)
  <2>1. \/ q = <<1, q[2]>> /\ q[2] \in HeadIndexes(m)
        \/ q = <<3, q[2]>> /\ q[2] \in CutTail(m, start)
    BY <1>4, CutShape, ProperMessages
  <2> DEFINE j == q[2]
  <2>2. j \in DOMAIN m /\ f[q] = m[j]  BY <2>1, CutShape
  <2>3. PICK i \in 1..(j - 1) : First(m, i, j)
    BY <1>4, <2>2, StrayMeans DEF NoStray, IsTool
  <2>4. i \in DOMAIN m /\ i \in i..j  BY <1>2, <2>2
  <2>5. CASE q = <<1, j>> /\ j \in HeadIndexes(m)
    <3>1. \A k \in i..j : k \in HeadIndexes(m)  BY <2>2, <2>3, <2>4, <2>5, CutKeepsCall
    <3>2. \A k \in i..j : <<1, k>> \in P /\ f[<<1, k>>] = m[k]  BY <3>1, CutShape
    <3> HIDE DEF P, f
    <3>3. FirstAt(f, <<1, i>>, <<1, j>>)  BY <1>3, <2>2, <2>3, <2>4, <3>2
    <3> QED BY <2>4, <2>5, <3>2, <3>3
  <2>6. CASE q = <<3, j>> /\ j \in CutTail(m, start)
    <3>1. \A k \in i..j : k \in CutTail(m, start)  BY <2>2, <2>3, <2>4, <2>6, CutKeepsCall
    <3>2. \A k \in i..j : <<3, k>> \in P /\ f[<<3, k>>] = m[k]  BY <3>1, CutShape
    <3> HIDE DEF P, f
    <3>3. FirstAt(f, <<3, i>>, <<3, j>>)  BY <1>3, <2>2, <2>3, <2>4, <3>2
    <3> QED BY <2>4, <2>6, <3>2, <3>3
  <2> QED BY <2>1, <2>5, <2>6
<1> HIDE DEF P, f
<1>5. NoStray(Listed(f))  BY <1>1, <1>4, ListedNoStray
<1> QED BY <1>5, CompactedIsListed DEF f

-----------------------------------------------------------------------------
(* The invariant: the model is asked only when every call has its result,   *)
(* and as long as nothing was put between a call and its result, every      *)
(* result has its call and those that are missing will be appended in place.*)

HistInv ==
  /\ HistTypes
  /\ step = "asked" => AllAnswered(messages)
  /\ ~split => NoStray(messages)
  /\ ~split /\ step = "tools" => Open(messages, toRun)

LEMMA HistStart == ASSUME HistInit PROVE HistInv
<1>1. <<0, 1>> \in CallIds  BY HistoryAssumption DEF CallIds
<1>2. Asks({<<0, 1>>}) \in Proper /\ Result(<<0, 1>>) \in Proper  BY <1>1, ProperMessages
<1>5. /\ toRun \in Seq(CallIds) /\ Len(toRun) = 0 /\ step = "plan" /\ turn \in 0..MaxTurns
      /\ retried = FALSE /\ split = FALSE
  BY HistoryAssumption DEF HistInit
<1>6. ASSUME messages \in Seq(Proper), 1 \in DOMAIN messages, messages[1] = System, NoStray(messages)
      PROVE  HistInv
  <2>1. Len(toRun) <= MaxTurnCalls  BY <1>5, HistoryAssumption
  <2>2. HistTypes  BY <1>5, <1>6, <2>1 DEF HistTypes
  <2> QED BY <1>5, <1>6, <2>2 DEF HistInv
<1>3. CASE messages = <<System, User>>
  <2>1. messages \in Seq(Proper) /\ DOMAIN messages = 1..2 /\ messages[1] = System /\ messages[2] = User
    BY <1>3, ProperMessages
  <2>2. \A j \in DOMAIN messages : ~IsTool(messages, j)  BY <2>1, ProperMessages DEF IsTool
  <2>3. NoStray(messages)  BY <2>2 DEF NoStray, Stray
  <2> QED BY <1>6, <2>1, <2>3
<1>4. CASE messages = Earlier
  <2>1. messages \in Seq(Proper) /\ Len(messages) = 6 /\ DOMAIN messages = 1..6
    BY <1>2, <1>4, ProperMessages DEF Earlier
  <2>2. /\ messages[1] = System /\ messages[2] = User /\ messages[3] = Asks({<<0, 1>>})
        /\ messages[4] = Result(<<0, 1>>) /\ messages[5] = Text /\ messages[6] = User
    BY <1>4 DEF Earlier
  <2>3. \A j \in DOMAIN messages : IsTool(messages, j) <=> j = 4
    <3>1. \A j \in DOMAIN messages : j = 1 \/ j = 2 \/ j = 3 \/ j = 4 \/ j = 5 \/ j = 6  BY <2>1
    <3>2. /\ messages[1].role # "tool" /\ messages[2].role # "tool" /\ messages[3].role # "tool"
          /\ messages[4].role = "tool" /\ messages[5].role # "tool" /\ messages[6].role # "tool"
      BY <2>2, ProperMessages
    <3> QED BY <2>1, <3>1, <3>2 DEF IsTool
  <2>4. 4 \in ResultsOf(messages, 3)
    <3>1. \A k \in (3 + 1)..4 : k = 4  OBVIOUS
    <3> QED BY <2>1, <2>3, <3>1 DEF ResultsOf
  <2>5. First(messages, 3, 4)
    <3>1. \A k \in (3 + 1)..(4 - 1) : FALSE  OBVIOUS
    <3> QED BY <2>1, <2>2, <2>3, <2>4, <3>1, ProperMessages DEF First
  <2>6. \A j \in DOMAIN messages : ~Stray(messages, j)
    <3>1. 3 \in 1..(4 - 1)  OBVIOUS
    <3>2. ~Stray(messages, 4)  BY <2>1, <2>3, <2>5, <3>1, StrayMeans
    <3> QED BY <2>3, <3>2 DEF Stray
  <2>7. NoStray(messages)  BY <2>6 DEF NoStray
  <2> QED BY <1>6, <2>1, <2>2, <2>7
<1> QED BY <1>3, <1>4 DEF HistInit

LEMMA PrepareStep == ASSUME HistInv, Prepare PROVE HistInv'
<1>1. /\ messages' \in Seq(Proper) /\ 1 \in DOMAIN messages' /\ messages'[1] = System
      /\ AllAnswered(messages') /\ (NoStray(messages) => NoStray(messages'))
  BY SanitizedProper, SanitizedAnswered, SanitizedNoStray DEF HistInv, HistTypes, Prepare
<1>2. turn' \in 0..MaxTurns  BY HistoryAssumption DEF HistInv, HistTypes, Prepare
<1>3. HistTypes'  BY <1>1, <1>2 DEF HistInv, HistTypes, Prepare
<1> QED BY <1>1, <1>3 DEF HistInv, Prepare

LEMMA RetryStep == ASSUME HistInv, Retry PROVE HistInv'
<1>1. messages \in Seq(Proper) /\ 1 \in DOMAIN messages /\ messages[1] = System  BY DEF HistInv, HistTypes
<1>2. /\ messages' \in Seq(Proper) /\ 1 \in DOMAIN messages' /\ messages'[1] = System
      /\ (AllAnswered(messages) => AllAnswered(messages')) /\ (NoStray(messages) => NoStray(messages'))
  <2>1. CASE Droppable(messages) # {} /\ messages' = Dropped(messages)  BY <1>1, <2>1, DroppedKeeps
  <2>2. CASE messages' = Append(messages, System)
    <3>1. System \in Proper /\ System.role # "tool" /\ System.calls = {}  BY ProperMessages
    <3> QED BY <1>1, <2>2, <3>1, AppendedFields, AppendedKeeps
  <2> QED BY <2>1, <2>2 DEF Retry
<1>3. HistTypes'  BY <1>2 DEF HistInv, HistTypes, Retry
<1> QED BY <1>2, <1>3 DEF HistInv, Retry

\* A message that is neither a call nor a result.
LEMMA AppendedPlain ==
  ASSUME NEW m \in Seq(Proper), 1 \in DOMAIN m, m[1] = System, NEW x \in Proper, x.role # "tool"
  PROVE  /\ Append(m, x) \in Seq(Proper) /\ 1 \in DOMAIN Append(m, x) /\ Append(m, x)[1] = System
         /\ NoStray(m) => NoStray(Append(m, x))
BY AppendedFields, AppendedKeeps

LEMMA AnswerTextStep == ASSUME HistInv, AnswerText PROVE HistInv'
<1>1. messages \in Seq(Proper) /\ 1 \in DOMAIN messages /\ messages[1] = System  BY DEF HistInv, HistTypes
<1> DEFINE m == Append(messages, Text)
<1>2. m \in Seq(Proper) /\ 1 \in DOMAIN m /\ m[1] = System /\ (NoStray(messages) => NoStray(m))
  <2>1. Text \in Proper /\ Text.role # "tool"  BY ProperMessages
  <2> QED BY <1>1, <2>1, AppendedPlain
<1>3. messages' \in {m, Append(m, System)}
  <2>1. Text \in Proper /\ System \in Proper  BY ProperMessages
  <2>2. (messages \o <<Text>>) \o <<>> = m  BY <1>1, <2>1
  <2>3. (messages \o <<Text>>) \o <<System>> = Append(m, System)  BY <1>1, <2>1
  <2> QED BY <2>2, <2>3 DEF AnswerText
<1> HIDE DEF m
<1>4. /\ messages' \in Seq(Proper) /\ 1 \in DOMAIN messages' /\ messages'[1] = System
      /\ (NoStray(messages) => NoStray(messages'))
  <2>1. System \in Proper /\ System.role # "tool"  BY ProperMessages
  <2> QED BY <1>2, <1>3, <2>1, AppendedPlain
<1>5. HistTypes'  BY <1>4 DEF HistInv, HistTypes, AnswerText
<1> QED BY <1>4, <1>5 DEF HistInv, AnswerText

LEMMA AnswerToolsStep == ASSUME HistInv, NEW n \in 1..MaxTurnCalls, AnswerTools(n) PROVE HistInv'
<1> DEFINE C == {<<turn, i>> : i \in 1..n}
           x == Asks(C)
<1>1. messages \in Seq(Proper) /\ 1 \in DOMAIN messages /\ messages[1] = System /\ turn \in Nat
  BY HistoryAssumption DEF HistInv, HistTypes
<1>2. n \in Nat /\ n <= MaxTurnCalls /\ \A i \in 1..n : i \in 1..MaxTurnCalls  BY HistoryAssumption
<1>3. C \in SUBSET CallIds /\ \A c, d \in C : c[2] = d[2] => c = d  BY <1>1, <1>2 DEF CallIds
<1> HIDE DEF C
<1>4. x \in Proper /\ x.role = "assistant" /\ x.calls = C  BY <1>3, ProperMessages
<1>5. messages' = Append(messages, x) /\ toRun' = [i \in 1..n |-> <<turn, i>>]  BY DEF AnswerTools, C
<1> HIDE DEF x
<1>6. /\ messages' \in Seq(Proper) /\ Len(messages) \in Nat /\ DOMAIN messages = 1..Len(messages)
      /\ Len(messages') = Len(messages) + 1 /\ DOMAIN messages' = 1..(Len(messages) + 1)
      /\ (\A i \in DOMAIN messages : messages'[i] = messages[i]) /\ messages'[Len(messages) + 1] = x
      /\ (NoStray(messages) => NoStray(messages'))
  BY <1>1, <1>4, <1>5, AppendedFields, AppendedKeeps
<1>7. toRun' \in Seq(CallIds) /\ Len(toRun') = n /\ DOMAIN toRun' = 1..n
  <2>1. \A i \in 1..n : <<turn, i>> \in CallIds  BY <1>1, <1>2 DEF CallIds
  <2> QED BY <1>2, <1>5, <2>1
<1>8. OpenAt(messages', Len(messages) + 1, toRun')
  <2>1. \A k \in ((Len(messages) + 1) + 1)..Len(messages') : FALSE  BY <1>6
  <2>2. \A a \in DOMAIN toRun' : toRun'[a] \in C  BY <1>5, <1>7 DEF C
  <2>3. \A a, b \in DOMAIN toRun' : toRun'[a] = toRun'[b] => a = b  BY <1>5, <1>7
  <2> QED BY <1>4, <1>6, <2>1, <2>2, <2>3 DEF OpenAt
<1>9. Open(messages', toRun')  BY <1>6, <1>8 DEF Open
<1>10. HistTypes'  BY <1>1, <1>2, <1>6, <1>7 DEF HistInv, HistTypes, AnswerTools
<1> QED BY <1>6, <1>9, <1>10 DEF HistInv, AnswerTools

LEMMA ToolEndsStep == ASSUME HistInv, ToolEnds PROVE HistInv'
<1>1. /\ messages \in Seq(Proper) /\ 1 \in DOMAIN messages /\ messages[1] = System
      /\ toRun \in Seq(CallIds) /\ Len(toRun) <= MaxTurnCalls /\ toRun # <<>>
      /\ messages' = Append(messages, Result(Head(toRun))) /\ toRun' = Tail(toRun)
  BY DEF HistInv, HistTypes, ToolEnds
<1>2. /\ Head(toRun) \in CallIds /\ toRun' \in Seq(CallIds) /\ Len(toRun') <= MaxTurnCalls
  BY <1>1, HistoryAssumption
<1>3. Result(Head(toRun)) \in Proper  BY <1>2, ProperMessages
<1>4. messages' \in Seq(Proper) /\ 1 \in DOMAIN messages' /\ messages'[1] = System
  BY <1>1, <1>3, AppendedFields
<1>5. HistTypes'  BY <1>2, <1>4 DEF HistInv, HistTypes, ToolEnds
<1>6. ASSUME ~split PROVE NoStray(messages') /\ Open(messages', toRun')
  <2>1. NoStray(messages) /\ Open(messages, toRun)  BY <1>6 DEF HistInv, ToolEnds
  <2> QED BY <1>1, <2>1, OpenResult
<1> QED BY <1>5, <1>6 DEF HistInv, ToolEnds

LEMMA ApprovalStep == ASSUME HistInv, NEW j \in Nat, Approval(j) PROVE HistInv'
<1>1. toRun \in Seq(CallIds) /\ Len(toRun) <= MaxTurnCalls /\ j \in 1..Len(toRun) /\ Len(toRun) \in Nat
  BY DEF HistInv, HistTypes, Approval
<1>2. /\ toRun' \in Seq(CallIds) /\ (j - 1) + Len(toRun') <= Len(toRun) /\ Len(toRun') \in Nat
      /\ \A a \in DOMAIN toRun' : toRun'[a] = toRun[(j - 1) + a]
  <2>1. CASE toRun' = SubSeq(toRun, j, Len(toRun))
    <3>1. /\ toRun' \in Seq(CallIds) /\ Len(toRun') = Len(toRun) - j + 1
          /\ \A a \in 1..Len(toRun') : toRun'[a] = toRun[j + a - 1]
      BY <1>1, <2>1
    <3>2. DOMAIN toRun' = 1..Len(toRun') /\ Len(toRun') \in Nat  BY <3>1
    <3>3. \A a \in 1..Len(toRun') : j + a - 1 = (j - 1) + a  BY <1>1, <3>2
    <3>4. (j - 1) + Len(toRun') <= Len(toRun)  BY <1>1, <3>1
    <3>5. \A a \in DOMAIN toRun' : toRun'[a] = toRun[(j - 1) + a]  BY <3>1, <3>2, <3>3
    <3> QED BY <3>1, <3>2, <3>4, <3>5
  <2>2. CASE toRun' = <<toRun[j]>>
    <3>1. toRun' \in Seq(CallIds) /\ Len(toRun') = 1 /\ DOMAIN toRun' = 1..1 /\ toRun'[1] = toRun[j]
      BY <1>1, <2>2
    <3>2. (j - 1) + 1 = j /\ (j - 1) + 1 <= Len(toRun) /\ \A a \in 1..1 : a = 1  BY <1>1
    <3>3. \A a \in DOMAIN toRun' : toRun'[a] = toRun[(j - 1) + a]  BY <3>1, <3>2
    <3> QED BY <3>1, <3>2, <3>3
  <2> QED BY <2>1, <2>2 DEF Approval
<1>3. Len(toRun') <= MaxTurnCalls /\ j - 1 \in Nat  BY <1>1, <1>2, HistoryAssumption
<1>4. HistTypes'  BY <1>2, <1>3 DEF HistInv, HistTypes, Approval
<1>5. ASSUME ~split PROVE Open(messages, toRun')
  <2>1. Open(messages, toRun)  BY <1>5 DEF HistInv, Approval
  <2> QED BY <1>1, <1>2, <1>3, <2>1, OpenFewer
<1> QED BY <1>4, <1>5 DEF HistInv, Approval

LEMMA ClarificationStep == ASSUME HistInv, NEW j \in Nat, Clarification(j) PROVE HistInv'
<1>1. /\ messages \in Seq(Proper) /\ 1 \in DOMAIN messages /\ messages[1] = System
      /\ toRun \in Seq(CallIds) /\ Len(toRun) <= MaxTurnCalls /\ j \in 1..Len(toRun) /\ Len(toRun) \in Nat
      /\ messages' = Append(messages, User) /\ toRun' = SubSeq(toRun, j + 1, Len(toRun))
  BY DEF HistInv, HistTypes, Clarification
<1>2. /\ messages' \in Seq(Proper) /\ 1 \in DOMAIN messages' /\ messages'[1] = System
      /\ (NoStray(messages) => NoStray(messages'))
  <2>1. User \in Proper /\ User.role # "tool"  BY ProperMessages
  <2> QED BY <1>1, <2>1, AppendedPlain
<1>3. toRun' \in Seq(CallIds) /\ Len(toRun') = Len(toRun) - j  BY <1>1
<1>4. Len(toRun') <= MaxTurnCalls  BY <1>1, <1>3, HistoryAssumption
<1>5. HistTypes'  BY <1>2, <1>3, <1>4 DEF HistInv, HistTypes, Clarification
<1>6. ASSUME ~split' PROVE NoStray(messages) /\ Open(messages', toRun')
  <2>1. ~split /\ ~(j < Len(toRun))  BY <1>6 DEF Clarification
  <2>2. toRun' = <<>>  BY <1>1, <1>3, <2>1
  <2> QED BY <2>1, <2>2 DEF HistInv, Open
<1> QED BY <1>2, <1>5, <1>6 DEF HistInv, Clarification

LEMMA EndToolTurnStep == ASSUME HistInv, EndToolTurn PROVE HistInv'
<1>1. messages \in Seq(Proper) /\ 1 \in DOMAIN messages /\ messages[1] = System  BY DEF HistInv, HistTypes
<1>2. PICK m \in {messages, Append(messages, System)} :
        \/ messages' = m /\ split' = split
        \/ \E start \in TailStarts(m) :
             messages' = Compacted(m, start) /\ split' = (split \/ Cuts(m, start))
  BY DEF EndToolTurn
<1>3. m \in Seq(Proper) /\ 1 \in DOMAIN m /\ m[1] = System /\ (NoStray(messages) => NoStray(m))
  <2>1. System \in Proper /\ System.role # "tool"  BY ProperMessages
  <2> QED BY <1>1, <2>1, AppendedPlain
<1>4. /\ messages' \in Seq(Proper) /\ 1 \in DOMAIN messages' /\ messages'[1] = System
      /\ split' \in BOOLEAN /\ (~split' => ~split)
      /\ (~split' /\ NoStray(messages) => NoStray(messages'))
  <2>1. CASE messages' = m /\ split' = split  BY <1>3, <2>1 DEF HistInv, HistTypes
  <2>2. CASE \E start \in TailStarts(m) :
               messages' = Compacted(m, start) /\ split' = (split \/ Cuts(m, start))
    <3>1. PICK start \in TailStarts(m) :
            messages' = Compacted(m, start) /\ split' = (split \/ Cuts(m, start))
      BY <2>2
    <3>2. start \in DOMAIN m /\ (NoStray(m) => ~IsTool(m, start))  BY <1>3, TailStartsWhole
    <3>3. messages' \in Seq(Proper) /\ 1 \in DOMAIN messages' /\ messages'[1] = System
      BY <1>3, <3>1, <3>2, CompactedProper
    <3>4. ASSUME ~split', NoStray(messages) PROVE NoStray(messages')
      BY <1>3, <3>1, <3>2, <3>4, CompactedNoStray
    <3>5. split' \in BOOLEAN /\ (~split' => ~split)  BY <3>1
    <3> QED BY <3>3, <3>4, <3>5
  <2> QED BY <1>2, <2>1, <2>2
<1>5. HistTypes'  BY <1>4 DEF HistInv, HistTypes, EndToolTurn
<1> QED BY <1>4, <1>5 DEF HistInv, EndToolTurn

LEMMA HistStep == ASSUME HistInv, [HistNext]_histVars PROVE HistInv'
<1>1. CASE UNCHANGED histVars  BY <1>1 DEF HistInv, HistTypes, histVars
<1>2. ASSUME NEW j \in 1..MaxTurnCalls PROVE j \in Nat  BY HistoryAssumption
<1> QED
  BY <1>1, <1>2, PrepareStep, RetryStep, AnswerTextStep, AnswerToolsStep, ToolEndsStep,
     ApprovalStep, ClarificationStep, EndToolTurnStep
  DEF HistNext

LEMMA HistInvariant == HistSpec => []HistInv
<1>1. HistInit => HistInv  BY HistStart
<1>2. HistInv /\ [HistNext]_histVars => HistInv'  BY HistStep
<1> QED BY <1>1, <1>2, PTL DEF HistSpec

\* The messages are well formed in every run, however many turns the task has and
\* however long its answers are: only an answer asks for calls, which differ in
\* their place, every result names one, and the system prompt stays in front.
THEOREM HistTypeCorrect == HistSpec => [](HistTypeOK /\ HistTypes)
<1>1. HistInv => HistTypeOK /\ HistTypes
  <2> SUFFICES ASSUME HistInv PROVE HistTypeOK  BY DEF HistInv
  <2>1. \A i \in DOMAIN messages : messages[i] \in Proper  BY DEF HistInv, HistTypes
  <2> QED BY <2>1, ProperFields DEF HistInv, HistTypes, HistTypeOK
<1> QED BY <1>1, HistInvariant, PTL

\* sanitizeToolCallPairing and normalizeOpenAiCompatibleMessages together pair
\* calls and results, for any messages that a task can have.
THEOREM RequestsArePaired == HistSpec => []RequestsPaired
<1>1. HistInv => RequestsPaired
  <2> SUFFICES ASSUME HistInv, step = "asked" PROVE RequestsPaired  BY DEF RequestsPaired
  <2> DEFINE sent == Normalised(messages)
  <2>1. sent \in Seq(Proper) /\ NoStray(sent) /\ AllAnswered(sent)
    BY NormalisedPaired DEF HistInv, HistTypes
  <2> HIDE DEF sent
  <2>2. \A i \in DOMAIN sent : sent[i].role = "assistant" => sent[i].calls = Answers(sent, i)
    BY <2>1, PairedCalls DEF IsTool
  <2>3. \A i \in DOMAIN sent : ~Stray(sent, i)  BY <2>1 DEF NoStray
  <2> QED BY <2>2, <2>3 DEF RequestsPaired, sent
<1> QED BY <1>1, HistInvariant, PTL

\* Nothing is repaired, and so no result kept from the model, unless a
\* clarification or a handoff came between a call and its result.
THEOREM ResultsAreSent == HistSpec => []ResultsReachModel
<1>1. HistInv => ResultsReachModel
  BY NormalisedSame DEF HistInv, HistTypes, ResultsReachModel
<1> QED BY <1>1, HistInvariant, PTL
=============================================================================
