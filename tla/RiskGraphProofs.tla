--------------------------- MODULE RiskGraphProofs ---------------------------
(***************************************************************************)
(* Proofs about RiskGraph, for any nodes, edges, organisations and         *)
(* concurrent requests.  The first part is about graphs: what reaches what *)
(* is shown with sets that are closed under the edges of a type, what is   *)
(* near by induction over the levels, and from both, what the questions    *)
(* answer.  The second is about the handlers that store edges, the third   *)
(* puts the questions to the graphs that these handlers leave.             *)
(***************************************************************************)
EXTENDS RiskGraph, Sums, TLAPS

(* A closed set that holds a holds all that a reaches. *)
LEMMA ReachesWithin ==
  ASSUME NEW E, NEW a, NEW b, NEW type, Reaches(E, a, b, type),
         NEW S, a \in S, Closed(E, type, S)
  PROVE  b \in S
<1> DEFINE T == S \cap (Ends(E, type) \cup {a})
<1>1. T \in SUBSET (Ends(E, type) \cup {a}) /\ a \in T
  OBVIOUS
<1>2. Closed(E, type, T)
  BY DEF Closed, Ends
<1>3. QED
  BY <1>1, <1>2 DEF Reaches

(* What does not reach has a closed set to show for it. *)
LEMMA ClosedWitness ==
  ASSUME NEW E, NEW a, NEW b, NEW type, ~ Reaches(E, a, b, type)
  PROVE  \E S : a \in S /\ b \notin S /\ Closed(E, type, S)
  BY DEF Reaches

(* Fewer edges reach less. *)
LEMMA ReachesMonotone ==
  ASSUME NEW E, NEW F, F \subseteq E, NEW a, NEW b, NEW type, ~ Reaches(E, a, b, type)
  PROVE  ~ Reaches(F, a, b, type)
<1>1. PICK S : a \in S /\ b \notin S /\ Closed(E, type, S)
  BY ClosedWitness
<1>2. Closed(F, type, S)
  BY <1>1 DEF Closed
<1>3. QED
  BY <1>1, <1>2, ReachesWithin

LEMMA AcyclicPart ==
  ASSUME NEW E, NEW F, F \subseteq E, Acyclic(E)
  PROVE  Acyclic(F)
  BY ReachesMonotone DEF Acyclic

(***************************************************************************)
(* addEdge's check is enough: an edge from which nothing leads back closes *)
(* no cycle, through whatever other edge.                                  *)
(***************************************************************************)
LEMMA AddKeepsAcyclic ==
  ASSUME NEW E, NEW e, Acyclic(E),
         AcyclicType(e.type) => ~ Reaches(E, e.to, e.from, e.type)
  PROVE  Acyclic(E \cup {e})
<1> SUFFICES ASSUME NEW f \in E \cup {e}, AcyclicType(f.type)
             PROVE  ~ Reaches(E \cup {e}, f.to, f.from, f.type)
  BY DEF Acyclic
<1> DEFINE t == f.type
<1> SUFFICES \E T : f.to \in T /\ f.from \notin T /\ Closed(E \cup {e}, t, T)
  BY ReachesWithin
<1>1. CASE e.type # t
  <2>1. f \in E
    BY <1>1
  <2>2. PICK T : f.to \in T /\ f.from \notin T /\ Closed(E, t, T)
    BY <2>1, ClosedWitness DEF Acyclic
  <2>3. Closed(E \cup {e}, t, T)
    BY <1>1, <2>2 DEF Closed
  <2>4. QED
    BY <2>2, <2>3
<1>2. CASE e.type = t
  <2>1. PICK S : e.to \in S /\ e.from \notin S /\ Closed(E, t, S)
    BY <1>2, ClosedWitness
  <2>2. Closed(E \cup {e}, t, S)
    BY <2>1 DEF Closed
  <2>3. CASE f = e
    BY <2>1, <2>2, <2>3
  <2>4. CASE f \in E
    <3>1. PICK T : f.to \in T /\ f.from \notin T /\ Closed(E, t, T)
      BY <2>4, ClosedWitness DEF Acyclic
    <3>2. CASE f.from \in S
      <4>1. f.to \in S \cap T /\ f.from \notin S \cap T
        BY <2>1, <2>4, <3>1, <3>2 DEF Closed
      <4>2. Closed(E \cup {e}, t, S \cap T)
        BY <2>1, <3>1 DEF Closed
      <4>3. QED
        BY <4>1, <4>2
    <3>3. CASE f.from \notin S
      <4>1. f.to \in S \cup T /\ f.from \notin S \cup T
        BY <3>1, <3>3
      <4>2. Closed(E \cup {e}, t, S \cup T)
        BY <2>1, <3>1 DEF Closed
      <4>3. QED
        BY <4>1, <4>2
    <3>4. QED
      BY <3>2, <3>3
  <2>5. QED
    BY <2>3, <2>4
<1>3. QED
  BY <1>1, <1>2

(***************************************************************************)
(* loadGraph adds the stored edges in any order.  When they are legal and  *)
(* acyclic, no order makes addEdge refuse one: what is loaded is what is   *)
(* stored.                                                                 *)
(***************************************************************************)
LEMMA NothingIsSkipped ==
  ASSUME NEW E, NEW typeOf, Acyclic(E),
         \A e \in E : EdgeAllowed(e.type, typeOf[e.from], typeOf[e.to])
  PROVE  LoadedGraphs(E, typeOf) = {E}
<1> DEFINE legal == {e \in E : EdgeAllowed(e.type, typeOf[e.from], typeOf[e.to])}
           tested == {e \in legal : AcyclicType(e.type)}
           maximal(G) == \A e \in tested \ G : ~ Addable(G, typeOf, e)
           graphs == {H \in SUBSET tested : Acyclic(H) /\ maximal(H)}
<1>1. legal = E /\ tested \subseteq E
  OBVIOUS
<1>2. tested \in graphs
  BY <1>1, AcyclicPart
<1>3. ASSUME NEW H \in graphs PROVE H = tested
  <2> SUFFICES ASSUME NEW e \in tested \ H PROVE FALSE
    OBVIOUS
  <2>1. ~ Reaches(E, e.to, e.from, e.type) /\ H \subseteq E
    BY <1>1 DEF Acyclic
  <2>2. ~ Reaches(H, e.to, e.from, e.type)
    BY <2>1, ReachesMonotone
  <2>3. Addable(H, typeOf, e)
    BY <2>2 DEF Addable
  <2>4. QED
    BY <2>3
<1>4. LoadedGraphs(E, typeOf) = {(legal \ tested) \cup G : G \in graphs}
  BY DEF LoadedGraphs
<1>5. (legal \ tested) \cup tested = E
  BY <1>1
<1> HIDE DEF legal, tested, graphs
<1>6. QED
  BY <1>2, <1>3, <1>4, <1>5

-----------------------------------------------------------------------------
(* What is reached step by step. *)

(* One more step along the edges D.                                        *)
Onward(D, X) == X \cup {e.to : e \in {f \in D : f.from \in X}}

(* g is what Within defines, on the levels of S.                           *)
IsNear(D, start, g, S) == g = [d \in S |-> IF d = 0 THEN start ELSE Onward(D, g[d - 1])]

(* It exists up to any level, two of them agree where both are defined,    *)
(* and so it exists on all levels: Within's CHOOSE finds it.               *)
LEMMA NearUpTo ==
  ASSUME NEW D, NEW start
  PROVE  \A n \in Nat : \E g : IsNear(D, start, g, 0 .. n)
<1> DEFINE N == {n \in Nat : \E g : IsNear(D, start, g, 0 .. n)}
<1>1. 0 \in N
  <2> DEFINE g == [d \in 0 .. 0 |-> start]
  <2>1. g = [d \in 0 .. 0 |-> IF d = 0 THEN start ELSE Onward(D, g[d - 1])]
    OBVIOUS
  <2> HIDE DEF g
  <2>2. IsNear(D, start, g, 0 .. 0)
    BY <2>1 DEF IsNear
  <2> QED  BY <2>2
<1>2. ASSUME NEW n \in Nat, n \in N PROVE n + 1 \in N
  <2>1. PICK g : IsNear(D, start, g, 0 .. n)
    BY <1>2
  <2> DEFINE h == [d \in 0 .. n + 1 |-> IF d = n + 1 THEN Onward(D, g[n]) ELSE g[d]]
  <2>2. \A d \in 0 .. n : g[d] = IF d = 0 THEN start ELSE Onward(D, g[d - 1])
    BY <2>1, Zenon DEF IsNear
  <2>3. \A d \in 0 .. n : h[d] = g[d]
    OBVIOUS
  <2>4. h[n + 1] = Onward(D, h[n])
    OBVIOUS
  <2>5. ASSUME NEW d \in 0 .. n + 1
        PROVE  h[d] = IF d = 0 THEN start ELSE Onward(D, h[d - 1])
    <3>1. CASE d = n + 1
      <4>1. d - 1 = n /\ d # 0
        BY <3>1
      <4> HIDE DEF h
      <4> QED  BY <2>4, <3>1, <4>1
    <3>2. CASE d # n + 1
      <4>1. d \in 0 .. n
        BY <3>2
      <4>2. d # 0 => d - 1 \in 0 .. n
        BY <4>1
      <4> HIDE DEF h
      <4>3. h[d] = g[d]
        BY <2>3, <4>1
      <4>4. d # 0 => h[d - 1] = g[d - 1]
        BY <2>3, <4>2
      <4> QED  BY <2>2, <4>1, <4>3, <4>4
    <3> QED  BY <3>1, <3>2
  <2>6. IsNear(D, start, h, 0 .. n + 1)
    <3>1. h = [d \in 0 .. n + 1 |-> h[d]]
      OBVIOUS
    <3> HIDE DEF h
    <3> QED  BY <2>5, <3>1, Zenon DEF IsNear
  <2> QED  BY <2>6
<1>3. Nat \subseteq N
  <2> HIDE DEF N
  <2> QED  BY <1>1, <1>2, NatsByInduction
<1> QED  BY <1>3

LEMMA NearUnique ==
  ASSUME NEW D, NEW start, NEW n \in Nat, NEW m \in Nat, NEW g, NEW h,
         IsNear(D, start, g, 0 .. n), IsNear(D, start, h, 0 .. m)
  PROVE  \A d \in Nat : d <= n /\ d <= m => g[d] = h[d]
<1> DEFINE N == {d \in Nat : d <= n /\ d <= m => g[d] = h[d]}
<1>1. \A d \in 0 .. n : g[d] = IF d = 0 THEN start ELSE Onward(D, g[d - 1])
  BY Zenon DEF IsNear
<1>2. \A d \in 0 .. m : h[d] = IF d = 0 THEN start ELSE Onward(D, h[d - 1])
  BY Zenon DEF IsNear
<1>3. 0 \in N
  <2>1. 0 \in 0 .. n /\ 0 \in 0 .. m
    OBVIOUS
  <2> QED  BY <1>1, <1>2, <2>1
<1>4. ASSUME NEW d \in Nat, d \in N PROVE d + 1 \in N
  <2> SUFFICES ASSUME d + 1 <= n, d + 1 <= m PROVE g[d + 1] = h[d + 1]
    OBVIOUS
  <2>1. d + 1 \in 0 .. n /\ d + 1 \in 0 .. m /\ (d + 1) - 1 = d /\ d + 1 # 0
    OBVIOUS
  <2>2. g[d] = h[d]
    BY <1>4
  <2>3. g[d + 1] = Onward(D, g[d]) /\ h[d + 1] = Onward(D, h[d])
    BY <1>1, <1>2, <2>1
  <2> QED  BY <2>2, <2>3
<1>5. Nat \subseteq N
  <2> HIDE DEF N
  <2> QED  BY <1>3, <1>4, NatsByInduction
<1> QED  BY <1>5

LEMMA NearExists ==
  ASSUME NEW D, NEW start
  PROVE  \E g : IsNear(D, start, g, Nat)
<1> DEFINE upTo(n) == CHOOSE g : IsNear(D, start, g, 0 .. n)
           g == [d \in Nat |-> upTo(d)[d]]
<1>1. ASSUME NEW n \in Nat PROVE IsNear(D, start, upTo(n), 0 .. n)
  BY NearUpTo
<1>2. ASSUME NEW d \in Nat PROVE g[d] = IF d = 0 THEN start ELSE Onward(D, g[d - 1])
  <2>1. PICK u : u = upTo(d) /\ IsNear(D, start, u, 0 .. d)
    BY <1>1
  <2>2. u[d] = IF d = 0 THEN start ELSE Onward(D, u[d - 1])
    <3>1. d \in 0 .. d
      OBVIOUS
    <3>2. \A i \in 0 .. d : u[i] = IF i = 0 THEN start ELSE Onward(D, u[i - 1])
      BY <2>1, Zenon DEF IsNear
    <3> QED  BY <3>1, <3>2
  <2>3. g[d] = u[d]
    BY <2>1
  <2>4. CASE d = 0
    BY <2>2, <2>3, <2>4
  <2>5. CASE d # 0
    <3>1. PICK c \in Nat : c = d - 1
      BY <2>5
    <3>2. PICK w : w = upTo(c) /\ IsNear(D, start, w, 0 .. c)
      BY <1>1
    <3>3. c <= c /\ c <= d
      BY <3>1
    <3>4. u[c] = w[c]
      BY <2>1, <3>2, <3>3, NearUnique
    <3>5. g[c] = w[c]
      BY <3>2
    <3> HIDE DEF g
    <3> QED  BY <2>2, <2>3, <2>5, <3>1, <3>4, <3>5
  <2> QED  BY <2>4, <2>5
<1>3. IsNear(D, start, g, Nat)
  <2>1. g = [d \in Nat |-> g[d]]
    OBVIOUS
  <2> HIDE DEF g
  <2> QED  BY <1>2, <2>1, Zenon DEF IsNear
<1> QED  BY <1>3

(* Within, level by level.                                                 *)
LEMMA NearIs ==
  ASSUME NEW D, NEW start
  PROVE  /\ Within(D, start)[0] = start
         /\ \A d \in Nat : Within(D, start)[d + 1] = Onward(D, Within(D, start)[d])
<1> DEFINE near == Within(D, start)
<1>1. near = CHOOSE g : IsNear(D, start, g, Nat)
  BY DEF Within, IsNear, Onward
<1>2. IsNear(D, start, near, Nat)
  <2> HIDE DEF near
  <2> QED  BY <1>1, NearExists
<1> HIDE DEF near
<1>3. \A d \in Nat : near[d] = IF d = 0 THEN start ELSE Onward(D, near[d - 1])
  BY <1>2, Zenon DEF IsNear
<1>4. near[0] = start
  BY <1>3
<1>5. ASSUME NEW d \in Nat PROVE near[d + 1] = Onward(D, near[d])
  <2>1. d + 1 \in Nat /\ d + 1 # 0 /\ (d + 1) - 1 = d
    OBVIOUS
  <2> QED  BY <1>3, <2>1
<1> QED  BY <1>4, <1>5 DEF near

(* What is reached is reached within any larger number of steps. *)
LEMMA NearGrows ==
  ASSUME NEW D, NEW start, NEW i \in Nat
  PROVE  \A j \in Nat : i <= j => Within(D, start)[i] \subseteq Within(D, start)[j]
<1> DEFINE near == Within(D, start)
           N == {k \in Nat : near[i] \subseteq near[i + k]}
<1>1. 0 \in N
  OBVIOUS
<1>2. ASSUME NEW k \in Nat, k \in N PROVE k + 1 \in N
  <2>1. i + k \in Nat /\ i + (k + 1) = (i + k) + 1
    OBVIOUS
  <2>2. near[(i + k) + 1] = Onward(D, near[i + k])
    BY <2>1, NearIs
  <2> HIDE DEF near
  <2>3. near[i] \subseteq near[i + k]
    BY <1>2
  <2>4. near[i] \subseteq near[i + (k + 1)]
    BY <2>1, <2>2, <2>3 DEF Onward
  <2> QED  BY <2>4
<1>3. Nat \subseteq N
  <2> HIDE DEF N
  <2> QED  BY <1>1, <1>2, NatsByInduction
<1>4. ASSUME NEW j \in Nat, i <= j PROVE near[i] \subseteq near[j]
  <2>1. PICK k \in Nat : j = i + k
    <3>1. j - i \in Nat /\ j = i + (j - i)
      BY <1>4
    <3> QED  BY <3>1
  <2>2. near[i] \subseteq near[i + k]
    BY <1>3
  <2> QED  BY <2>1, <2>2
<1> QED  BY <1>4

(* Steps add up. *)
LEMMA NearAdds ==
  ASSUME NEW D, NEW start, NEW i \in Nat
  PROVE  \A j \in Nat : Within(D, Within(D, start)[i])[j] = Within(D, start)[i + j]
<1> DEFINE near == Within(D, start)
           next == Within(D, near[i])
           N == {j \in Nat : next[j] = near[i + j]}
<1>1. 0 \in N
  <2>1. next[0] = near[i]
    BY NearIs
  <2>2. i + 0 = i
    OBVIOUS
  <2> HIDE DEF next, near
  <2> QED  BY <2>1, <2>2
<1>2. ASSUME NEW j \in Nat, j \in N PROVE j + 1 \in N
  <2>1. i + j \in Nat /\ i + (j + 1) = (i + j) + 1
    OBVIOUS
  <2>2. near[(i + j) + 1] = Onward(D, near[i + j])
    BY <2>1, NearIs
  <2>3. next[j + 1] = Onward(D, next[j])
    BY NearIs
  <2> HIDE DEF next, near
  <2>4. next[j] = near[i + j]
    BY <1>2
  <2>5. next[j + 1] = near[i + (j + 1)]
    BY <2>1, <2>2, <2>3, <2>4
  <2> QED  BY <2>5
<1>3. Nat \subseteq N
  <2> HIDE DEF N
  <2> QED  BY <1>1, <1>2, NatsByInduction
<1> QED  BY <1>3

(* Whatever is reached is reached from one of the nodes of the start. *)
LEMMA NearOfUnion ==
  ASSUME NEW D, NEW start, NEW d \in Nat
  PROVE  \A n : n \in Within(D, start)[d] <=> \E s \in start : n \in Within(D, {s})[d]
<1> DEFINE Law(k) == \A n : n \in Within(D, start)[k] <=> \E s \in start : n \in Within(D, {s})[k]
           N == {k \in Nat : Law(k)}
<1>1. Law(0)
  <2>1. Within(D, start)[0] = start
    BY NearIs
  <2>2. \A s \in start : Within(D, {s})[0] = {s}
    BY NearIs
  <2> QED  BY <2>1, <2>2
<1>2. ASSUME NEW k \in Nat, Law(k) PROVE Law(k + 1)
  <2> SUFFICES ASSUME NEW n
               PROVE  n \in Within(D, start)[k + 1]
                        <=> \E s \in start : n \in Within(D, {s})[k + 1]
    OBVIOUS
  <2>1. Within(D, start)[k + 1] = Onward(D, Within(D, start)[k])
    BY NearIs
  <2>2. \A s \in start : Within(D, {s})[k + 1] = Onward(D, Within(D, {s})[k])
    BY NearIs
  <2>3. n \in Within(D, start)[k + 1]
          <=> \/ n \in Within(D, start)[k]
              \/ \E e \in D : e.from \in Within(D, start)[k] /\ n = e.to
    BY <2>1 DEF Onward
  <2>4. \A s \in start :
          n \in Within(D, {s})[k + 1]
            <=> \/ n \in Within(D, {s})[k]
                \/ \E e \in D : e.from \in Within(D, {s})[k] /\ n = e.to
    BY <2>2 DEF Onward
  <2>5. n \in Within(D, start)[k] <=> \E s \in start : n \in Within(D, {s})[k]
    BY <1>2
  <2>6. \A e \in D : e.from \in Within(D, start)[k]
                       <=> \E s \in start : e.from \in Within(D, {s})[k]
    BY <1>2
  <2> QED  BY <2>3, <2>4, <2>5, <2>6
<1>3. Nat \subseteq N
  <2> HIDE DEF Law
  <2>1. 0 \in N
    BY <1>1
  <2>2. \A k \in Nat : k \in N => k + 1 \in N
    BY <1>2
  <2> HIDE DEF N
  <2> QED  BY <2>1, <2>2, NatsByInduction
<1>4. Law(d)
  BY <1>3
<1> QED  BY <1>4

(* The first step and then the others: what is reached from a is reached   *)
(* from a or from one of its successors with a step less.                  *)
LEMMA NearFirst ==
  ASSUME NEW D, NEW a, NEW b, NEW d \in Nat
  PROVE  b \in Within(D, {a})[d + 1]
           <=> \/ b \in Within(D, {a})[d]
               \/ \E e \in D : e.from = a /\ b \in Within(D, {e.to})[d]
<1>1. PICK S : S = Onward(D, {a})
  OBVIOUS
<1>2. Within(D, {a})[1] = S
  <2>1. Within(D, {a})[0] = {a} /\ Within(D, {a})[0 + 1] = Onward(D, Within(D, {a})[0])
    BY NearIs
  <2>2. 0 + 1 = 1
    OBVIOUS
  <2> QED  BY <1>1, <2>1, <2>2
<1>3. Within(D, S)[d] = Within(D, {a})[d + 1]
  <2>1. 1 \in Nat /\ 1 + d = d + 1
    OBVIOUS
  <2>2. Within(D, Within(D, {a})[1])[d] = Within(D, {a})[1 + d]
    BY <2>1, NearAdds
  <2> QED  BY <1>2, <2>1, <2>2
<1>4. b \in Within(D, S)[d] <=> \E s \in S : b \in Within(D, {s})[d]
  BY NearOfUnion
<1>5. \A s : s \in S <=> s = a \/ \E e \in D : e.from = a /\ s = e.to
  BY <1>1 DEF Onward
<1> QED  BY <1>3, <1>4, <1>5

(* Turned around, the edges lead back, in as many steps. *)
LEMMA NearIsDual ==
  ASSUME NEW D, NEW T, NEW d \in Nat,
         \A e \in D : \E f \in T : f.from = e.to /\ f.to = e.from,
         \A f \in T : \E e \in D : f.from = e.to /\ f.to = e.from
  PROVE  \A a, b : b \in Within(D, {a})[d] <=> a \in Within(T, {b})[d]
<1> DEFINE Law(k) == \A a, b : b \in Within(D, {a})[k] <=> a \in Within(T, {b})[k]
           N == {k \in Nat : Law(k)}
<1>1. Law(0)
  <2>1. \A a : Within(D, {a})[0] = {a} /\ Within(T, {a})[0] = {a}
    BY NearIs
  <2> QED  BY <2>1
<1>2. ASSUME NEW k \in Nat, Law(k) PROVE Law(k + 1)
  <2> SUFFICES ASSUME NEW a, NEW b
               PROVE  b \in Within(D, {a})[k + 1] <=> a \in Within(T, {b})[k + 1]
    OBVIOUS
  <2>1. b \in Within(D, {a})[k + 1]
          <=> \/ b \in Within(D, {a})[k]
              \/ \E e \in D : e.from = a /\ b \in Within(D, {e.to})[k]
    BY NearFirst
  <2>2. Within(T, {b})[k + 1] = Onward(T, Within(T, {b})[k])
    BY NearIs
  <2>3. a \in Within(T, {b})[k + 1]
          <=> \/ a \in Within(T, {b})[k]
              \/ \E f \in T : f.from \in Within(T, {b})[k] /\ a = f.to
    BY <2>2 DEF Onward
  <2>4. b \in Within(D, {a})[k] <=> a \in Within(T, {b})[k]
    BY <1>2
  <2>5. \A e \in D : b \in Within(D, {e.to})[k] <=> e.to \in Within(T, {b})[k]
    BY <1>2
  <2>6. (\E e \in D : e.from = a /\ b \in Within(D, {e.to})[k])
          => \E f \in T : f.from \in Within(T, {b})[k] /\ a = f.to
    BY <2>5
  <2>7. (\E f \in T : f.from \in Within(T, {b})[k] /\ a = f.to)
          => \E e \in D : e.from = a /\ b \in Within(D, {e.to})[k]
    BY <2>5
  <2> QED  BY <2>1, <2>3, <2>4, <2>6, <2>7
<1>3. Nat \subseteq N
  <2> HIDE DEF Law
  <2>1. 0 \in N
    BY <1>1
  <2>2. ASSUME NEW k \in Nat, k \in N PROVE k + 1 \in N
    <3>1. Law(k)
      BY <2>2
    <3>2. Law(k + 1) /\ k + 1 \in Nat
      BY <1>2, <3>1
    <3> QED  BY <3>2
  <2> HIDE DEF N
  <2> QED  BY <2>1, <2>2, NatsByInduction
<1>4. Law(d)
  BY <1>3
<1> QED  BY <1>4

(* A closed set that holds the start holds all that is reached. *)
LEMMA NearInClosed ==
  ASSUME NEW D, NEW start, NEW S, start \subseteq S, \A e \in D : e.from \in S => e.to \in S
  PROVE  \A d \in Nat : Within(D, start)[d] \subseteq S
<1> DEFINE N == {k \in Nat : Within(D, start)[k] \subseteq S}
<1>1. 0 \in N
  BY NearIs
<1>2. ASSUME NEW k \in Nat, k \in N PROVE k + 1 \in N
  <2>1. Within(D, start)[k + 1] = Onward(D, Within(D, start)[k])
    BY NearIs
  <2>2. Within(D, start)[k] \subseteq S
    BY <1>2
  <2>3. Within(D, start)[k + 1] \subseteq S
    BY <2>1, <2>2 DEF Onward
  <2> QED  BY <2>3
<1>3. Nat \subseteq N
  <2> HIDE DEF N
  <2> QED  BY <1>1, <1>2, NatsByInduction
<1> QED  BY <1>3

(* In as many steps as there are other nodes, all that can be reached is:  *)
(* a step either finds a node or there is none left to find.               *)
LEMMA NearIsComplete ==
  ASSUME NEW D, NEW A, IsFiniteSet(A), NEW a \in A, \A e \in D : e.to \in A,
         NEW k \in Nat, k = Cardinality(A) - 1
  PROVE  \A e \in D : e.from \in Within(D, {a})[k] => e.to \in Within(D, {a})[k]
<1> DEFINE near == Within(D, {a})
           closed(d) == \A e \in D : e.from \in near[d] => e.to \in near[d]
           N == {d \in Nat : closed(d) \/ Cardinality(near[d]) >= d + 1}
<1>1. \A d \in Nat : near[d] \subseteq A
  <2>1. {a} \subseteq A /\ \A e \in D : e.from \in A => e.to \in A
    OBVIOUS
  <2> QED  BY <2>1, NearInClosed
<1>2. \A d \in Nat : /\ IsFiniteSet(near[d]) /\ Cardinality(near[d]) \in Nat
                     /\ Cardinality(near[d]) <= Cardinality(A)
  BY <1>1, FS_Subset, FS_CardinalityType
<1>3. 0 \in N
  <2>1. near[0] = {a}
    BY NearIs
  <2>2. Cardinality(near[0]) = 1
    BY <2>1, FS_Singleton
  <2> QED  BY <2>2
<1>4. ASSUME NEW d \in Nat, d \in N PROVE d + 1 \in N
  <2>1. near[d + 1] = Onward(D, near[d])
    BY NearIs
  <2>2. d + 1 \in Nat
    OBVIOUS
  <2> HIDE DEF near
  <2>3. CASE closed(d)
    <3>1. near[d + 1] = near[d]
      BY <2>1, <2>3 DEF Onward
    <3>2. closed(d + 1)
      BY <2>3, <3>1
    <3> QED  BY <2>2, <3>2
  <2>4. CASE ~ closed(d)
    <3>1. PICK n \in near[d + 1] : n \notin near[d]
      BY <2>1, <2>4 DEF Onward
    <3>2. near[d] \subseteq near[d + 1] /\ near[d] # near[d + 1]
      BY <2>1, <3>1 DEF Onward
    <3>3. Cardinality(near[d]) < Cardinality(near[d + 1])
      BY <1>2, <2>2, <3>2, FS_Subset
    <3>4. Cardinality(near[d]) >= d + 1
      BY <1>4, <2>4
    <3>5. Cardinality(near[d + 1]) >= (d + 1) + 1
      BY <1>2, <2>2, <3>3, <3>4
    <3> QED  BY <2>2, <3>5
  <2> QED  BY <2>3, <2>4
<1>5. Nat \subseteq N
  <2> HIDE DEF N
  <2> QED  BY <1>3, <1>4, NatsByInduction
<1>6. closed(k) \/ Cardinality(near[k]) >= k + 1
  BY <1>5
<1>7. CASE ~ closed(k)
  <2> HIDE DEF near
  <2>1. Cardinality(near[k]) >= Cardinality(A)
    BY <1>6, <1>7, FS_CardinalityType
  <2>2. near[k] = A
    <3>1. near[k] \in SUBSET A /\ Cardinality(near[k]) \in Nat
          /\ Cardinality(near[k]) <= Cardinality(A)
      BY <1>1, <1>2
    <3>2. Cardinality(A) = Cardinality(near[k])
      BY <2>1, <3>1, FS_CardinalityType
    <3> QED  BY <3>1, <3>2, FS_Subset
  <2> QED  BY <1>7, <2>2
<1> QED  BY <1>6, <1>7

-----------------------------------------------------------------------------
(* The questions of queries.ts, on a graph of legal edges between nodes.   *)

(* A graph as it may be stored: finite, between nodes, legal edges only.   *)
Stored(E, N, typeOf) ==
  /\ IsFiniteSet(N)
  /\ E \subseteq [type : EdgeTypes, from : N, to : N, inferred : BOOLEAN]
  /\ \A e \in E : EdgeAllowed(e.type, typeOf[e.from], typeOf[e.to])

(* traverse finds what is near, each node at the first level it is near. *)
Finds(t, near, max) ==
  /\ DOMAIN t = near[max]
  /\ \A n \in DOMAIN t : /\ t[n] \in 0 .. max /\ n \in near[t[n]]
                         /\ \A j \in Nat : j < t[n] => n \notin near[j]

LEMMA TraverseFinds ==
  ASSUME NEW E, NEW start, NEW dir, NEW opt \in Options
  PROVE  Finds(Traverse(E, start, dir, opt), Within(Followed(E, dir, opt), start), opt.maxDepth)
<1> DEFINE t == Traverse(E, start, dir, opt)
           D == Followed(E, dir, opt)
           near == Within(D, start)
           level(n, d) == n \in near[d] /\ (d > 0 => n \notin near[d - 1])
           max == opt.maxDepth
<1>0. max \in Nat
  BY DEF Options
<1>1. t = [n \in near[max] |-> CHOOSE d \in 0 .. max : level(n, d)]
  BY DEF Traverse
<1>2. ASSUME NEW n \in near[max] PROVE \E d \in 0 .. max : level(n, d)
  <2>1. SUFFICES ASSUME \A d \in 0 .. max : ~ level(n, d) PROVE FALSE
    OBVIOUS
  <2> DEFINE Z == {d \in Nat : d <= max => n \notin near[d]}
  <2>2. 0 \in Z
    <3>1. 0 \in 0 .. max /\ ~ level(n, 0)
      BY <1>0, <2>1
    <3> QED  BY <3>1
  <2>3. ASSUME NEW d \in Nat, d \in Z PROVE d + 1 \in Z
    <3>1. SUFFICES ASSUME d + 1 <= max PROVE n \notin near[d + 1]
      OBVIOUS
    <3>2. d + 1 \in 0 .. max /\ d + 1 > 0 /\ (d + 1) - 1 = d /\ d <= max
      BY <1>0, <3>1
    <3>3. n \notin near[d]
      BY <2>3, <3>2
    <3>4. ~ level(n, d + 1)
      BY <2>1, <3>2
    <3> HIDE DEF near
    <3> QED  BY <3>2, <3>3, <3>4
  <2>4. Nat \subseteq Z
    <3> HIDE DEF Z
    <3> QED  BY <2>2, <2>3, NatsByInduction
  <2>5. max \in Z
    BY <1>0, <2>4
  <2> HIDE DEF near
  <2> QED  BY <1>0, <1>2, <2>5
<1>3. ASSUME NEW n \in near[max]
      PROVE  t[n] \in 0 .. max /\ level(n, t[n])
  <2>1. t[n] = CHOOSE d \in 0 .. max : level(n, d)
    BY <1>1
  <2> HIDE DEF level, max, near
  <2> QED  BY <1>2, <2>1
<1>4. ASSUME NEW n \in near[max], NEW j \in Nat, j < t[n] PROVE n \notin near[j]
  <2>1. PICK d \in Nat : d = t[n] /\ d > 0
    BY <1>0, <1>3, <1>4
  <2>2. PICK c \in Nat : c = d - 1 /\ j <= c
    BY <1>4, <2>1
  <2>3. n \notin near[c]
    BY <1>3, <2>1, <2>2
  <2>4. near[j] \subseteq near[c]
    BY <2>2, NearGrows
  <2> QED  BY <2>3, <2>4
<1>5. DOMAIN t = near[max]
  BY <1>1
<1> HIDE DEF t, near, max
<1>6. Finds(t, near, max)
  BY <1>3, <1>4, <1>5 DEF Finds, level
<1> QED  BY <1>6 DEF t, near, max, D

(* The two directions of a traversal. *)
LEMMA FollowedTurned ==
  ASSUME NEW E, NEW N, NEW typeOf, Stored(E, N, typeOf), NEW opt,
         NEW D, D = Followed(E, "OUT", opt), NEW T, T = Followed(E, "IN", opt)
  PROVE  /\ \A e \in D : \E f \in T : f.from = e.to /\ f.to = e.from
         /\ \A f \in T : \E e \in D : f.from = e.to /\ f.to = e.from
         /\ \A e \in D : e \in E /\ e.type = "DEPENDS_ON"
                          /\ e.from \in Assets(N, typeOf) /\ e.to \in Assets(N, typeOf)
<1>1. D \subseteq E /\ \A e \in D : e.type = "DEPENDS_ON"
  BY DEF Followed
<1>2. T = {Turned(e) : e \in D}
  BY DEF Followed
<1>3. \A e \in E : Turned(e).from = e.to /\ Turned(e).to = e.from
  BY DEF Turned, Stored
<1>4. ASSUME NEW e \in D PROVE e.from \in Assets(N, typeOf) /\ e.to \in Assets(N, typeOf)
  <2>1. <<"DEPENDS_ON", typeOf[e.from], typeOf[e.to]>> \in EdgeRules /\ e.from \in N /\ e.to \in N
    BY <1>1 DEF Stored, EdgeAllowed
  <2>2. typeOf[e.from] = "ASSET" /\ typeOf[e.to] = "ASSET"
    BY <2>1 DEF EdgeRules
  <2> QED  BY <2>1, <2>2 DEF Assets
<1> QED  BY <1>1, <1>2, <1>3, <1>4

(* A node is found from another along the edges within some steps if and   *)
(* only if the other is found from it against them.                        *)
LEMMA TraverseIsDual ==
  ASSUME NEW E, NEW N, NEW typeOf, Stored(E, N, typeOf), NEW opt \in Options
  PROVE  \A d \in Nat : \A a, b :
           b \in Within(Followed(E, "OUT", opt), {a})[d]
             <=> a \in Within(Followed(E, "IN", opt), {b})[d]
<1> SUFFICES ASSUME NEW d \in Nat
             PROVE  \A a, b : b \in Within(Followed(E, "OUT", opt), {a})[d]
                                <=> a \in Within(Followed(E, "IN", opt), {b})[d]
  OBVIOUS
<1>1. PICK D : D = Followed(E, "OUT", opt)
  OBVIOUS
<1>2. PICK T : T = Followed(E, "IN", opt)
  OBVIOUS
<1>3. /\ \A e \in D : \E f \in T : f.from = e.to /\ f.to = e.from
      /\ \A f \in T : \E e \in D : f.from = e.to /\ f.to = e.from
  BY <1>1, <1>2, FollowedTurned
<1>4. \A a, b : b \in Within(D, {a})[d] <=> a \in Within(T, {b})[d]
  BY <1>3, NearIsDual
<1> QED  BY <1>1, <1>2, <1>4

(* dependsOn and dependents mirror each other, level by level.             *)
LEMMA DualHolds ==
  ASSUME NEW E, NEW N, NEW typeOf, Stored(E, N, typeOf), NEW A, NEW opt \in Options
  PROVE  Dual(E, A, opt)
<1> SUFFICES ASSUME NEW a \in A, NEW b \in A,
                    NEW out, out = DependenciesOf(E, a, opt), NEW in, in = DependentsOf(E, b, opt)
             PROVE  /\ b \in DOMAIN out <=> a \in DOMAIN in
                    /\ b \in DOMAIN out => out[b] = in[a]
  BY DEF Dual
<1>1. PICK t : t = Traverse(E, {a}, "OUT", opt)
  OBVIOUS
<1>2. PICK u : u = Traverse(E, {b}, "IN", opt)
  OBVIOUS
<1>3. out = [n \in DOMAIN t \ {a} |-> t[n]] /\ in = [n \in DOMAIN u \ {b} |-> u[n]]
  BY <1>1, <1>2 DEF DependenciesOf, DependentsOf, Others
<1>4. PICK D, X : D = Followed(E, "OUT", opt) /\ X = Within(D, {a})
  OBVIOUS
<1>5. PICK T, Y : T = Followed(E, "IN", opt) /\ Y = Within(T, {b})
  OBVIOUS
<1>6. PICK max \in Nat : max = opt.maxDepth
  BY DEF Options
<1>7. \A d \in Nat : b \in X[d] <=> a \in Y[d]
  BY <1>4, <1>5, TraverseIsDual
<1>8. Finds(t, X, max)
  BY <1>1, <1>4, <1>6, TraverseFinds
<1>9. Finds(u, Y, max)
  BY <1>2, <1>5, <1>6, TraverseFinds
<1>10. b \in DOMAIN t <=> a \in DOMAIN u
  BY <1>7, <1>8, <1>9 DEF Finds
<1>11. b \in DOMAIN out <=> a \in DOMAIN in
  BY <1>3, <1>10
<1>12. ASSUME b \in DOMAIN out PROVE out[b] = in[a]
  <2>1. out[b] = t[b] /\ in[a] = u[a] /\ b \in DOMAIN t /\ a \in DOMAIN u
    BY <1>3, <1>11, <1>12
  <2>2. PICK i \in Nat : i = t[b] /\ b \in X[i] /\ \A j \in Nat : j < i => b \notin X[j]
    BY <1>8, <2>1 DEF Finds
  <2>3. PICK k \in Nat : k = u[a] /\ a \in Y[k] /\ \A j \in Nat : j < k => a \notin Y[j]
    BY <1>9, <2>1 DEF Finds
  <2>4. ~ k < i /\ ~ i < k
    BY <1>7, <2>2, <2>3
  <2> QED  BY <2>1, <2>2, <2>3, <2>4
<1> QED  BY <1>11, <1>12

(* What a traversal reaches, it reaches from one of the nodes it starts at. *)
LEMMA TraverseFrom ==
  ASSUME NEW E, NEW start, NEW dir, NEW opt \in Options
  PROVE  \A n : n \in DOMAIN Traverse(E, start, dir, opt)
                  <=> \E s \in start : n \in DOMAIN Traverse(E, {s}, dir, opt)
<1>0. PICK max \in Nat : max = opt.maxDepth
  BY DEF Options
<1>1. PICK D : D = Followed(E, dir, opt)
  OBVIOUS
<1>2. \A S : DOMAIN Traverse(E, S, dir, opt) = Within(D, S)[max]
  BY <1>0, <1>1, TraverseFinds DEF Finds
<1>3. \A n : n \in Within(D, start)[max] <=> \E s \in start : n \in Within(D, {s})[max]
  BY NearOfUnion
<1>4. \A n : n \in DOMAIN Traverse(E, start, dir, opt) <=> n \in Within(D, start)[max]
  BY <1>2
<1>5. \A n, s : n \in DOMAIN Traverse(E, {s}, dir, opt) <=> n \in Within(D, {s})[max]
  BY <1>2
<1> QED  BY <1>3, <1>4, <1>5

(* The same for the two directions of traverse.                            *)
LEMMA TraverseBack ==
  ASSUME NEW E, NEW N, NEW typeOf, Stored(E, N, typeOf), NEW opt \in Options
  PROVE  \A a, b : b \in DOMAIN Traverse(E, {a}, "OUT", opt)
                     <=> a \in DOMAIN Traverse(E, {b}, "IN", opt)
<1>1. PICK max \in Nat : max = opt.maxDepth
  BY DEF Options
<1>2. PICK D, T : D = Followed(E, "OUT", opt) /\ T = Followed(E, "IN", opt)
  OBVIOUS
<1>3. \A a : /\ DOMAIN Traverse(E, {a}, "OUT", opt) = Within(D, {a})[max]
             /\ DOMAIN Traverse(E, {a}, "IN", opt) = Within(T, {a})[max]
  BY <1>1, <1>2, TraverseFinds DEF Finds
<1>4. \A a, b : b \in Within(D, {a})[max] <=> a \in Within(T, {b})[max]
  BY <1>2, TraverseIsDual
<1> QED  BY <1>3, <1>4

(* A traversal among assets stays among assets, and holds where it starts. *)
LEMMA TraverseAssets ==
  ASSUME NEW E, NEW N, NEW typeOf, Stored(E, N, typeOf), NEW opt \in Options,
         NEW dir \in {"OUT", "IN"}, NEW start, start \subseteq Assets(N, typeOf)
  PROVE  /\ DOMAIN Traverse(E, start, dir, opt) \subseteq Assets(N, typeOf)
         /\ start \subseteq DOMAIN Traverse(E, start, dir, opt)
<1>0. PICK max \in Nat : max = opt.maxDepth
  BY DEF Options
<1>1. PICK D : D = Followed(E, dir, opt)
  OBVIOUS
<1>2. PICK A : A = Assets(N, typeOf)
  OBVIOUS
<1>3. \A e \in D : e.from \in A => e.to \in A
  <2>1. CASE dir = "OUT"
    BY <1>1, <1>2, <2>1, FollowedTurned
  <2>2. CASE dir = "IN"
    <3>1. PICK O : O = Followed(E, "OUT", opt)
      OBVIOUS
    <3>2. /\ \A f \in D : \E e \in O : f.from = e.to /\ f.to = e.from
          /\ \A e \in O : e.from \in A /\ e.to \in A
      BY <1>1, <1>2, <2>2, <3>1, FollowedTurned
    <3> QED  BY <3>2
  <2> QED  BY <2>1, <2>2
<1>4. Within(D, start)[max] \subseteq A
  BY <1>2, <1>3, NearInClosed
<1>5. start \subseteq Within(D, start)[max]
  <2>1. Within(D, start)[0] = start /\ 0 \in Nat /\ 0 <= max
    BY NearIs
  <2>2. Within(D, start)[0] \subseteq Within(D, start)[max]
    BY <2>1, NearGrows
  <2> QED  BY <2>1, <2>2
<1>6. DOMAIN Traverse(E, start, dir, opt) = Within(D, start)[max]
  BY <1>0, <1>1, TraverseFinds DEF Finds
<1> QED  BY <1>2, <1>4, <1>5, <1>6

(* The ontology, at the two ends of an edge. *)
LEMMA EndsTyped ==
  ASSUME NEW E, NEW N, NEW typeOf, Stored(E, N, typeOf)
  PROVE  \A n, m :
           /\ m \in From(E, n, "OWNS") <=> n \in To(E, m, "OWNS")
           /\ m \in From(E, n, "EXPOSED_TO") <=> n \in To(E, m, "EXPOSED_TO")
           /\ n \in To(E, m, "OWNS") => n \in Entities(N, typeOf) /\ m \in Assets(N, typeOf)
           /\ n \in To(E, m, "EXPOSED_TO") =>
                n \in Entities(N, typeOf) \cup Assets(N, typeOf) /\ m \in Risks(N, typeOf)
           /\ n \in To(E, m, "COVERS") => typeOf[n] \in {"POLICY", "COVERAGE"}
           /\ n \in To(E, m, "ASSUMES") => typeOf[n] = "SYNDICATE"
           /\ n \in To(E, m, "SUPPORTS") => typeOf[n] = "CAPITAL"
<1> SUFFICES ASSUME NEW n, NEW m
             PROVE
           /\ m \in From(E, n, "OWNS") <=> n \in To(E, m, "OWNS")
           /\ m \in From(E, n, "EXPOSED_TO") <=> n \in To(E, m, "EXPOSED_TO")
           /\ n \in To(E, m, "OWNS") => n \in Entities(N, typeOf) /\ m \in Assets(N, typeOf)
           /\ n \in To(E, m, "EXPOSED_TO") =>
                n \in Entities(N, typeOf) \cup Assets(N, typeOf) /\ m \in Risks(N, typeOf)
           /\ n \in To(E, m, "COVERS") => typeOf[n] \in {"POLICY", "COVERAGE"}
           /\ n \in To(E, m, "ASSUMES") => typeOf[n] = "SYNDICATE"
           /\ n \in To(E, m, "SUPPORTS") => typeOf[n] = "CAPITAL"
  OBVIOUS
<1>1. \A type : m \in From(E, n, type) <=> n \in To(E, m, type)
  BY DEF From, To
<1>2. ASSUME NEW type, n \in To(E, m, type)
      PROVE  n \in N /\ m \in N /\ <<type, typeOf[n], typeOf[m]>> \in EdgeRules
  <2>1. PICK e \in E : e.type = type /\ e.from = n /\ e.to = m
    BY <1>2 DEF To
  <2> QED  BY <2>1 DEF Stored, EdgeAllowed
<1>3. n \in To(E, m, "OWNS") => n \in Entities(N, typeOf) /\ m \in Assets(N, typeOf)
  BY <1>2 DEF EdgeRules, Entities, Assets
<1>4. n \in To(E, m, "EXPOSED_TO") =>
         n \in Entities(N, typeOf) \cup Assets(N, typeOf) /\ m \in Risks(N, typeOf)
  BY <1>2 DEF EdgeRules, Entities, Assets, Risks
<1>5. n \in To(E, m, "COVERS") => typeOf[n] \in {"POLICY", "COVERAGE"}
  BY <1>2 DEF EdgeRules
<1>6. n \in To(E, m, "ASSUMES") => typeOf[n] = "SYNDICATE"
  BY <1>2 DEF EdgeRules
<1>7. n \in To(E, m, "SUPPORTS") => typeOf[n] = "CAPITAL"
  BY <1>2 DEF EdgeRules
<1> QED  BY <1>1, <1>3, <1>4, <1>5, <1>6, <1>7

(* What can fail for an entity, seen from what fails. *)
LEMMA FailsForOwner ==
  ASSUME NEW E, NEW N, NEW typeOf, Stored(E, N, typeOf), NEW opt \in Options
  PROVE  \A n, b : b \in WhatCanFail(E, n, opt)
                     <=> \E x \in DOMAIN Traverse(E, {b}, "IN", opt) : n \in To(E, x, "OWNS")
<1> SUFFICES ASSUME NEW n, NEW b
             PROVE  b \in WhatCanFail(E, n, opt)
                      <=> \E x \in DOMAIN Traverse(E, {b}, "IN", opt) : n \in To(E, x, "OWNS")
  OBVIOUS
<1>1. PICK S : S = From(E, n, "OWNS")
  OBVIOUS
<1>2. b \in WhatCanFail(E, n, opt) <=> b \in DOMAIN Traverse(E, S, "OUT", opt)
  BY <1>1 DEF WhatCanFail
<1>3. b \in DOMAIN Traverse(E, S, "OUT", opt)
        <=> \E x \in S : b \in DOMAIN Traverse(E, {x}, "OUT", opt)
  BY TraverseFrom
<1>4. \A x : b \in DOMAIN Traverse(E, {x}, "OUT", opt)
               <=> x \in DOMAIN Traverse(E, {b}, "IN", opt)
  BY TraverseBack
<1>5. \A x : x \in S <=> n \in To(E, x, "OWNS")
  BY <1>1, EndsTyped
<1> QED  BY <1>2, <1>3, <1>4, <1>5

(* A risk exposes whom it hits and those for whom what it hits can fail.   *)
LEMMA ExposureHolds ==
  ASSUME NEW E, NEW N, NEW typeOf, Stored(E, N, typeOf), NEW opt \in Options
  PROVE  ExposedThroughFailure(E, N, typeOf, opt)
<1> SUFFICES ASSUME NEW k \in Risks(N, typeOf), NEW n \in Entities(N, typeOf)
             PROVE  n \in ExposedEntities(E, typeOf, k, opt) <=>
                      \/ n \in To(E, k, "EXPOSED_TO")
                      \/ WhatCanFail(E, n, opt) \cap To(E, k, "EXPOSED_TO") # {}
  BY DEF ExposedThroughFailure
<1>1. PICK exposed : exposed = To(E, k, "EXPOSED_TO")
  OBVIOUS
<1>2. n \in ExposedEntities(E, typeOf, k, opt) <=>
        \/ n \in exposed /\ typeOf[n] = "ENTITY"
        \/ \E a \in exposed : /\ typeOf[a] = "ASSET"
                              /\ \E b \in DOMAIN Traverse(E, {a}, "IN", opt) : n \in To(E, b, "OWNS")
  <2> DEFINE Q(a) == UNION {To(E, b, "OWNS") : b \in DOMAIN Traverse(E, {a}, "IN", opt)}
             R == {a \in exposed : typeOf[a] = "ASSET"}
  <2>1. ExposedEntities(E, typeOf, k, opt)
          = {a \in exposed : typeOf[a] = "ENTITY"} \cup UNION {Q(a) : a \in R}
    BY <1>1 DEF ExposedEntities
  <2>2. \A a : n \in Q(a) <=> \E b \in DOMAIN Traverse(E, {a}, "IN", opt) : n \in To(E, b, "OWNS")
    OBVIOUS
  <2> HIDE DEF Q
  <2>3. n \in UNION {Q(a) : a \in R} <=> \E a \in R : n \in Q(a)
    OBVIOUS
  <2> QED  BY <2>1, <2>2, <2>3
<1>3. typeOf[n] = "ENTITY"
  BY DEF Entities
<1>4. \A a : (\E b \in DOMAIN Traverse(E, {a}, "IN", opt) : n \in To(E, b, "OWNS"))
               <=> a \in WhatCanFail(E, n, opt)
  BY FailsForOwner
<1>5. \A a \in WhatCanFail(E, n, opt) : typeOf[a] = "ASSET"
  <2>1. From(E, n, "OWNS") \subseteq Assets(N, typeOf)
    BY EndsTyped
  <2>2. WhatCanFail(E, n, opt) \subseteq Assets(N, typeOf)
    BY <2>1, TraverseAssets DEF WhatCanFail
  <2> QED  BY <2>2 DEF Assets
<1> QED  BY <1>1, <1>2, <1>3, <1>4, <1>5

(* Correlation is mutual.                                                  *)
LEMMA CorrelationHolds ==
  ASSUME NEW E, NEW entities, NEW opt
  PROVE  SymmetricCorrelation(E, entities, opt)
<1> SUFFICES ASSUME NEW m \in entities, NEW n \in entities, m # n,
                    NEW ofM, ofM = CorrelatedEntities(E, entities, m, opt),
                    NEW ofN, ofN = CorrelatedEntities(E, entities, n, opt)
             PROVE  /\ n \in DOMAIN ofM <=> m \in DOMAIN ofN
                    /\ n \in DOMAIN ofM => ofM[n] = ofN[m]
  BY DEF SymmetricCorrelation
<1>1. Shared(E, m, n, opt) = Shared(E, n, m, opt)
  BY DEF Shared
<1>2. n \in DOMAIN ofM <=> Shared(E, m, n, opt) # {}
  BY DEF CorrelatedEntities
<1>3. m \in DOMAIN ofN <=> Shared(E, n, m, opt) # {}
  BY DEF CorrelatedEntities
<1>4. n \in DOMAIN ofM => ofM[n] = Shared(E, m, n, opt)
  BY DEF CorrelatedEntities
<1>5. m \in DOMAIN ofN => ofN[m] = Shared(E, n, m, opt)
  BY DEF CorrelatedEntities
<1> QED  BY <1>1, <1>2, <1>3, <1>4, <1>5

(* The same question without its restriction to verified edges.            *)
LEMMA Unverified ==
  ASSUME NEW x
  PROVE  [[maxDepth |-> x, verifiedOnly |-> TRUE] EXCEPT !.verifiedOnly = FALSE]
           = [maxDepth |-> x, verifiedOnly |-> FALSE]
<1>1. PICK o : o = [maxDepth |-> x, verifiedOnly |-> TRUE]
  OBVIOUS
<1>2. o \in [maxDepth : {x}, verifiedOnly : BOOLEAN]
  BY <1>1
<1>3. [o EXCEPT !.verifiedOnly = FALSE] \in [maxDepth : {x}, verifiedOnly : {FALSE}]
  BY <1>2
<1>4. [o EXCEPT !.verifiedOnly = FALSE] = [maxDepth |-> x, verifiedOnly |-> FALSE]
  <2>1. PICK q : q = [o EXCEPT !.verifiedOnly = FALSE]
    OBVIOUS
  <2>2. q \in [maxDepth : {x}, verifiedOnly : {FALSE}]
    BY <1>3, <2>1
  <2>3. q = [maxDepth |-> q.maxDepth, verifiedOnly |-> q.verifiedOnly]
    BY <2>2
  <2>4. q.maxDepth = x /\ q.verifiedOnly = FALSE
    BY <2>2
  <2> QED  BY <2>1, <2>3, <2>4, Zenon
<1> QED  BY <1>1, <1>4, Zenon

(* The answer on verified edges is that of a graph without the others.     *)
LEMMA VerifiedHolds ==
  ASSUME NEW E, NEW N, NEW typeOf, NEW depth
  PROVE  RestsOnVerified(E, N, typeOf, depth)
<1> DEFINE opt == [maxDepth |-> depth, verifiedOnly |-> TRUE]
           all == [maxDepth |-> depth, verifiedOnly |-> FALSE]
           V == {e \in E : ~ e.inferred}
<1>1. [opt EXCEPT !.verifiedOnly = FALSE] = all
  BY Unverified
<1>2. Followed(E, "OUT", opt) = Followed(V, "OUT", all)
  <2>1. {e \in E : e.type = "DEPENDS_ON" /\ ~ (opt.verifiedOnly /\ e.inferred)}
          = {e \in V : e.type = "DEPENDS_ON" /\ ~ (all.verifiedOnly /\ e.inferred)}
    OBVIOUS
  <2> HIDE DEF opt, all, V
  <2> QED  BY <2>1 DEF Followed
<1>3. opt.maxDepth = all.maxDepth
  OBVIOUS
<1>4. ASSUME NEW start PROVE Traverse(E, start, "OUT", opt) = Traverse(V, start, "OUT", all)
  <2>1. PICK D : D = Followed(E, "OUT", opt)
    OBVIOUS
  <2>2. D = Followed(V, "OUT", all)
    BY <1>2, <2>1
  <2>3. opt.maxDepth = depth /\ all.maxDepth = depth
    OBVIOUS
  <2> HIDE DEF opt, all, V
  <2>4. Traverse(E, start, "OUT", opt)
          = [n \in Within(D, start)[depth] |->
               CHOOSE d \in 0 .. depth :
                 n \in Within(D, start)[d] /\ (d > 0 => n \notin Within(D, start)[d - 1])]
    BY <2>1, <2>3 DEF Traverse
  <2>5. Traverse(V, start, "OUT", all)
          = [n \in Within(D, start)[depth] |->
               CHOOSE d \in 0 .. depth :
                 n \in Within(D, start)[d] /\ (d > 0 => n \notin Within(D, start)[d - 1])]
    BY <2>2, <2>3 DEF Traverse
  <2> QED  BY <2>4, <2>5, Zenon
<1>5. ASSUME NEW a PROVE DependenciesOf(E, a, opt) = DependenciesOf(V, a, all)
  <2> HIDE DEF opt, all, V
  <2> QED  BY <1>4, Zenon DEF DependenciesOf
<1>6. ASSUME NEW k
      PROVE  PotentialLosses(E, typeOf, k, opt) = PotentialLosses(V, typeOf, k, all)
  <2>1. {e \in E : e.type = "MAY_CAUSE" /\ ~ (opt.verifiedOnly /\ e.inferred)}
          = {e \in V : e.type = "MAY_CAUSE" /\ ~ (all.verifiedOnly /\ e.inferred)}
    OBVIOUS
  <2> HIDE DEF opt, all, V
  <2> QED  BY <2>1, Zenon DEF PotentialLosses
<1> HIDE DEF all
<1> QED  BY <1>1, <1>5, <1>6, Zenon DEF RestsOnVerified

(* The picture of a risk names all that its edges lead to.                 *)
LEMMA PictureHolds ==
  ASSUME NEW E, NEW N, NEW typeOf, Stored(E, N, typeOf), NEW opt \in Options
  PROVE  WholePicture(E, N, typeOf, opt)
<1> SUFFICES ASSUME NEW k \in Risks(N, typeOf)
             PROVE
    /\ CoveringPolicies(E, typeOf, k) = To(E, k, "COVERS")
    /\ {b.syndicate : b \in CapitalBearingRisk(E, typeOf, k)} = To(E, k, "ASSUMES")
    /\ UNION {b.capital : b \in CapitalBearingRisk(E, typeOf, k)}
         = UNION {To(E, s, "SUPPORTS") : s \in To(E, k, "ASSUMES")}
    /\ \A a \in To(E, k, "EXPOSED_TO") :
         (a \in Entities(N, typeOf) \/ To(E, a, "OWNS") # {}) =>
           (({a} \cup To(E, a, "OWNS")) \cap ExposedEntities(E, typeOf, k, opt) # {})
  BY DEF WholePicture
<1>1. CoveringPolicies(E, typeOf, k) = To(E, k, "COVERS")
  BY EndsTyped DEF CoveringPolicies
<1>2. PICK B : B = CapitalBearingRisk(E, typeOf, k)
  OBVIOUS
<1>3. B = {[syndicate |-> s, capital |-> To(E, s, "SUPPORTS"), protection |-> To(E, s, "PROTECTS")] :
             s \in To(E, k, "ASSUMES")}
  <2>1. {n \in To(E, k, "ASSUMES") : typeOf[n] = "SYNDICATE"} = To(E, k, "ASSUMES")
    BY EndsTyped
  <2>2. \A s : {n \in To(E, s, "SUPPORTS") : typeOf[n] = "CAPITAL"} = To(E, s, "SUPPORTS")
    BY EndsTyped
  <2> QED  BY <1>2, <2>1, <2>2 DEF CapitalBearingRisk
<1>4. /\ \A b \in B : \E s \in To(E, k, "ASSUMES") :
           b.syndicate = s /\ b.capital = To(E, s, "SUPPORTS")
      /\ \A s \in To(E, k, "ASSUMES") : \E b \in B :
           b.syndicate = s /\ b.capital = To(E, s, "SUPPORTS")
  <2> DEFINE row(s) == [syndicate |-> s, capital |-> To(E, s, "SUPPORTS"),
                        protection |-> To(E, s, "PROTECTS")]
  <2>1. \A s : row(s).syndicate = s /\ row(s).capital = To(E, s, "SUPPORTS")
    OBVIOUS
  <2>2. B = {row(s) : s \in To(E, k, "ASSUMES")}
    BY <1>3
  <2> HIDE DEF row
  <2> QED  BY <2>1, <2>2
<1>5. {b.syndicate : b \in B} = To(E, k, "ASSUMES")
  BY <1>4
<1>7. UNION {b.capital : b \in B} = UNION {To(E, s, "SUPPORTS") : s \in To(E, k, "ASSUMES")}
  <2>1. \A x : (\E b \in B : x \in b.capital)
                 <=> \E s \in To(E, k, "ASSUMES") : x \in To(E, s, "SUPPORTS")
    BY <1>4
  <2> QED  BY <2>1
<1>6. ASSUME NEW a \in To(E, k, "EXPOSED_TO"), a \in Entities(N, typeOf) \/ To(E, a, "OWNS") # {}
      PROVE  ({a} \cup To(E, a, "OWNS")) \cap ExposedEntities(E, typeOf, k, opt) # {}
  <2>1. ExposedThroughFailure(E, N, typeOf, opt)
    BY ExposureHolds
  <2>2. CASE a \in Entities(N, typeOf)
    BY <2>1, <2>2 DEF ExposedThroughFailure
  <2>3. CASE To(E, a, "OWNS") # {}
    <3>1. PICK n : n \in To(E, a, "OWNS")
      BY <2>3
    <3>2. n \in Entities(N, typeOf) /\ a \in Assets(N, typeOf)
      BY <3>1, EndsTyped
    <3>3. a \in DOMAIN Traverse(E, {a}, "IN", opt)
      BY <3>2, TraverseAssets
    <3>4. a \in WhatCanFail(E, n, opt)
      BY <3>1, <3>3, FailsForOwner
    <3>5. n \in ExposedEntities(E, typeOf, k, opt)
      BY <2>1, <3>2, <3>4 DEF ExposedThroughFailure
    <3> QED  BY <3>1, <3>5
  <2> QED  BY <1>6, <2>2, <2>3
<1> QED  BY <1>1, <1>2, <1>5, <1>6, <1>7

(* A traversal deep enough for a simple path is the search of addEdge. *)
LEMMA AgreementHolds ==
  ASSUME NEW E, NEW N, NEW typeOf, Stored(E, N, typeOf), NEW opt \in Options,
         Assets(N, typeOf) # {} => opt.maxDepth = Cardinality(Assets(N, typeOf)) - 1
  PROVE  Agrees(E, Assets(N, typeOf), opt)
<1>1. PICK A : A = Assets(N, typeOf)
  OBVIOUS
<1>2. PICK D : D = Followed(E, "OUT", opt)
  OBVIOUS
<1> SUFFICES ASSUME NEW a \in A, NEW b \in A
             PROVE  b \in DOMAIN Traverse(E, {a}, "OUT", opt) <=> Reaches(D, a, b, "DEPENDS_ON")
  BY <1>1, <1>2 DEF Agrees
<1>3. PICK max \in Nat : max = opt.maxDepth /\ max = Cardinality(A) - 1
  BY <1>1 DEF Options
<1>4. \A e \in D : e.type = "DEPENDS_ON" /\ e.from \in A /\ e.to \in A
  BY <1>1, <1>2, FollowedTurned
<1>5. PICK X : X = Within(D, {a})[max]
  OBVIOUS
<1>6. DOMAIN Traverse(E, {a}, "OUT", opt) = X
  <2>1. Finds(Traverse(E, {a}, "OUT", opt), Within(D, {a}), max)
    BY <1>2, <1>3, TraverseFinds
  <2> QED  BY <1>5, <2>1 DEF Finds
<1>7. ASSUME Reaches(D, a, b, "DEPENDS_ON") PROVE b \in X
  <2>1. IsFiniteSet(A)
    BY <1>1, FS_Subset DEF Stored, Assets
  <2>2. \A e \in D : e.from \in X => e.to \in X
    BY <1>3, <1>4, <1>5, <2>1, NearIsComplete
  <2>3. a \in X
    <3>1. Within(D, {a})[0] = {a} /\ 0 \in Nat /\ 0 <= max
      BY NearIs
    <3>2. Within(D, {a})[0] \subseteq Within(D, {a})[max]
      BY <3>1, NearGrows
    <3> QED  BY <1>5, <3>1, <3>2
  <2>4. Closed(D, "DEPENDS_ON", X)
    BY <2>2 DEF Closed
  <2> QED  BY <1>7, <2>3, <2>4, ReachesWithin
<1>8. ASSUME ~ Reaches(D, a, b, "DEPENDS_ON") PROVE b \notin X
  <2>1. PICK S : a \in S /\ b \notin S /\ Closed(D, "DEPENDS_ON", S)
    BY <1>8, ClosedWitness
  <2>2. {a} \subseteq S /\ \A e \in D : e.from \in S => e.to \in S
    BY <1>4, <2>1 DEF Closed
  <2>3. X \subseteq S
    BY <1>5, <2>2, NearInClosed
  <2> QED  BY <2>1, <2>3
<1> QED  BY <1>6, <1>7, <1>8

-----------------------------------------------------------------------------
(* Scenarios. *)

LEMMA DefaultIs == DefaultOptions \in Options /\ DefaultOptions.maxDepth = 8
BY DEF DefaultOptions, Options

(* What fails along with an asset is what traverse finds against the edges. *)
LEMMA FailingIs ==
  ASSUME NEW E, NEW N, NEW typeOf, Stored(E, N, typeOf), NEW a \in Assets(N, typeOf)
  PROVE  /\ Failing(E, typeOf, a) = DOMAIN Traverse(E, {a}, "IN", DefaultOptions)
         /\ \A n : n \in ScenarioExposed(E, typeOf, a)
                     <=> \E x \in Failing(E, typeOf, a) : n \in To(E, x, "OWNS")
         /\ \A k : k \in RelevantRisks(E, typeOf, a)
                     <=> \E x \in Failing(E, typeOf, a) : k \in From(E, x, "EXPOSED_TO")
<1>1. typeOf[a] = "ASSET"
  BY DEF Assets
<1>2. PICK t : t = Traverse(E, {a}, "IN", DefaultOptions)
  OBVIOUS
<1>3. a \in DOMAIN t
  <2>1. {a} \subseteq Assets(N, typeOf) /\ "IN" \in {"OUT", "IN"}
    OBVIOUS
  <2>2. {a} \subseteq DOMAIN t
    BY <1>2, <2>1, DefaultIs, TraverseAssets
  <2> QED  BY <2>2
<1>4. AffectedAssets(E, typeOf, a) = DOMAIN t \ {a}
  BY <1>1, <1>2 DEF AffectedAssets, DependentsOf, Others
<1>5. Failing(E, typeOf, a) = DOMAIN t
  BY <1>3, <1>4 DEF Failing
<1>6. PICK F : F = Failing(E, typeOf, a)
  OBVIOUS
<1>7. ScenarioExposed(E, typeOf, a) = UNION {To(E, x, "OWNS") : x \in F}
  BY <1>1, <1>6 DEF ScenarioExposed
<1>8. RelevantRisks(E, typeOf, a) = UNION {From(E, x, "EXPOSED_TO") : x \in F}
  BY <1>1, <1>6 DEF RelevantRisks
<1>9. \A n : n \in UNION {To(E, x, "OWNS") : x \in F} <=> \E x \in F : n \in To(E, x, "OWNS")
  OBVIOUS
<1>10. \A k : k \in UNION {From(E, x, "EXPOSED_TO") : x \in F}
                <=> \E x \in F : k \in From(E, x, "EXPOSED_TO")
  OBVIOUS
<1> QED  BY <1>2, <1>5, <1>6, <1>7, <1>8, <1>9, <1>10

(* A failing asset exposes those for whom it can fail. *)
LEMMA ExposedByAsset ==
  ASSUME NEW E, NEW N, NEW typeOf, Stored(E, N, typeOf), NEW a \in Assets(N, typeOf)
  PROVE  \A n : n \in ScenarioExposed(E, typeOf, a)
                  <=> n \in Entities(N, typeOf) /\ a \in WhatCanFail(E, n, DefaultOptions)
<1> SUFFICES ASSUME NEW n
             PROVE  n \in ScenarioExposed(E, typeOf, a)
                      <=> n \in Entities(N, typeOf) /\ a \in WhatCanFail(E, n, DefaultOptions)
  OBVIOUS
<1>1. PICK F : F = Failing(E, typeOf, a)
  OBVIOUS
<1>2. n \in ScenarioExposed(E, typeOf, a) <=> \E x \in F : n \in To(E, x, "OWNS")
  BY <1>1, FailingIs
<1>3. F = DOMAIN Traverse(E, {a}, "IN", DefaultOptions)
  BY <1>1, FailingIs
<1>4. a \in WhatCanFail(E, n, DefaultOptions) <=> \E x \in F : n \in To(E, x, "OWNS")
  BY <1>3, DefaultIs, FailsForOwner
<1>5. \A x : n \in To(E, x, "OWNS") => n \in Entities(N, typeOf)
  BY EndsTyped
<1> QED  BY <1>2, <1>4, <1>5

(* A simulation exposes those for whom its trigger can fail.               *)
LEMMA FollowsHolds ==
  ASSUME NEW E, NEW N, NEW typeOf, Stored(E, N, typeOf)
  PROVE  FollowsFailure(E, N, typeOf)
<1> SUFFICES ASSUME NEW a \in Assets(N, typeOf), NEW X, X = ScenarioExposed(E, typeOf, a)
             PROVE  /\ X = {n \in Entities(N, typeOf) : a \in WhatCanFail(E, n, DefaultOptions)}
                    /\ \A n, m \in X :
                         n # m => n \in CorrelatedExposure(E, typeOf, Entities(N, typeOf), a)
  BY DEF FollowsFailure
<1>1. \A n : n \in X <=> n \in Entities(N, typeOf) /\ a \in WhatCanFail(E, n, DefaultOptions)
  BY ExposedByAsset
<1>2. X = {n \in Entities(N, typeOf) : a \in WhatCanFail(E, n, DefaultOptions)}
  BY <1>1
<1>3. ASSUME NEW n \in X, NEW m \in X, n # m
      PROVE  n \in CorrelatedExposure(E, typeOf, Entities(N, typeOf), a)
  <2>1. a \in Shared(E, m, n, DefaultOptions)
    BY <1>1 DEF Shared
  <2>2. n \in DOMAIN CorrelatedEntities(E, Entities(N, typeOf), m, DefaultOptions)
    BY <1>1, <1>3, <2>1 DEF CorrelatedEntities
  <2> QED  BY <2>2 DEF CorrelatedExposure
<1> QED  BY <1>2, <1>3

(* What a scenario covers, one further down covers within its depth.       *)
LEMMA SpreadHolds ==
  ASSUME NEW E, NEW N, NEW typeOf, Stored(E, N, typeOf)
  PROVE  Spreads(E, N, typeOf)
<1>1. SUFFICES ASSUME NEW a \in Assets(N, typeOf), NEW b \in Assets(N, typeOf),
                    a \in DOMAIN DependenciesOf(E, b, DefaultOptions),
                    NEW x \in Failing(E, typeOf, b),
                    DependenciesOf(E, b, DefaultOptions)[a]
                      + Traverse(E, {b}, "IN", DefaultOptions)[x] <= DefaultOptions.maxDepth
             PROVE  /\ To(E, x, "OWNS") \subseteq ScenarioExposed(E, typeOf, a)
                    /\ From(E, x, "EXPOSED_TO") \subseteq RelevantRisks(E, typeOf, a)
  BY DEF Spreads
<1>2. PICK t : t = Traverse(E, {b}, "OUT", DefaultOptions)
  OBVIOUS
<1>3. PICK u : u = Traverse(E, {b}, "IN", DefaultOptions)
  OBVIOUS
<1>4. PICK D : D = Followed(E, "OUT", DefaultOptions)
  OBVIOUS
<1>5. PICK T : T = Followed(E, "IN", DefaultOptions)
  OBVIOUS
<1>6. a \in DOMAIN t /\ DependenciesOf(E, b, DefaultOptions)[a] = t[a]
  BY <1>1, <1>2 DEF DependenciesOf, Others
<1>7. x \in DOMAIN u
  BY <1>3, FailingIs
<1>8. PICK j \in Nat : j = t[a] /\ a \in Within(D, {b})[j]
  <2>1. Finds(t, Within(D, {b}), 8)
    BY <1>2, <1>4, DefaultIs, TraverseFinds
  <2> QED  BY <1>6, <2>1 DEF Finds
<1>9. PICK i \in Nat : i = u[x] /\ x \in Within(T, {b})[i]
  <2>1. Finds(u, Within(T, {b}), 8)
    BY <1>3, <1>5, DefaultIs, TraverseFinds
  <2> QED  BY <1>7, <2>1 DEF Finds
<1>10. j + i <= 8
  BY <1>1, <1>3, <1>6, <1>8, <1>9, DefaultIs
<1>11. b \in Within(D, {x})[i]
  BY <1>4, <1>5, <1>9, DefaultIs, TraverseIsDual
<1>12. a \in Within(D, {x})[8]
  <2>1. a \in Within(D, Within(D, {x})[i])[j]
    BY <1>8, <1>11, NearOfUnion
  <2>2. a \in Within(D, {x})[i + j]
    <3>1. Within(D, Within(D, {x})[i])[j] = Within(D, {x})[i + j]
      BY NearAdds
    <3> QED  BY <2>1, <3>1
  <2>3. i + j \in Nat /\ 8 \in Nat /\ i + j <= 8
    BY <1>10
  <2>4. Within(D, {x})[i + j] \subseteq Within(D, {x})[8]
    BY <2>3, NearGrows
  <2> QED  BY <2>2, <2>4
<1>13. a \in DOMAIN Traverse(E, {x}, "OUT", DefaultOptions)
  BY <1>4, <1>12, DefaultIs, TraverseFinds DEF Finds
<1>14. x \in Failing(E, typeOf, a)
  <2>1. x \in DOMAIN Traverse(E, {a}, "IN", DefaultOptions)
    BY <1>13, DefaultIs, TraverseBack
  <2> QED  BY <2>1, FailingIs
<1>15. To(E, x, "OWNS") \subseteq ScenarioExposed(E, typeOf, a)
  BY <1>14, FailingIs
<1>16. From(E, x, "EXPOSED_TO") \subseteq RelevantRisks(E, typeOf, a)
  BY <1>14, FailingIs
<1> QED  BY <1>15, <1>16

(* Only those are insured whom a covered risk reaches.                     *)
LEMMA InsuredHolds ==
  ASSUME NEW E, NEW N, NEW typeOf, Stored(E, N, typeOf)
  PROVE  InsuredIsCovered(E, N, typeOf)
<1> SUFFICES ASSUME NEW t \in Assets(N, typeOf) \cup Risks(N, typeOf),
                    NEW n \in Insured(E, typeOf, t)
             PROVE  \E k \in Risks(N, typeOf) :
                      /\ To(E, k, "COVERS") # {}
                      /\ To(E, k, "EXPOSED_TO")
                           \cap ({n} \cup WhatCanFail(E, n, DefaultOptions)) # {}
  BY DEF InsuredIsCovered
<1>1. PICK k \in RelevantRisks(E, typeOf, t) : n \in CoveredEntities(E, typeOf, k)
  BY DEF Insured
<1>2. k \in Risks(N, typeOf)
  <2>1. CASE t \in Assets(N, typeOf)
    <3>1. PICK x : k \in From(E, x, "EXPOSED_TO")
      BY <1>1, <2>1, FailingIs
    <3> QED  BY <3>1, EndsTyped
  <2>2. CASE t \in Risks(N, typeOf)
    <3>1. typeOf[t] = "RISK"
      BY <2>2 DEF Risks
    <3> QED  BY <1>1, <2>2, <3>1 DEF RelevantRisks
  <2> QED  BY <2>1, <2>2
<1>3. To(E, k, "COVERS") # {} /\ n \in ExposedEntities(E, typeOf, k, DefaultOptions)
  BY <1>1 DEF CoveredEntities, CoveringPolicies
<1>4. n \in Entities(N, typeOf)
  <2>1. (n \in To(E, k, "EXPOSED_TO") /\ typeOf[n] = "ENTITY") \/ \E b : n \in To(E, b, "OWNS")
    <3> DEFINE hit(a) == DOMAIN Traverse(E, {a}, "IN", DefaultOptions)
               Q(a) == UNION {To(E, b, "OWNS") : b \in hit(a)}
               R == {a \in To(E, k, "EXPOSED_TO") : typeOf[a] = "ASSET"}
    <3>1. ExposedEntities(E, typeOf, k, DefaultOptions)
            = {m \in To(E, k, "EXPOSED_TO") : typeOf[m] = "ENTITY"} \cup UNION {Q(a) : a \in R}
      BY DEF ExposedEntities
    <3>2. \A a : n \in Q(a) => \E b : n \in To(E, b, "OWNS")
      OBVIOUS
    <3> HIDE DEF Q
    <3> QED  BY <1>3, <3>1, <3>2
  <2>2. CASE \E b : n \in To(E, b, "OWNS")
    BY <2>2, EndsTyped
  <2>3. CASE n \in To(E, k, "EXPOSED_TO") /\ typeOf[n] = "ENTITY"
    BY <2>3, EndsTyped DEF Assets, Entities
  <2> QED  BY <2>1, <2>2, <2>3
<1>5. \/ n \in To(E, k, "EXPOSED_TO")
      \/ WhatCanFail(E, n, DefaultOptions) \cap To(E, k, "EXPOSED_TO") # {}
  BY <1>2, <1>3, <1>4, DefaultIs, ExposureHolds DEF ExposedThroughFailure
<1> QED  BY <1>2, <1>3, <1>5

-----------------------------------------------------------------------------
(* The second part: the handlers. *)

USE RiskGraphAssumption

(* The edges of an organisation are those that start at one of its nodes. *)
StartingAt(E, org) == {e \in E : OwnerOf[e.from] = org}

LEMMA OwnEdgesAre ==
  ASSUME EdgesLegal, NEW org
  PROVE  OwnEdges(org) = StartingAt(edges, org)
  BY DEF EdgesLegal, Legal, OwnEdges, OwnNodes, EdgesAmong, StartingAt

LEMMA OwnEdgesWillBe ==
  ASSUME EdgesLegal', NEW org
  PROVE  OwnEdges(org)' = StartingAt(edges', org)
  BY DEF EdgesLegal, Legal, OwnEdges, OwnNodes, EdgesAmong, StartingAt

(* What Inv says of one handler. *)
Stands(r) ==
  Checking(r) /\ OrgOf(r) \notin raced =>
    /\ \A s \in Request : Checking(s) /\ OrgOf(s) = OrgOf(r) => s = r
    /\ At(r, "edge.load") => EdgesAmong(req[r].seen) = OwnEdges(OrgOf(r))
    /\ At(r, "edge.insert") => Addable(OwnEdges(OrgOf(r)), TypeOf, req[r].edge)

(* What a handler knows of the edge it is to store.                        *)
CallerLegal(r) ==
  ~ req[r].pc \in {"idle", "node.audit"} =>
    LET e == req[r].edge IN
    /\ e.from \in nodes /\ e.to \in nodes /\ OwnerOf[e.from] = OwnerOf[e.to]
    /\ At(r, "edge.load") => req[r].seen \subseteq OwnNodes(OrgOf(r))
    /\ At(r, "edge.insert") => Legal(e)

(* The empty graph.                                                        *)
LEMMA InitInv == Init => Inv
<1> SUFFICES ASSUME Init PROVE Inv
  OBVIOUS
<1>1. TypeOK
  BY DEF Init, TypeOK, Idle
<1>2. EdgesLegal /\ ChecksStand /\ CallersLegal
  BY DEF Init, EdgesLegal, ChecksStand, CallersLegal, Checking, Idle
<1>3. \A org : OwnEdges(org) = {}
  BY DEF Init, OwnEdges, EdgesAmong
<1>4. DependenciesAcyclic
  BY <1>3 DEF DependenciesAcyclic, Acyclic
<1>5. NothingSkipped
  BY <1>3, <1>4, NothingIsSkipped DEF NothingSkipped, DependenciesAcyclic
<1>6. QED
  BY <1>1, <1>2, <1>4, <1>5 DEF Inv

(* When the stored edges are legal and acyclic, nothing is skipped. *)
LEMMA Assemble ==
  ASSUME TypeOK', EdgesLegal', DependenciesAcyclic',
         \A r \in Request : Stands(r)' /\ CallerLegal(r)'
  PROVE  Inv'
<1>1. ASSUME NEW org \in Organisation \ raced'
      PROVE  LoadedGraphs(OwnEdges(org)', TypeOf) = {OwnEdges(org)'}
  <2>1. Acyclic(OwnEdges(org)')
    BY DEF DependenciesAcyclic
  <2>2. \A e \in OwnEdges(org)' : EdgeAllowed(e.type, TypeOf[e.from], TypeOf[e.to])
    BY DEF OwnEdges, EdgesAmong, EdgesLegal, Legal
  <2>3. QED
    BY <2>1, <2>2, NothingIsSkipped
<1>2. NothingSkipped'
  BY <1>1 DEF NothingSkipped
<1>3. ChecksStand' /\ CallersLegal'
  BY DEF ChecksStand, CallersLegal, Stands, CallerLegal
<1>4. QED
  BY <1>2, <1>3 DEF Inv

(* Only r takes a step, no node goes away, and an organisation is free of  *)
(* races only if no edge was added to it and r did not begin to check one. *)
LEMMA OthersStand ==
  ASSUME Inv, EdgesLegal', NEW r \in Request,
         \A s \in Request \ {r} : req'[s] = req[s],
         nodes \subseteq nodes', edges \subseteq edges', raced \subseteq raced',
         \A s \in Request \ {r} : Checking(s) /\ OrgOf(s) \notin raced' =>
           /\ \A e \in edges' \ edges : OwnerOf[e.from] # OrgOf(s)
           /\ Checking(r)' => OrgOf(r)' # OrgOf(s)
  PROVE  \A s \in Request \ {r} : Stands(s)' /\ CallerLegal(s)'
<1> SUFFICES ASSUME NEW s \in Request \ {r} PROVE Stands(s)' /\ CallerLegal(s)'
  OBVIOUS
<1>1. req'[s] = req[s] /\ Stands(s) /\ CallerLegal(s)
  BY DEF Inv, ChecksStand, CallersLegal, Stands, CallerLegal
<1>2. CallerLegal(s)'
  BY <1>1 DEF CallerLegal, Legal, At, OwnNodes, OrgOf
<1>3. ASSUME Checking(s)', OrgOf(s)' \notin raced' PROVE Stands(s)'
  <2>1. PICK org : org = OrgOf(s)
    OBVIOUS
  <2>2. /\ Checking(s) /\ OrgOf(s)' = org /\ org \notin raced /\ org \notin raced'
        /\ At(s, "edge.load")' = At(s, "edge.load") /\ At(s, "edge.insert")' = At(s, "edge.insert")
    BY <1>1, <1>3, <2>1 DEF Checking, OrgOf, At
  <2>3. StartingAt(edges', org) = StartingAt(edges, org)
    BY <2>1, <2>2 DEF StartingAt
  <2>4. OwnEdges(org)' = OwnEdges(org)
    BY <2>3, OwnEdgesAre, OwnEdgesWillBe DEF Inv
  <2>5. ASSUME NEW t \in Request, Checking(t)', OrgOf(t)' = org PROVE t = s
    <3>1. t # r
      BY <2>1, <2>2, <2>5
    <3>2. Checking(t) /\ OrgOf(t) = org
      BY <2>5, <3>1 DEF Checking, OrgOf
    <3>3. QED
      BY <1>1, <2>1, <2>2, <3>2 DEF Stands
  <2>6. ASSUME At(s, "edge.load") PROVE EdgesAmong(req[s].seen)' = OwnEdges(org)'
    <3>1. EdgesAmong(req[s].seen) = OwnEdges(org)
      BY <1>1, <2>1, <2>2, <2>6 DEF Stands
    <3>2. \A e \in edges' : e.from \in req[s].seen => e \in edges
      <4>1. req[s].seen \subseteq OwnNodes(org)
        BY <1>1, <2>1, <2>6 DEF CallerLegal, At
      <4>2. QED
        BY <2>1, <2>2, <4>1 DEF OwnNodes
    <3>3. EdgesAmong(req[s].seen)' = EdgesAmong(req[s].seen)
      BY <1>1, <3>2 DEF EdgesAmong
    <3>4. QED
      BY <2>4, <3>1, <3>3
  <2>7. ASSUME At(s, "edge.insert") PROVE Addable(OwnEdges(org)', TypeOf, req'[s].edge)
    BY <1>1, <2>1, <2>2, <2>4, <2>7 DEF Stands
  <2>8. OwnEdges(OrgOf(s))' = OwnEdges(org)'
    BY <2>2 DEF OwnEdges, OwnNodes
  <2>9. QED
    BY <1>1, <1>3, <2>2, <2>5, <2>6, <2>7, <2>8 DEF Stands
<1>4. QED
  BY <1>2, <1>3 DEF Stands

(* A step that stores no edge. *)
LEMMA NoEdgeInv ==
  ASSUME Inv, TypeOK', NEW r \in Request,
         \A s \in Request \ {r} : req'[s] = req[s],
         nodes \subseteq nodes', edges' = edges, raced \subseteq raced',
         \A s \in Request \ {r} : Checking(s) /\ OrgOf(s) \notin raced' /\ Checking(r)'
           => OrgOf(r)' # OrgOf(s),
         EdgesLegal' => Stands(r)', CallerLegal(r)'
  PROVE  Inv'
<1>1. EdgesLegal'
  BY DEF Inv, EdgesLegal, Legal
<1>2. DependenciesAcyclic'
  <2>1. \A org \in Organisation : OwnEdges(org)' = OwnEdges(org)
    BY <1>1, OwnEdgesAre, OwnEdgesWillBe DEF Inv
  <2>2. QED
    BY <2>1 DEF Inv, DependenciesAcyclic
<1>3. \A s \in Request \ {r} : Stands(s)' /\ CallerLegal(s)'
  BY <1>1, OthersStand
<1>4. QED
  BY <1>1, <1>2, <1>3, Assemble

(* The frame and the types of a step of r.                                 *)
LEMMA BecomeDoes ==
  ASSUME Inv, NEW r \in Request, NEW q, Become(r, q),
         q \in [pc : {"idle", "node.audit", "edge.nodes", "edge.load", "edge.insert", "edge.audit"},
                edge : Edge \cup {None}, seen : SUBSET Node],
         q.pc \notin {"idle", "node.audit"} => q.edge # None,
         nodes' \subseteq Node, edges' \subseteq Edge, audit' \subseteq Edge,
         raced' \subseteq Organisation
  PROVE  TypeOK' /\ req'[r] = q /\ \A s \in Request \ {r} : req'[s] = req[s]
  BY DEF Become, Inv, TypeOK

(* The types of a handler, as Inv states them.                             *)
LEMMA Typed ==
  ASSUME Inv, NEW r \in Request
  PROVE  /\ nodes \subseteq Node /\ edges \subseteq Edge /\ audit \subseteq Edge
         /\ raced \subseteq Organisation
         /\ req[r] \in [pc : {"idle", "node.audit", "edge.nodes", "edge.load", "edge.insert",
                              "edge.audit"}, edge : Edge \cup {None}, seen : SUBSET Node]
         /\ req[r].pc \notin {"idle", "node.audit"} =>
              req[r].edge \in Edge /\ OrgOf(r) \in Organisation
         /\ CallerLegal(r) /\ Stands(r)
<1>1. req[r].pc \notin {"idle", "node.audit"} => req[r].edge \in Edge
  BY DEF Inv, TypeOK
<1>2. req[r].edge \in Edge => OrgOf(r) \in Organisation
  BY DEF Edge, OrgOf
<1>3. QED
  BY <1>1, <1>2 DEF Inv, TypeOK, CallersLegal, ChecksStand, CallerLegal, Stands

-----------------------------------------------------------------------------
(* One lemma for each action. *)

LEMMA CreateNodeInv ==
  ASSUME Inv, NEW r \in Request, NEW n \in Node, CreateNode(r, n)
  PROVE  Inv'
<1>1. PICK q : q = [Idle EXCEPT !.pc = "node.audit"]
  OBVIOUS
<1>2. q = [pc |-> "node.audit", edge |-> None, seen |-> {}]
  BY <1>1 DEF Idle
<1>3. Become(r, q) /\ nodes' = nodes \cup {n} /\ UNCHANGED <<edges, audit, raced>>
  BY <1>1 DEF CreateNode, InsertNode
<1>4. TypeOK' /\ req'[r] = q /\ \A s \in Request \ {r} : req'[s] = req[s]
  BY <1>2, <1>3, BecomeDoes, Typed
<1>5. ~ Checking(r)' /\ Stands(r)' /\ CallerLegal(r)'
  BY <1>2, <1>4 DEF Checking, Stands, CallerLegal
<1>6. QED
  BY <1>3, <1>4, <1>5, NoEdgeInv

LEMMA CreateEdgeInv ==
  ASSUME Inv, NEW r \in Request, NEW org \in Organisation, NEW e \in Candidates,
         CreateEdge(r, org, e)
  PROVE  Inv'
<1>1. PICK q : q = [Idle EXCEPT !.pc = "edge.nodes", !.edge = e]
  OBVIOUS
<1>2. q.pc = "edge.nodes" /\ q.edge = e /\ q.seen = {} /\ e \in Edge /\ e # None
      /\ q \in [pc : {"idle", "node.audit", "edge.nodes", "edge.load", "edge.insert", "edge.audit"},
                edge : Edge \cup {None}, seen : SUBSET Node]
  BY <1>1 DEF Idle
<1>3. Become(r, q) /\ UNCHANGED <<nodes, edges, audit, raced>>
      /\ e.from \in nodes /\ e.to \in nodes /\ OwnerOf[e.from] = OwnerOf[e.to]
  BY <1>1 DEF CreateEdge, Found
<1>4. TypeOK' /\ req'[r] = q /\ \A s \in Request \ {r} : req'[s] = req[s]
  BY <1>2, <1>3, BecomeDoes, Typed
<1>5. ~ Checking(r)' /\ Stands(r)' /\ CallerLegal(r)'
  BY <1>2, <1>3, <1>4 DEF Checking, Stands, CallerLegal, At
<1>6. QED
  BY <1>3, <1>4, <1>5, NoEdgeInv

(* Who begins to check while another one does makes a race of it. *)
LEMMA LoadNodesInv ==
  ASSUME Inv, NEW r \in Request, LoadNodes(r)
  PROVE  Inv'
<1>1. PICK org \in Organisation : org = OrgOf(r)
  BY Typed DEF LoadNodes, At
<1>2. PICK q : q = [req[r] EXCEPT !.pc = "edge.load", !.seen = OwnNodes(org)]
  OBVIOUS
<1>3. /\ Become(r, q) /\ UNCHANGED <<nodes, edges, audit>> /\ req[r].pc = "edge.nodes"
      /\ raced' = IF \E s \in Request : Checking(s) /\ OrgOf(s) = org
                  THEN raced \cup {org} ELSE raced
  BY <1>1, <1>2 DEF LoadNodes, At
<1>4. /\ q.pc = "edge.load" /\ q.edge = req[r].edge /\ q.seen = OwnNodes(org)
      /\ q.edge # None /\ OwnNodes(org) \subseteq Node
      /\ q \in [pc : {"idle", "node.audit", "edge.nodes", "edge.load", "edge.insert", "edge.audit"},
                edge : Edge \cup {None}, seen : SUBSET Node]
  <2>1. OwnNodes(org) \subseteq Node
    BY Typed DEF OwnNodes
  <2>2. req[r].edge \in Edge
    BY <1>3, Typed
  <2>3. QED
    BY <1>2, <2>1, <2>2, Typed
<1>5. TypeOK' /\ req'[r] = q /\ \A s \in Request \ {r} : req'[s] = req[s]
  BY <1>3, <1>4, BecomeDoes, Typed
<1>6. OrgOf(r)' = org
  BY <1>1, <1>4, <1>5 DEF OrgOf
<1>7. \A s \in Request \ {r} : Checking(s) /\ OrgOf(s) \notin raced' => org # OrgOf(s)
  BY <1>1, <1>3
<1>8. CallerLegal(r)'
  BY <1>1, <1>3, <1>4, <1>5, <1>6, Typed DEF CallerLegal, At, OwnNodes
<1>9. Stands(r)'
  <2>1. ASSUME org \notin raced', NEW s \in Request, s # r, Checking(s)'
        PROVE  OrgOf(s)' # org
    BY <1>3, <1>5, <2>1 DEF Checking, OrgOf
  <2>2. EdgesAmong(req[r].seen)' = OwnEdges(OrgOf(r))'
    BY <1>3, <1>4, <1>5, <1>6 DEF EdgesAmong, OwnEdges, OwnNodes
  <2>3. QED
    BY <1>4, <1>5, <1>6, <2>1, <2>2 DEF Stands, At
<1>10. QED
  BY <1>3, <1>5, <1>6, <1>7, <1>8, <1>9, NoEdgeInv

(* Without a race the check is made on the very edges that are stored. *)
LEMMA LoadAndCheckInv ==
  ASSUME Inv, NEW r \in Request, LoadAndCheck(r)
  PROVE  Inv'
<1>1. req[r].pc = "edge.load" /\ UNCHANGED <<nodes, edges, audit, raced>>
  BY DEF LoadAndCheck, At
<1>2. PICK e \in Edge, org \in Organisation : e = req[r].edge /\ org = OrgOf(r)
  BY <1>1, Typed
<1>3. PICK F \in LoadedGraphs(EdgesAmong(req[r].seen), TypeOf) :
        Become(r, IF Addable(F, TypeOf, e)
                  THEN [Idle EXCEPT !.pc = "edge.insert", !.edge = e] ELSE Idle)
  BY <1>2 DEF LoadAndCheck
<1>4. \A s \in Request \ {r} : Checking(s) /\ OrgOf(s) \notin raced => org # OrgOf(s)
  BY <1>1, <1>2, Typed DEF Checking, Stands
<1>5. CASE ~ Addable(F, TypeOf, e)
  <2>1. Become(r, Idle)
    BY <1>3, <1>5
  <2>2. TypeOK' /\ req'[r] = Idle /\ \A s \in Request \ {r} : req'[s] = req[s]
    BY <1>1, <2>1, BecomeDoes, Typed DEF Idle
  <2>3. ~ Checking(r)' /\ Stands(r)' /\ CallerLegal(r)'
    BY <2>2 DEF Checking, Stands, CallerLegal, Idle
  <2>4. QED
    BY <1>1, <2>2, <2>3, NoEdgeInv
<1>6. CASE Addable(F, TypeOf, e)
  <2>1. PICK q : q = [Idle EXCEPT !.pc = "edge.insert", !.edge = e]
    OBVIOUS
  <2>2. /\ Become(r, q) /\ q.pc = "edge.insert" /\ q.edge = e /\ e # None
        /\ q \in [pc : {"idle", "node.audit", "edge.nodes", "edge.load", "edge.insert", "edge.audit"},
                  edge : Edge \cup {None}, seen : SUBSET Node]
    BY <1>3, <1>6, <2>1 DEF Idle
  <2>3. TypeOK' /\ req'[r] = q /\ \A s \in Request \ {r} : req'[s] = req[s]
    BY <1>1, <2>2, BecomeDoes, Typed
  <2>4. OrgOf(r)' = org
    BY <1>2, <2>2, <2>3 DEF OrgOf
  <2>5. Legal(e)
    BY <1>1, <1>2, <1>6, Typed DEF CallerLegal, Legal, Addable
  <2>6. CallerLegal(r)'
    BY <1>1, <2>2, <2>3, <2>5 DEF CallerLegal, At, Legal
  <2>7. ASSUME EdgesLegal' PROVE Stands(r)'
    <3>1. OwnEdges(org)' = OwnEdges(org)
      BY <1>1, <2>7, OwnEdgesAre, OwnEdgesWillBe DEF Inv
    <3>2. ASSUME org \notin raced PROVE Addable(OwnEdges(org), TypeOf, e)
      <4>1. EdgesAmong(req[r].seen) = OwnEdges(org)
        BY <1>1, <1>2, <3>2, Typed DEF Checking, Stands, At
      <4>2. LoadedGraphs(OwnEdges(org), TypeOf) = {OwnEdges(org)}
        BY <3>2 DEF Inv, NothingSkipped
      <4>3. F = OwnEdges(org)
        BY <4>1, <4>2
      <4>4. QED
        BY <1>6, <4>3
    <3>3. OwnEdges(OrgOf(r))' = OwnEdges(org)
      BY <2>4, <3>1 DEF OwnEdges, OwnNodes
    <3>4. ASSUME org \notin raced, NEW s \in Request, s # r, Checking(s)'
          PROVE  OrgOf(s)' # org
      BY <1>4, <2>3, <3>4 DEF Checking, OrgOf
    <3>5. QED
      BY <1>1, <2>2, <2>3, <2>4, <3>2, <3>3, <3>4 DEF Stands, At
  <2>8. QED
    BY <1>1, <1>4, <2>3, <2>4, <2>6, <2>7, NoEdgeInv
<1>7. QED
  BY <1>5, <1>6

(***************************************************************************)
(* What was checked is inserted.  No other handler relies on the edges of  *)
(* this organisation, unless there was a race, and without one the edge    *)
(* still closes no cycle.                                                  *)
(***************************************************************************)
LEMMA InsertEdgeInv ==
  ASSUME Inv, NEW r \in Request, InsertEdge(r)
  PROVE  Inv'
<1>1. req[r].pc = "edge.insert" /\ UNCHANGED <<nodes, audit, raced>>
  BY DEF InsertEdge, At
<1>2. PICK e \in Edge, org \in Organisation : e = req[r].edge /\ org = OrgOf(r)
  BY <1>1, Typed
<1>3. CASE Become(r, Idle) /\ UNCHANGED edges
  <2>1. TypeOK' /\ req'[r] = Idle /\ \A s \in Request \ {r} : req'[s] = req[s]
    BY <1>1, <1>3, BecomeDoes, Typed DEF Idle
  <2>2. ~ Checking(r)' /\ Stands(r)' /\ CallerLegal(r)'
    BY <2>1 DEF Checking, Stands, CallerLegal, Idle
  <2>3. QED
    BY <1>1, <1>3, <2>1, <2>2, NoEdgeInv
<1>4. CASE /\ edges' = edges \cup {e}
           /\ Become(r, [Idle EXCEPT !.pc = "edge.audit", !.edge = e])
  <2>1. PICK q : q = [Idle EXCEPT !.pc = "edge.audit", !.edge = e]
    OBVIOUS
  <2>2. /\ Become(r, q) /\ q.pc = "edge.audit" /\ q.edge = e /\ e # None
        /\ q \in [pc : {"idle", "node.audit", "edge.nodes", "edge.load", "edge.insert", "edge.audit"},
                  edge : Edge \cup {None}, seen : SUBSET Node]
    BY <1>4, <2>1 DEF Idle
  <2>3. TypeOK' /\ req'[r] = q /\ \A s \in Request \ {r} : req'[s] = req[s]
    BY <1>1, <1>2, <1>4, <2>2, BecomeDoes, Typed
  <2>4. Legal(e)
    BY <1>1, <1>2, Typed DEF CallerLegal, At
  <2>5. EdgesLegal'
    BY <1>1, <1>4, <2>4 DEF Inv, EdgesLegal, Legal
  <2>6. OwnerOf[e.from] = org
    BY <1>2 DEF OrgOf
  <2>7. DependenciesAcyclic'
    <3>1. ASSUME NEW o \in Organisation \ raced PROVE Acyclic(OwnEdges(o)')
      <4>1. Acyclic(OwnEdges(o)) /\ OwnEdges(o) = StartingAt(edges, o)
            /\ OwnEdges(o)' = StartingAt(edges', o)
        BY <2>5, <3>1, OwnEdgesAre, OwnEdgesWillBe DEF Inv, DependenciesAcyclic
      <4>2. CASE o # org
        <5>1. StartingAt(edges', o) = StartingAt(edges, o)
          BY <1>4, <2>6, <4>2 DEF StartingAt
        <5>2. QED
          BY <4>1, <5>1
      <4>3. CASE o = org
        <5>1. StartingAt(edges', o) = StartingAt(edges, o) \cup {e}
          BY <1>4, <2>6, <4>3 DEF StartingAt
        <5>2. Addable(OwnEdges(o), TypeOf, e)
          BY <1>1, <1>2, <3>1, <4>3, Typed DEF Stands, Checking, At
        <5>3. QED
          BY <4>1, <5>1, <5>2, AddKeepsAcyclic DEF Addable
      <4>4. QED
        BY <4>2, <4>3
    <3>2. QED
      BY <1>1, <3>1 DEF DependenciesAcyclic
  <2>8. ~ Checking(r)' /\ Stands(r)' /\ CallerLegal(r)'
    BY <1>1, <2>2, <2>3, <2>4 DEF Checking, Stands, CallerLegal, At, Legal
  <2>9. \A s \in Request \ {r} : Checking(s) /\ OrgOf(s) \notin raced' =>
          \A f \in edges' \ edges : OwnerOf[f.from] # OrgOf(s)
    BY <1>1, <1>2, <1>4, <2>6, Typed DEF Stands, Checking
  <2>10. \A s \in Request \ {r} : Stands(s)' /\ CallerLegal(s)'
    BY <1>1, <1>4, <2>3, <2>5, <2>8, <2>9, OthersStand
  <2>11. QED
    BY <2>3, <2>5, <2>7, <2>8, <2>10, Assemble
<1>5. QED
  BY <1>2, <1>3, <1>4 DEF InsertEdge

LEMMA RecordInv ==
  ASSUME Inv, NEW r \in Request, Record(r)
  PROVE  Inv'
<1>1. Become(r, Idle) /\ UNCHANGED <<nodes, edges, raced>>
  BY DEF Record
<1>2. audit' \subseteq Edge
  BY Typed DEF Record, At
<1>3. TypeOK' /\ req'[r] = Idle /\ \A s \in Request \ {r} : req'[s] = req[s]
  BY <1>1, <1>2, BecomeDoes, Typed DEF Idle
<1>4. ~ Checking(r)' /\ Stands(r)' /\ CallerLegal(r)'
  BY <1>3 DEF Checking, Stands, CallerLegal, Idle
<1>5. QED
  BY <1>1, <1>3, <1>4, NoEdgeInv

LEMMA StutterInv ==
  ASSUME Inv, UNCHANGED vars
  PROVE  Inv'
<1>1. TypeOK' /\ EdgesLegal'
  BY DEF vars, Inv, TypeOK, EdgesLegal, Legal
<1>2. DependenciesAcyclic'
  BY DEF vars, Inv, DependenciesAcyclic, OwnEdges, EdgesAmong, OwnNodes
<1>3. ASSUME NEW r \in Request PROVE Stands(r)' /\ CallerLegal(r)'
  <2>1. Stands(r) /\ CallerLegal(r)
    BY Typed
  <2>2. CallerLegal(r)'
    BY <2>1 DEF vars, CallerLegal, OrgOf, At, OwnNodes, Legal
  <2>3. /\ \A s \in Request : Checking(s)' = Checking(s) /\ OrgOf(s)' = OrgOf(s)
        /\ At(r, "edge.load")' = At(r, "edge.load") /\ At(r, "edge.insert")' = At(r, "edge.insert")
        /\ req' = req /\ raced' = raced
    BY DEF vars, Checking, OrgOf, At
  <2>4. /\ OwnEdges(OrgOf(r))' = OwnEdges(OrgOf(r))
        /\ EdgesAmong(req[r].seen)' = EdgesAmong(req[r].seen)
    BY DEF vars, OrgOf, OwnEdges, EdgesAmong, OwnNodes
  <2>5. Stands(r)'
    BY <2>1, <2>3, <2>4 DEF Stands
  <2>6. QED
    BY <2>2, <2>5
<1>4. QED
  BY <1>1, <1>2, <1>3, Assemble

LEMMA NextInv ==
  ASSUME Inv, [Next]_vars
  PROVE  Inv'
<1>1. ASSUME NEW r \in Request, Call(r) PROVE Inv'
  BY <1>1, CreateNodeInv, CreateEdgeInv DEF Call
<1>2. ASSUME NEW r \in Request, Step(r) PROVE Inv'
  BY <1>2, LoadNodesInv, LoadAndCheckInv, InsertEdgeInv, RecordInv DEF Step
<1>3. QED
  BY <1>1, <1>2, StutterInv DEF Next

(***************************************************************************)
(* For any nodes, edges, organisations and concurrent requests: every      *)
(* stored edge is a legal triple inside one organisation, and where no two *)
(* createEdge calls overlapped, dependencies have no cycle, loadGraph      *)
(* skips nothing, and a check that is under way still holds.               *)
(***************************************************************************)
THEOREM GraphStaysLegal == Spec => []Inv
<1>1. Init => Inv
  BY InitInv
<1>2. Inv /\ [Next]_vars => Inv'
  BY NextInv
<1>3. QED
  BY <1>1, <1>2, PTL DEF Spec

-----------------------------------------------------------------------------
(* The graphs that questions are answered on. *)

(* Nodes are created one by one.                                           *)
FinitelyMany == IsFiniteSet(nodes)

LEMMA NodesAreFinite == Spec => []FinitelyMany
<1>1. Init => FinitelyMany
  BY FS_EmptySet DEF Init, FinitelyMany
<1>2. FinitelyMany /\ [Next]_vars => FinitelyMany'
  <2> SUFFICES ASSUME FinitelyMany, [Next]_vars PROVE FinitelyMany'
    OBVIOUS
  <2>1. nodes' = nodes \/ \E n \in Node : nodes' = nodes \cup {n}
    BY DEF Next, vars, Call, Step, CreateNode, InsertNode, CreateEdge, LoadNodes, LoadAndCheck,
       InsertEdge, Record
  <2> QED  BY <2>1, FS_AddElement DEF FinitelyMany
<1> QED  BY <1>1, <1>2, PTL DEF Spec

(* What loadGraph keeps of an organisation's edges is a stored graph.      *)
LEMMA LoadedIsStored ==
  ASSUME Inv, FinitelyMany, NEW org, NEW F \in LoadedGraphs(OwnEdges(org), TypeOf)
  PROVE  Stored(F, OwnNodes(org), TypeOf)
<1>1. F \subseteq OwnEdges(org)
  BY DEF LoadedGraphs
<1>2. IsFiniteSet(OwnNodes(org))
  BY FS_Subset DEF FinitelyMany, OwnNodes
<1>3. ASSUME NEW e \in F
      PROVE  /\ e \in [type : EdgeTypes, from : OwnNodes(org), to : OwnNodes(org),
                       inferred : BOOLEAN]
             /\ EdgeAllowed(e.type, TypeOf[e.from], TypeOf[e.to])
  <2>1. e \in edges /\ e.from \in OwnNodes(org) /\ e.to \in OwnNodes(org)
    BY <1>1 DEF OwnEdges, EdgesAmong
  <2>2. e \in Edge /\ EdgeAllowed(e.type, TypeOf[e.from], TypeOf[e.to])
    BY <2>1 DEF Inv, TypeOK, EdgesLegal, Legal
  <2> QED  BY <2>1, <2>2 DEF Edge
<1> QED  BY <1>2, <1>3 DEF Stored

LEMMA AskedIs == Asked \subseteq Options
<1> SUFFICES ASSUME NEW n \in AskedDepth PROVE ScopeDepth(n) \in Nat
  BY DEF Asked, Options
<1>1. n \in Int
  BY RiskGraphAssumption
<1> QED  BY <1>1 DEF ScopeDepth

(* The same question at another depth.                                     *)
LEMMA Deepened ==
  ASSUME NEW opt \in Options, NEW d \in Nat
  PROVE  [opt EXCEPT !.maxDepth = d] \in Options /\ [opt EXCEPT !.maxDepth = d].maxDepth = d
<1>1. PICK q : q = [opt EXCEPT !.maxDepth = d]
  OBVIOUS
<1>2. q \in Options /\ q.maxDepth = d
  BY <1>1 DEF Options
<1> QED  BY <1>1, <1>2, Zenon

(* The questions, on every graph that may be loaded.                       *)
LEMMA QueriesDo == Inv /\ FinitelyMany => QueriesAgree
<1> SUFFICES ASSUME Inv, FinitelyMany PROVE QueriesAgree
  OBVIOUS
<1>1. ASSUME NEW org, NEW F \in LoadedGraphs(OwnEdges(org), TypeOf), NEW opt \in Asked
      PROVE  /\ Dual(F, Assets(OwnNodes(org), TypeOf), opt)
             /\ ExposedThroughFailure(F, OwnNodes(org), TypeOf, opt)
             /\ SymmetricCorrelation(F, Entities(OwnNodes(org), TypeOf), opt)
             /\ RestsOnVerified(F, OwnNodes(org), TypeOf, opt.maxDepth)
             /\ WholePicture(F, OwnNodes(org), TypeOf, opt)
  <2>1. Stored(F, OwnNodes(org), TypeOf)
    BY LoadedIsStored
  <2>2. opt \in Options
    BY AskedIs
  <2> QED  BY <2>1, <2>2, DualHolds, ExposureHolds, CorrelationHolds, VerifiedHolds, PictureHolds
<1>2. ASSUME NEW org, NEW F \in LoadedGraphs(OwnEdges(org), TypeOf), NEW opt \in Asked,
             NEW A, A = Assets(OwnNodes(org), TypeOf)
      PROVE  Agrees(F, A, [opt EXCEPT !.maxDepth = IF A = {} THEN 0 ELSE Cardinality(A) - 1])
  <2>1. Stored(F, OwnNodes(org), TypeOf)
    BY LoadedIsStored
  <2>2. IsFiniteSet(A)
    BY <1>2, <2>1, FS_Subset DEF Stored, Assets
  <2>3. Cardinality(A) \in Nat /\ (A # {} => Cardinality(A) # 0)
    BY <2>2, FS_CardinalityType, FS_EmptySet
  <2>4. PICK d : d = IF A = {} THEN 0 ELSE Cardinality(A) - 1
    OBVIOUS
  <2>5. d \in Nat /\ (A # {} => d = Cardinality(A) - 1)
    BY <2>3, <2>4
  <2>6. PICK q : q = [opt EXCEPT !.maxDepth = d]
    OBVIOUS
  <2>7. q \in Options /\ q.maxDepth = d
    BY <2>5, <2>6, AskedIs, Deepened
  <2>8. Agrees(F, A, q)
    BY <1>2, <2>1, <2>5, <2>7, AgreementHolds
  <2> QED  BY <2>4, <2>6, <2>8
<1>3. DependenciesAreDual
  BY <1>1 DEF DependenciesAreDual, OnLoadedGraphs
<1>4. TraversalAgrees
  BY <1>2 DEF TraversalAgrees, OnLoadedGraphs
<1>5. ExposureFollowsFailure
  BY <1>1 DEF ExposureFollowsFailure, OnLoadedGraphs
<1>6. CorrelationIsMutual
  BY <1>1 DEF CorrelationIsMutual, OnLoadedGraphs
<1>7. VerifiedRestsOnVerified
  BY <1>1 DEF VerifiedRestsOnVerified, OnLoadedGraphs
<1>8. PictureIsWhole
  BY <1>1 DEF PictureIsWhole, OnLoadedGraphs
<1> QED  BY <1>3, <1>4, <1>5, <1>6, <1>7, <1>8 DEF QueriesAgree

LEMMA ScenariosDo == Inv /\ FinitelyMany => ScenariosAgree
<1> SUFFICES ASSUME Inv, FinitelyMany PROVE ScenariosAgree
  OBVIOUS
<1>1. ASSUME NEW org, NEW F \in LoadedGraphs(OwnEdges(org), TypeOf)
      PROVE  /\ FollowsFailure(F, OwnNodes(org), TypeOf)
             /\ Spreads(F, OwnNodes(org), TypeOf)
             /\ InsuredIsCovered(F, OwnNodes(org), TypeOf)
  BY LoadedIsStored, FollowsHolds, SpreadHolds, InsuredHolds
<1> QED  BY <1>1 DEF ScenariosAgree, ScenarioFollowsFailure, ScenarioSpreads,
            ScenarioInsuredIsCovered

(***************************************************************************)
(* For any graph that requests can leave behind, however they overlapped,  *)
(* and whatever part of it loadGraph keeps: the questions of queries.ts    *)
(* agree with each other, with the ontology and with the search of         *)
(* addEdge, at every depth a caller asks for.                              *)
(***************************************************************************)
THEOREM QuestionsAgree == Spec => []QueriesAgree
<1>1. QED
  BY GraphStaysLegal, NodesAreFinite, QueriesDo, PTL

(* And so do simulations: runSimulation exposes those for whom the trigger *)
(* can fail, is no milder further down, and insures only what is covered.  *)
THEOREM SimulationsAgree == Spec => []ScenariosAgree
<1>1. QED
  BY GraphStaysLegal, NodesAreFinite, ScenariosDo, PTL
=============================================================================
