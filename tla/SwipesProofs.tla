----------------------------- MODULE SwipesProofs -----------------------------
(***************************************************************************)
(* One reply per turn in front of the model, in conversation order, every  *)
(* reading swipable, and a chat file that loses nothing when it is read    *)
(* back: for any number of greetings and any length of the log, whether it *)
(* grows by the operations on it or is rebuilt from the file.              *)
(***************************************************************************)
EXTENDS SwipeFile, FiniteSetTheorems, WellFoundedInduction, TLAPS

(* Sets of positions, and how InOrder lists them.                            *)

\* Induction, for a property given as the set of numbers that have it.
LEMMA Induction ==
  ASSUME NEW S, 0 \in S, \A n \in Nat : n \in S => n + 1 \in S
  PROVE  \A n \in Nat : n \in S
<1> DEFINE T == Nat \ S
           R == OpToRel(<, Nat)
<1>1. SUFFICES ASSUME T # {} PROVE FALSE
  OBVIOUS
<1>2. \A x, y \in Nat : y < x => <<y, x>> \in R
  BY DEF OpToRel
<1>3. \E x \in T : \A y \in T : ~(<<y, x>> \in R)
  <2> HIDE DEF R
  <2>1. IsWellFoundedOn(R, Nat)
    BY NatLessThanWellFounded DEF R
  <2> QED
    BY <1>1, <2>1, WFMin
<1> HIDE DEF R
<1>4. PICK x \in T : \A y \in T : ~(y < x)
  BY <1>2, <1>3
<1>5. x # 0 /\ x - 1 \in Nat
  BY <1>4
<1>6. x - 1 \in S
  BY <1>4, <1>5
<1> QED
  BY <1>4, <1>5, <1>6

\* The least and the greatest of a set of numbers.
LEMMA Lowest ==
  ASSUME NEW S \in SUBSET Nat, S # {}
  PROVE  \E i \in S : \A j \in S : i <= j
<1> SUFFICES ASSUME \A i \in S : \E j \in S : j < i PROVE FALSE
  OBVIOUS
<1> DEFINE T == {n \in Nat : \A i \in S : n <= i}
<1>1. 0 \in T
  OBVIOUS
<1>2. \A n \in Nat : n \in T => n + 1 \in T
  OBVIOUS
<1>3. \A n \in Nat : n \in T
  <2> HIDE DEF T
  <2> QED
    BY <1>1, <1>2, Induction
<1>4. PICK i \in S : TRUE
  OBVIOUS
<1>5. i + 1 \in T
  BY <1>3
<1> QED
  BY <1>5

LEMMA Highest ==
  ASSUME NEW S \in SUBSET Nat, S # {}, NEW n \in Nat, \A i \in S : i <= n
  PROVE  \E i \in S : \A j \in S : j <= i
<1> DEFINE T == {m \in Nat : \A i \in S : i <= m}
<1>1. PICK m \in T : \A k \in T : m <= k
  BY Lowest
<1>2. m \in S
  <2> SUFFICES ASSUME m \notin S PROVE FALSE
    OBVIOUS
  <2>1. PICK i \in S : TRUE
    OBVIOUS
  <2>2. m - 1 \in Nat
    BY <2>1
  <2>3. \A j \in S : j <= m - 1
    OBVIOUS
  <2> QED
    BY <1>1, <2>2, <2>3
<1> QED
  BY <1>2
-------------------------------------------------------------------------------
\* The positions of S up to i.
UpTo(S, i) == {j \in S : j <= i}

LEMMA Finite ==
  ASSUME NEW S \in SUBSET Nat, NEW n \in Nat, \A i \in S : i <= n
  PROVE  /\ IsFiniteSet(S) /\ Cardinality(S) \in Nat
         /\ \A i : /\ IsFiniteSet(UpTo(S, i)) /\ Cardinality(UpTo(S, i)) \in Nat
                   /\ Cardinality(UpTo(S, i)) <= Cardinality(S)
<1>1. IsFiniteSet(S)
  BY FS_BoundedSetOfNaturals
<1>2. \A i : UpTo(S, i) \in SUBSET S
  BY DEF UpTo
<1> QED
  BY <1>1, <1>2, FS_Subset, FS_CardinalityType

\* Two members are not at the same place.
LEMMA Places ==
  ASSUME NEW S \in SUBSET Nat, NEW n \in Nat, \A i \in S : i <= n,
         NEW i \in S, NEW k \in S,
         Cardinality(UpTo(S, i)) = Cardinality(UpTo(S, k))
  PROVE  i = k
<1>1. ASSUME NEW a \in S, NEW b \in S, a < b
      PROVE  Cardinality(UpTo(S, a)) # Cardinality(UpTo(S, b))
  <2>1. a \in Nat /\ b \in Nat /\ \A j \in S : j \in Nat
    OBVIOUS
  <2>2. \A j \in S : j <= a => j <= b
    BY <1>1, <2>1
  <2>3. b <= b /\ ~(b <= a)
    BY <1>1, <2>1
  <2>4. UpTo(S, a) \in SUBSET UpTo(S, b) /\ b \in UpTo(S, b) /\ b \notin UpTo(S, a)
    BY ONLY <2>2, <2>3, b \in S DEF UpTo
  <2>5. IsFiniteSet(UpTo(S, b))
    BY Finite
  <2> QED
    BY <2>4, <2>5, FS_Subset
<1> QED
  BY <1>1

\* Every place is taken.
LEMMA Placed ==
  ASSUME NEW S \in SUBSET Nat, NEW n \in Nat, \A i \in S : i <= n,
         NEW k \in 1 .. Cardinality(S)
  PROVE  \E i \in S : Cardinality(UpTo(S, i)) = k
<1> DEFINE Filled(A) == \A m \in 1 .. Cardinality(A) : \E i \in A : Cardinality(UpTo(A, i)) = m
           T == {m \in Nat : \A A \in SUBSET Nat : (\A i \in A : i < m) => Filled(A)}
<1>1. 0 \in T
  <2>1. ASSUME NEW A \in SUBSET Nat, \A i \in A : i < 0
        PROVE  Filled(A)
    <3>1. A = {}
      BY <2>1
    <3> QED
      BY <3>1, FS_EmptySet
  <2> QED
    BY <2>1
<1>2. ASSUME NEW m \in Nat, m \in T
      PROVE  m + 1 \in T
  <2> SUFFICES ASSUME NEW A \in SUBSET Nat, \A i \in A : i < m + 1
               PROVE  Filled(A)
    OBVIOUS
  <2>1. CASE m \notin A
    <3>1. \A i \in A : i < m
      BY <2>1
    <3> QED
      BY <1>2, <3>1
  <2>2. CASE m \in A
    <3> DEFINE B == A \ {m}
    <3>1. Filled(B)
      BY <1>2
    <3>2. IsFiniteSet(B) /\ Cardinality(B) \in Nat
      <4>1. B \in SUBSET Nat /\ \A i \in B : i <= m
        OBVIOUS
      <4> HIDE DEF B
      <4> QED
        BY <4>1, Finite
    <3>3. A = B \cup {m} /\ m \notin B
      BY <2>2
    <3> HIDE DEF B
    <3>4. Cardinality(A) = Cardinality(B) + 1
      BY <3>2, <3>3, FS_AddElement
    <3>5. \A i \in B : UpTo(A, i) = UpTo(B, i)
      BY <3>3 DEF UpTo
    <3>6. UpTo(A, m) = A
      <4>1. \A i \in A : i <= m
        OBVIOUS
      <4> QED
        BY <4>1 DEF UpTo
    <3>7. ASSUME NEW j \in 1 .. Cardinality(A)
          PROVE  \E i \in A : Cardinality(UpTo(A, i)) = j
      <4>1. CASE j = Cardinality(A)
        BY <2>2, <3>6, <4>1
      <4>2. CASE j # Cardinality(A)
        <5>1. j \in 1 .. Cardinality(B)
          BY <3>2, <3>4, <3>7, <4>2
        <5>2. PICK i \in B : Cardinality(UpTo(B, i)) = j
          BY <3>1, <5>1
        <5> QED
          BY <3>3, <3>5, <5>2
      <4> QED
        BY <4>1, <4>2
    <3> QED
      BY <3>7
  <2> QED
    BY <2>1, <2>2
<1>3. n + 1 \in T
  <2> HIDE DEF T
  <2> QED
    BY <1>1, <1>2, Induction
<1>4. \A i \in S : i < n + 1
  OBVIOUS
<1>5. Filled(S)
  BY <1>3, <1>4
<1> QED
  BY <1>5

\* InOrder lists the members of S, each at its place.
LEMMA Listed ==
  ASSUME NEW S \in SUBSET Nat, NEW n \in Nat, \A i \in S : i <= n
  PROVE  /\ Cardinality(S) \in Nat
         /\ InOrder(S) = [k \in 1 .. Cardinality(S) |-> InOrder(S)[k]]
         /\ \A k \in 1 .. Cardinality(S) :
              InOrder(S)[k] \in S /\ Cardinality(UpTo(S, InOrder(S)[k])) = k
         /\ \A k \in 1 .. Cardinality(S), i \in S :
              Cardinality(UpTo(S, i)) = k => InOrder(S)[k] = i
<1>1. InOrder(S) = [k \in 1 .. Cardinality(S) |-> CHOOSE i \in S : Cardinality(UpTo(S, i)) = k]
  BY DEF InOrder, UpTo
<1>2. InOrder(S) = [k \in 1 .. Cardinality(S) |-> InOrder(S)[k]]
  BY <1>1
<1>3. ASSUME NEW k \in 1 .. Cardinality(S)
      PROVE  InOrder(S)[k] \in S /\ Cardinality(UpTo(S, InOrder(S)[k])) = k
  <2>1. \E i \in S : Cardinality(UpTo(S, i)) = k
    BY Placed
  <2>2. InOrder(S)[k] = CHOOSE i \in S : Cardinality(UpTo(S, i)) = k
    BY <1>1
  <2> QED
    BY <2>1, <2>2
<1> QED
  BY <1>2, <1>3, Places, Finite

\* A later position goes to the end.
LEMMA ListedNext ==
  ASSUME NEW S \in SUBSET Nat, NEW n \in Nat, \A i \in S : i < n
  PROVE  /\ Cardinality(S \cup {n}) = Cardinality(S) + 1
         /\ InOrder(S \cup {n})[Cardinality(S) + 1] = n
         /\ \A k \in 1 .. Cardinality(S) : InOrder(S \cup {n})[k] = InOrder(S)[k]
<1> DEFINE R == S \cup {n}
<1>1. \A i \in S : i <= n /\ i # n /\ i \in Nat
  OBVIOUS
<1>2. IsFiniteSet(S) /\ Cardinality(S) \in Nat
  BY <1>1, Finite
<1>3. Cardinality(R) = Cardinality(S) + 1
  BY <1>2, FS_AddElement
<1>4. R \in SUBSET Nat /\ \A i \in R : i <= n
  OBVIOUS
<1>5. UpTo(R, n) = R /\ \A i \in S : UpTo(R, i) = UpTo(S, i)
  <2>1. \A i \in S : ~(n <= i)
    OBVIOUS
  <2> QED
    BY <1>4, <2>1 DEF UpTo
<1>6. n \in R /\ S \subseteq R
  OBVIOUS
<1> HIDE DEF R
<1>7. InOrder(R)[Cardinality(S) + 1] = n
  BY <1>2, <1>3, <1>4, <1>5, <1>6, Listed
<1>8. n \in Nat /\ \A i \in S : i <= n
  BY <1>1
<1>9. ASSUME NEW k \in 1 .. Cardinality(S)
      PROVE  InOrder(R)[k] = InOrder(S)[k]
  <2>1. InOrder(S)[k] \in S /\ Cardinality(UpTo(S, InOrder(S)[k])) = k
    BY <1>8, Listed
  <2>2. Cardinality(UpTo(R, InOrder(S)[k])) = k
    BY <1>5, <2>1
  <2>3. k \in 1 .. Cardinality(R)
    BY <1>2, <1>3
  <2> QED
    BY <1>4, <1>6, <2>1, <2>2, <2>3, Listed
<1> QED
  BY <1>3, <1>7, <1>9 DEF R

\* An interval is listed as it is.
LEMMA ListedInterval ==
  ASSUME NEW a \in Nat, NEW k \in Nat
  PROVE  LET S == a + 1 .. a + k
         IN /\ Cardinality(S) = k
            /\ \A j \in 1 .. k : InOrder(S)[j] = a + j
<1> DEFINE S == a + 1 .. a + k
<1>1. Cardinality(S) = k
  BY FS_Interval
<1>2. ASSUME NEW j \in 1 .. k
      PROVE  a + j \in S /\ Cardinality(UpTo(S, a + j)) = j
  <2>1. UpTo(S, a + j) = a + 1 .. a + j
    BY DEF UpTo
  <2>2. Cardinality(a + 1 .. a + j) = j
    BY FS_Interval
  <2> QED
    BY <2>1, <2>2
<1>3. S \in SUBSET Nat /\ a + k \in Nat /\ \A i \in S : i <= a + k
  OBVIOUS
<1> HIDE DEF S
<1> QED
  BY <1>1, <1>2, <1>3, Listed DEF S
-------------------------------------------------------------------------------
(* A well-formed session.                                                    *)

Typed(s) ==
  /\ s \in [log : Seq(Event), surface : Seq(Nat)]
  /\ \A p \in DOMAIN s.surface : s.surface[p] \in DOMAIN s.log

\* Some event belongs to the highest turn (LastTurn is that turn).
HasLast(s) ==
  s.log = << >> \/ \E i \in DOMAIN s.log : \A j \in DOMAIN s.log : s.log[j].turn <= s.log[i].turn

OneReply(s) ==
  \A i \in DOMAIN s.log :
    s.log[i].type = "reply" =>
      \E p \in Nodes(s, s.log[i].turn) : Nodes(s, s.log[i].turn) = {p}

Ordered(s) ==
  \A p, q \in DOMAIN s.surface :
    p <= q => s.log[s.surface[p]].turn <= s.log[s.surface[q]].turn

Sound(s) == Typed(s) /\ HasLast(s) /\ OneReply(s) /\ Ordered(s)
-------------------------------------------------------------------------------
(* What appending to the log does to the sets the module reads off it.       *)

LEMMA NewestOne ==
  ASSUME NEW p \in Nat
  PROVE  Newest({p}) = p
  BY DEF Newest

LEMMA AppendedLog ==
  ASSUME NEW L \in Seq(Event), NEW e \in Event
  PROVE  /\ Append(L, e) \in Seq(Event)
         /\ Len(Append(L, e)) = Len(L) + 1
         /\ DOMAIN Append(L, e) = DOMAIN L \cup {Len(L) + 1}
         /\ Len(L) + 1 \notin DOMAIN L
         /\ \A i \in DOMAIN L : Append(L, e)[i] = L[i]
         /\ Append(L, e)[Len(L) + 1] = e
  OBVIOUS

LEMMA LastTurnIsLast ==
  ASSUME NEW s, Typed(s), HasLast(s)
  PROVE  /\ LastTurn(s) \in Int /\ LastTurn(s) >= -1
         /\ \A i \in DOMAIN s.log : s.log[i].turn <= LastTurn(s)
         /\ LastTurn(s) >= 0 => \E i \in DOMAIN s.log : s.log[i].turn = LastTurn(s)
<1>1. CASE s.log = << >>
  BY <1>1 DEF LastTurn
<1>2. CASE s.log # << >>
  <2> DEFINE Turns == {s.log[i].turn : i \in DOMAIN s.log}
  <2>1. PICK i \in DOMAIN s.log : \A j \in DOMAIN s.log : s.log[j].turn <= s.log[i].turn
    BY <1>2 DEF HasLast
  <2>2. \A j \in DOMAIN s.log : s.log[j].turn \in Nat
    <3>1. s.log \in Seq(Event)
      BY DEF Typed
    <3>2. \A j \in DOMAIN s.log : s.log[j] \in Event
      BY <3>1
    <3>3. \A e \in Event : e.turn \in Nat
      BY DEF Event
    <3> QED
      BY <3>2, <3>3
  <2>3. s.log[i].turn \in Turns /\ \A t \in Turns : t <= s.log[i].turn /\ t \in Nat
    BY <2>1, <2>2
  <2>4. Newest(Turns) = s.log[i].turn
    BY <2>3 DEF Newest
  <2>5. LastTurn(s) = s.log[i].turn
    BY <1>2, <2>4 DEF LastTurn
  <2> QED
    BY <2>1, <2>2, <2>5
<1> QED
  BY <1>1, <1>2
-------------------------------------------------------------------------------
(* The three ways a session grows keep it sound.                             *)

LEMMA SurfacedSound ==
  ASSUME NEW s, Sound(s), NEW e \in Event,
         \A i \in DOMAIN s.log : s.log[i].turn <= e.turn,
         e.type = "reply" => Nodes(s, e.turn) = {}
  PROVE  Sound(Surfaced(s, e))
<1> DEFINE r == Surfaced(s, e)
           n == Len(s.log) + 1
           m == Len(s.surface) + 1
<1>1. /\ r.log = Append(s.log, e) /\ r.surface = Append(s.surface, n)
      /\ s.log \in Seq(Event) /\ s.surface \in Seq(Nat) /\ n \in Nat /\ m \in Nat
  BY DEF Surfaced, Sound, Typed
<1> HIDE DEF r
<1>2. /\ DOMAIN r.surface = DOMAIN s.surface \cup {m} /\ m \notin DOMAIN s.surface
      /\ \A p \in DOMAIN s.surface : r.surface[p] = s.surface[p] /\ p < m
      /\ r.surface[m] = n
  BY <1>1
<1>3. /\ DOMAIN r.log = DOMAIN s.log \cup {n} /\ n \notin DOMAIN s.log
      /\ \A i \in DOMAIN s.log : r.log[i] = s.log[i]
      /\ r.log[n] = e
  BY <1>1, AppendedLog
<1>4. Typed(r)
  <2>1. r \in [log : Seq(Event), surface : Seq(Nat)]
    BY <1>1, AppendedLog DEF r, Surfaced
  <2> QED
    BY <2>1, <1>2, <1>3 DEF Typed, Sound
<1>5. HasLast(r)
  BY <1>3 DEF HasLast, Event
<1>6. ASSUME NEW t
      PROVE  Nodes(r, t) = Nodes(s, t) \cup
               (IF e.type = "reply" /\ e.turn = t THEN {m} ELSE {})
  <2>1. Replies(r, t) = Replies(s, t) \cup
          (IF e.type = "reply" /\ e.turn = t THEN {n} ELSE {})
    BY <1>3 DEF Replies
  <2>2. n \notin Replies(s, t) /\ \A p \in DOMAIN s.surface : s.surface[p] # n
    BY <1>3 DEF Replies, Sound, Typed
  <2> QED
    BY <1>2, <2>1, <2>2 DEF Nodes
<1>7. OneReply(r)
  <2> SUFFICES ASSUME NEW i \in DOMAIN r.log, r.log[i].type = "reply"
               PROVE  \E p \in Nodes(r, r.log[i].turn) : Nodes(r, r.log[i].turn) = {p}
    BY DEF OneReply
  <2>1. CASE i = n
    <3>1. Nodes(r, e.turn) = {m}
      BY <1>3, <1>6, <2>1
    <3> QED
      BY <1>3, <2>1, <3>1
  <2>2. CASE i \in DOMAIN s.log
    <3>1. PICK p \in Nodes(s, s.log[i].turn) : Nodes(s, s.log[i].turn) = {p}
      BY <1>3, <2>2 DEF OneReply, Sound
    <3>2. ~(e.type = "reply" /\ e.turn = s.log[i].turn)
      BY <3>1
    <3> QED
      BY <1>3, <1>6, <2>2, <3>1, <3>2
  <2> QED
    BY <1>3, <2>1, <2>2
<1>8. Ordered(r)
  <2> SUFFICES ASSUME NEW p \in DOMAIN r.surface, NEW q \in DOMAIN r.surface, p <= q
               PROVE  r.log[r.surface[p]].turn <= r.log[r.surface[q]].turn
    BY DEF Ordered
  <2>1. \A x \in DOMAIN s.surface :
          s.surface[x] \in DOMAIN s.log /\ r.log[r.surface[x]] = s.log[s.surface[x]]
    BY <1>2, <1>3 DEF Sound, Typed
  <2>2. e.turn \in Nat /\ r.log[r.surface[m]] = e
    BY <1>2, <1>3 DEF Event
  <2>3. CASE q = m
    BY <1>2, <2>1, <2>2, <2>3
  <2>4. CASE q \in DOMAIN s.surface
    <3>1. p \in DOMAIN s.surface
      <4>1. q < m /\ q \in Nat
        BY <1>1, <1>2, <2>4
      <4> QED
        BY <1>1, <1>2, <4>1
    <3> QED
      BY <2>1, <2>4, <3>1 DEF Ordered, Sound
  <2> QED
    BY <1>2, <2>3, <2>4
<1> QED
  BY <1>4, <1>5, <1>7, <1>8 DEF Sound, r

LEMMA ShadowingSound ==
  ASSUME NEW s, Sound(s), NEW e \in Event, e.type = "reply",
         NEW q \in Nodes(s, e.turn)
  PROVE  Sound(Shadowing(s, e, q))
<1> DEFINE r == Shadowing(s, e, q)
           n == Len(s.log) + 1
<1>1. /\ r.log = Append(s.log, e) /\ r.surface = [s.surface EXCEPT ![q] = n]
      /\ s.log \in Seq(Event) /\ s.surface \in Seq(Nat) /\ n \in Nat
  BY DEF Shadowing, Sound, Typed
<1>2. r \in [log : Seq(Event), surface : Seq(Nat)]
  <2>1. q \in DOMAIN s.surface
    BY DEF Nodes
  <2>2. [s.surface EXCEPT ![q] = n] \in Seq(Nat)
    BY <1>1, <2>1
  <2> QED
    BY <1>1, <2>2, AppendedLog DEF Shadowing
<1> HIDE DEF r
<1>3. q \in DOMAIN s.surface /\ s.surface[q] \in DOMAIN s.log /\ s.log[s.surface[q]].turn = e.turn
      /\ s.log[s.surface[q]].type = "reply"
  BY DEF Nodes, Replies
<1>4. /\ DOMAIN r.surface = DOMAIN s.surface /\ r.surface[q] = n
      /\ \A p \in DOMAIN s.surface : p # q => r.surface[p] = s.surface[p]
  BY <1>1, <1>3
<1>5. /\ DOMAIN r.log = DOMAIN s.log \cup {n} /\ n \notin DOMAIN s.log
      /\ \A i \in DOMAIN s.log : r.log[i] = s.log[i]
      /\ r.log[n] = e
  BY <1>1, AppendedLog
<1>6. Typed(r)
  BY <1>2, <1>4, <1>5 DEF Typed, Sound
<1>7. HasLast(r)
  <2>1. PICK i \in DOMAIN s.log : \A j \in DOMAIN s.log : s.log[j].turn <= s.log[i].turn
    BY <1>3, <1>1 DEF HasLast, Sound
  <2> QED
    BY <2>1, <1>3, <1>5 DEF HasLast
<1>8. ASSUME NEW t
      PROVE  Nodes(r, t) = Nodes(s, t)
  <2>1. Replies(r, t) = Replies(s, t) \cup (IF e.turn = t THEN {n} ELSE {})
    BY <1>5 DEF Replies
  <2>2. n \notin Replies(s, t) /\ \A p \in DOMAIN s.surface : s.surface[p] # n
    BY <1>5 DEF Replies, Sound, Typed
  <2>3. s.surface[q] \in Replies(s, t) <=> e.turn = t
    BY <1>3 DEF Replies
  <2> QED
    BY <1>3, <1>4, <2>1, <2>2, <2>3 DEF Nodes
<1>9. OneReply(r)
  <2> SUFFICES ASSUME NEW i \in DOMAIN r.log, r.log[i].type = "reply"
               PROVE  \E p \in Nodes(r, r.log[i].turn) : Nodes(r, r.log[i].turn) = {p}
    BY DEF OneReply
  <2>1. \E k \in DOMAIN s.log : s.log[k].type = "reply" /\ s.log[k].turn = r.log[i].turn
    BY <1>3, <1>5
  <2> QED
    BY <2>1, <1>8 DEF OneReply, Sound
<1>10. Ordered(r)
  <2>1. \A p \in DOMAIN s.surface :
          s.surface[p] \in DOMAIN s.log /\ r.log[r.surface[p]].turn = s.log[s.surface[p]].turn
    BY <1>3, <1>4, <1>5 DEF Sound, Typed
  <2> QED
    BY <2>1, <1>4 DEF Ordered, Sound
<1> QED
  BY <1>6, <1>7, <1>9, <1>10 DEF Sound, r

LEMMA PickedSound ==
  ASSUME NEW s, Sound(s), NEW e \in Event, e.type = "select",
         NEW k \in DOMAIN s.log, e.turn = s.log[k].turn
  PROVE  Sound([s EXCEPT !.log = Append(@, e)])
<1> DEFINE r == [s EXCEPT !.log = Append(@, e)]
           n == Len(s.log) + 1
<1>1. /\ r.log = Append(s.log, e) /\ r.surface = s.surface
      /\ s.log \in Seq(Event) /\ s.surface \in Seq(Nat)
      /\ r \in [log : Seq(Event), surface : Seq(Nat)]
  BY AppendedLog DEF Sound, Typed
<1> HIDE DEF r
<1>2. /\ DOMAIN r.log = DOMAIN s.log \cup {n} /\ n \notin DOMAIN s.log
      /\ \A i \in DOMAIN s.log : r.log[i] = s.log[i]
      /\ r.log[n] = e
  BY <1>1, AppendedLog
<1>3. Typed(r)
  BY <1>1, <1>2 DEF Typed, Sound
<1>4. HasLast(r)
  <2>1. PICK i \in DOMAIN s.log : \A j \in DOMAIN s.log : s.log[j].turn <= s.log[i].turn
    BY <1>1 DEF HasLast, Sound
  <2> QED
    BY <2>1, <1>2 DEF HasLast
<1>5. ASSUME NEW t
      PROVE  Nodes(r, t) = Nodes(s, t)
  <2>1. Replies(r, t) = Replies(s, t)
    BY <1>2 DEF Replies
  <2> QED
    BY <1>1, <2>1 DEF Nodes
<1>6. OneReply(r)
  BY <1>2, <1>5 DEF OneReply, Sound
<1>7. Ordered(r)
  BY <1>1, <1>2 DEF Ordered, Sound, Typed
<1> QED
  BY <1>3, <1>4, <1>6, <1>7 DEF Sound, r
-------------------------------------------------------------------------------
(* The greetings a conversation is seeded with.                              *)

\* What the log and the surface of Seeded(k) are, event by event.
IsSeeded(s, k) ==
  /\ s \in [log : Seq(Event), surface : Seq(Nat)]
  /\ k = 0 => s.log = << >> /\ DOMAIN s.surface = {}
  /\ k = 1 => /\ DOMAIN s.log = {1}
              /\ DOMAIN s.surface = {1} /\ s.surface[1] = 1
  /\ k > 1 => /\ DOMAIN s.log = 1 .. k + 2
              /\ DOMAIN s.surface = {1} /\ s.surface[1] = k + 1
  /\ \A i \in DOMAIN s.log :
       s.log[i] = IF i <= k THEN Reply(0, i)
                  ELSE IF i = k + 1 THEN Reply(0, 1) ELSE Pick(0, 1, k + 1)

LEMMA SeededLog ==
  ASSUME NEW k \in Nat
  PROVE  IsSeeded(Seeded(k), k)
<1> DEFINE s == Seeded(k)
           head == [i \in 1 .. k |-> Reply(0, i)]
           tail == IF k > 1 THEN <<Reply(0, 1), Pick(0, 1, k + 1)>> ELSE << >>
<1>1. /\ \A i \in Nat : Reply(0, i) \in Event
      /\ \A x, y \in Nat : Pick(0, x, y) \in Event
  BY DEF Reply, Pick, Event
<1>2. head \in Seq(Event) /\ Len(head) = k /\ \A i \in 1 .. k : head[i] = Reply(0, i)
  BY <1>1
<1>3. tail \in Seq(Event)
  BY <1>1
<1>4. /\ s.log = head \o tail
      /\ s.surface = IF k = 0 THEN << >> ELSE IF k = 1 THEN <<1>> ELSE <<k + 1>>
  BY DEF Seeded
<1>5. s \in [log : Seq(Event), surface : Seq(Nat)]
  <2>1. head \o tail \in Seq(Event)
    BY <1>2, <1>3
  <2>2. (IF k = 0 THEN << >> ELSE IF k = 1 THEN <<1>> ELSE <<k + 1>>) \in Seq(Nat)
    OBVIOUS
  <2> QED
    BY <2>1, <2>2 DEF Seeded
<1>6. \A i \in DOMAIN s.log :
        s.log[i] = IF i <= k THEN Reply(0, i)
                   ELSE IF i = k + 1 THEN Reply(0, 1) ELSE Pick(0, 1, k + 1)
  BY <1>2, <1>4
<1>7. /\ k = 0 => s.log = << >> /\ DOMAIN s.surface = {}
      /\ k = 1 => DOMAIN s.log = {1} /\ DOMAIN s.surface = {1} /\ s.surface[1] = 1
      /\ k > 1 => DOMAIN s.log = 1 .. k + 2 /\ DOMAIN s.surface = {1} /\ s.surface[1] = k + 1
  <2>1. CASE k = 0
    BY <1>2, <1>4, <2>1
  <2>2. CASE k = 1
    BY <1>2, <1>4, <2>2
  <2>3. CASE k > 1
    BY <1>2, <1>4, <2>3
  <2> QED
    BY <2>1, <2>2, <2>3
<1> QED
  BY <1>5, <1>6, <1>7 DEF IsSeeded

LEMMA SeededSound ==
  ASSUME NEW k \in Nat
  PROVE  Sound(Seeded(k))
<1> DEFINE s == Seeded(k)
<1>0. IsSeeded(s, k)
  BY SeededLog
<1> HIDE DEF s
<1>1. /\ s \in [log : Seq(Event), surface : Seq(Nat)]
      /\ k = 0 => DOMAIN s.log = {} /\ s.log = << >> /\ DOMAIN s.surface = {}
      /\ k = 1 => DOMAIN s.log = {1} /\ DOMAIN s.surface = {1} /\ s.surface[1] = 1
      /\ k > 1 => DOMAIN s.log = 1 .. k + 2 /\ DOMAIN s.surface = {1} /\ s.surface[1] = k + 1
  BY <1>0 DEF IsSeeded
<1>2. \A i \in DOMAIN s.log :
        /\ s.log[i].turn = 0
        /\ s.log[i].type \in {"reply", "select"}
        /\ s.log[i].type = "reply" <=> i # k + 2
  <2>1. /\ \A i \in DOMAIN s.log :
             s.log[i] = IF i <= k THEN Reply(0, i)
                        ELSE IF i = k + 1 THEN Reply(0, 1) ELSE Pick(0, 1, k + 1)
        /\ \A i \in DOMAIN s.log : i \in 1 .. k + 2
    BY <1>0 DEF IsSeeded
  <2>2. /\ \A x \in Nat : Reply(0, x).turn = 0 /\ Reply(0, x).type = "reply"
        /\ Pick(0, 1, k + 1).turn = 0 /\ Pick(0, 1, k + 1).type = "select"
    BY DEF Reply, Pick
  <2> SUFFICES ASSUME NEW i \in DOMAIN s.log
               PROVE  /\ s.log[i].turn = 0
                      /\ s.log[i].type \in {"reply", "select"}
                      /\ s.log[i].type = "reply" <=> i # k + 2
    OBVIOUS
  <2>3. CASE i <= k
    <3>1. i \in Nat /\ i # k + 2 /\ s.log[i] = Reply(0, i)
      BY <2>1, <2>3
    <3> QED
      BY <2>2, <3>1
  <2>4. CASE i = k + 1
    <3>1. s.log[i] = Reply(0, 1) /\ i # k + 2
      BY <2>1, <2>4
    <3> QED
      BY <2>2, <3>1
  <2>5. CASE i = k + 2
    <3>1. s.log[i] = Pick(0, 1, k + 1)
      BY <2>1, <2>5
    <3> QED
      BY <2>2, <2>5, <3>1
  <2> QED
    BY <2>1, <2>3, <2>4, <2>5
<1>3. Typed(s) /\ HasLast(s) /\ Ordered(s)
  BY <1>2, <1>1 DEF Typed, HasLast, Ordered
<1>4. OneReply(s)
  <2>1. k > 0 => Nodes(s, 0) = {1}
    BY <1>2, <1>1 DEF Nodes, Replies
  <2>2. \A i \in DOMAIN s.log : s.log[i].turn = 0 /\ k > 0
    BY <1>2, <1>1
  <2> QED
    BY <2>1, <2>2 DEF OneReply
<1> QED
  BY <1>3, <1>4 DEF Sound, s
-------------------------------------------------------------------------------
(* Which reading is in front.                                                *)

\* The node of a turn is its newest reply, and a selection tells the truth: it
\* names an earlier reading, and the reply right before it repeats its text.
Shown(s) ==
  \A t \in Nat :
    /\ \A p \in Nodes(s, t), i \in Replies(s, t) : i <= s.surface[p]
    /\ Picks(s, t) # {} => \E k \in Picks(s, t) : \A j \in Picks(s, t) : j <= k
    /\ \A k \in Picks(s, t) :
         /\ s.log[k].at = k - 1 /\ k - 1 \in Replies(s, t)
         /\ s.log[k].of \in Candidates(s, t)
         /\ s.log[s.log[k].of].text = s.log[k - 1].text

\* Whatever r adds to s, the readings of s are readings of r.
KeepsReadings(s, r) ==
  \A t \in Nat : \A c \in Candidates(s, t) :
    c \in Candidates(r, t) /\ r.log[c].text = s.log[c].text

\* What one more event does to the sets that are read off the log.
LEMMA GrownLog ==
  ASSUME NEW s, Typed(s), NEW e \in Event, NEW r, r.log = Append(s.log, e), NEW t
  PROVE  /\ Replies(r, t) = Replies(s, t) \cup
              (IF e.type = "reply" /\ e.turn = t THEN {Len(s.log) + 1} ELSE {})
         /\ IF e.type = "select" /\ e.turn = t
            THEN /\ Picks(r, t) = Picks(s, t) \cup {Len(s.log) + 1}
                 /\ Materialized(r, t) = Materialized(s, t) \cup {e.at}
            ELSE Picks(r, t) = Picks(s, t) /\ Materialized(r, t) = Materialized(s, t)
<1>1. s.log \in Seq(Event)
  BY DEF Typed
<1>2. /\ DOMAIN r.log = DOMAIN s.log \cup {Len(s.log) + 1} /\ Len(s.log) + 1 \notin DOMAIN s.log
      /\ \A i \in DOMAIN s.log : r.log[i] = s.log[i]
      /\ r.log[Len(s.log) + 1] = e
  BY <1>1, AppendedLog
<1>3. Replies(r, t) = Replies(s, t) \cup
        (IF e.type = "reply" /\ e.turn = t THEN {Len(s.log) + 1} ELSE {})
  BY <1>2 DEF Replies
<1>4. \A i \in Picks(s, t) : r.log[i].at = s.log[i].at
  BY <1>2 DEF Picks
<1>5. CASE e.type = "select" /\ e.turn = t
  <2>1. Picks(r, t) = Picks(s, t) \cup {Len(s.log) + 1} /\ r.log[Len(s.log) + 1].at = e.at
    BY <1>2, <1>5 DEF Picks
  <2>2. \A x : x \in Materialized(r, t) <=> x \in Materialized(s, t) \cup {e.at}
    BY <1>4, <2>1 DEF Materialized
  <2>3. Materialized(r, t) = Materialized(s, t) \cup {e.at}
    BY <2>2, Zenon
  <2> QED
    BY <1>3, <1>5, <2>1, <2>3
<1>6. CASE ~(e.type = "select" /\ e.turn = t)
  <2>1. Picks(r, t) = Picks(s, t)
    BY <1>2, <1>6 DEF Picks
  <2>2. Materialized(r, t) = Materialized(s, t)
    BY <1>4, <2>1 DEF Materialized
  <2> QED
    BY <1>3, <1>6, <2>1, <2>2
<1> QED
  BY <1>5, <1>6

\* A user line or a reply at the end of the log, put on the surface as its
\* turn's node or as a node of its own.
LEMMA AddedShown ==
  ASSUME NEW s, Typed(s), Shown(s), NEW e \in Event, e.type # "select",
         NEW r, r.log = Append(s.log, e),
         \A t \in Nat : \A p \in Nodes(r, t) :
           IF e.type = "reply" /\ e.turn = t
           THEN r.surface[p] = Len(s.log) + 1
           ELSE p \in Nodes(s, t) /\ r.surface[p] = s.surface[p]
  PROVE  Shown(r) /\ KeepsReadings(s, r)
<1> DEFINE n == Len(s.log) + 1
<1>1. /\ s.log \in Seq(Event) /\ n \in Nat
      /\ DOMAIN r.log = DOMAIN s.log \cup {n} /\ n \notin DOMAIN s.log
      /\ \A i \in DOMAIN s.log : r.log[i] = s.log[i] /\ i \in Nat /\ i <= n
      /\ r.log[n] = e
  <2>1. s.log \in Seq(Event)
    BY DEF Typed
  <2> QED
    BY <2>1, AppendedLog
<1>2. ASSUME NEW t
      PROVE  /\ Replies(r, t) = Replies(s, t) \cup (IF e.type = "reply" /\ e.turn = t THEN {n} ELSE {})
             /\ Picks(r, t) = Picks(s, t)
             /\ Candidates(s, t) \subseteq Candidates(r, t)
  <2>1. Replies(r, t) = Replies(s, t) \cup (IF e.type = "reply" /\ e.turn = t THEN {n} ELSE {})
    BY GrownLog
  <2>2. Picks(r, t) = Picks(s, t) /\ Materialized(r, t) = Materialized(s, t)
    BY GrownLog
  <2> QED
    BY <2>1, <2>2 DEF Candidates
<1> HIDE DEF n
<1>3. KeepsReadings(s, r)
  BY <1>1, <1>2 DEF KeepsReadings, Candidates, Replies
<1>4. ASSUME NEW t \in Nat
      PROVE  \A p \in Nodes(r, t), i \in Replies(r, t) : i <= r.surface[p]
  <2>1. CASE e.type = "reply" /\ e.turn = t
    BY <1>1, <1>2, <2>1 DEF Replies, n
  <2>2. CASE ~(e.type = "reply" /\ e.turn = t)
    BY <1>2, <2>2 DEF Shown
  <2> QED
    BY <2>1, <2>2
<1>5. ASSUME NEW t \in Nat, NEW k \in Picks(r, t)
      PROVE  /\ r.log[k].at = k - 1 /\ k - 1 \in Replies(r, t)
             /\ r.log[k].of \in Candidates(r, t)
             /\ r.log[r.log[k].of].text = r.log[k - 1].text
  <2>1. k \in Picks(s, t) /\ k \in DOMAIN s.log
    BY <1>2 DEF Picks
  <2>2. /\ s.log[k].at = k - 1 /\ k - 1 \in Replies(s, t)
        /\ s.log[k].of \in Candidates(s, t)
        /\ s.log[s.log[k].of].text = s.log[k - 1].text
    BY <2>1 DEF Shown
  <2>3. s.log[k].of \in DOMAIN s.log /\ k - 1 \in DOMAIN s.log
    BY <2>2 DEF Candidates, Replies
  <2> QED
    BY <1>1, <1>2, <2>1, <2>2, <2>3
<1>6. ASSUME NEW t \in Nat, Picks(r, t) # {}
      PROVE  \E k \in Picks(r, t) : \A j \in Picks(r, t) : j <= k
  BY <1>2, <1>6 DEF Shown
<1> QED
  BY <1>3, <1>4, <1>5, <1>6 DEF Shown

LEMMA SurfacedShown ==
  ASSUME NEW s, Sound(s), Shown(s), NEW e \in Event, e.type # "select",
         e.type = "reply" => Nodes(s, e.turn) = {}
  PROVE  Shown(Surfaced(s, e)) /\ KeepsReadings(s, Surfaced(s, e))
<1> DEFINE r == Surfaced(s, e)
           n == Len(s.log) + 1
           m == Len(s.surface) + 1
<1>1. /\ r.log = Append(s.log, e) /\ r.surface = Append(s.surface, n)
      /\ s.surface \in Seq(Nat) /\ s.log \in Seq(Event)
  BY DEF Surfaced, Sound, Typed
<1> HIDE DEF r
<1>2. /\ DOMAIN r.surface = DOMAIN s.surface \cup {m} /\ r.surface[m] = n
      /\ \A p \in DOMAIN s.surface : r.surface[p] = s.surface[p] /\ s.surface[p] # n
  BY <1>1 DEF Sound, Typed
<1>3. ASSUME NEW t \in Nat, NEW p \in Nodes(r, t)
      PROVE  IF e.type = "reply" /\ e.turn = t
             THEN r.surface[p] = n
             ELSE p \in Nodes(s, t) /\ r.surface[p] = s.surface[p]
  <2>1. Replies(r, t) = Replies(s, t) \cup (IF e.type = "reply" /\ e.turn = t THEN {n} ELSE {})
    BY <1>1, GrownLog DEF Sound
  <2>2. n \notin Replies(s, t)
    BY <1>1 DEF Replies
  <2>3. p \in DOMAIN s.surface => p \in Nodes(s, t)
    BY <1>2, <1>3, <2>1 DEF Nodes
  <2> QED
    BY <1>2, <1>3, <2>1, <2>2, <2>3 DEF Nodes
<1>4. Typed(s)
  BY DEF Sound
<1> QED
  BY <1>1, <1>3, <1>4, AddedShown DEF r

LEMMA ShadowingShown ==
  ASSUME NEW s, Sound(s), Shown(s), NEW e \in Event, e.type = "reply",
         NEW q \in Nodes(s, e.turn)
  PROVE  Shown(Shadowing(s, e, q)) /\ KeepsReadings(s, Shadowing(s, e, q))
<1> DEFINE r == Shadowing(s, e, q)
           n == Len(s.log) + 1
<1>1. /\ r.log = Append(s.log, e) /\ r.surface = [s.surface EXCEPT ![q] = n]
      /\ s.surface \in Seq(Nat) /\ s.log \in Seq(Event) /\ q \in DOMAIN s.surface
  BY DEF Shadowing, Sound, Typed, Nodes
<1> HIDE DEF r
<1>2. /\ DOMAIN r.surface = DOMAIN s.surface /\ r.surface[q] = n
      /\ \A p \in DOMAIN s.surface : s.surface[p] # n /\ (p # q => r.surface[p] = s.surface[p])
  BY <1>1 DEF Sound, Typed
<1>3. s.log[s.surface[q]].type = "reply" /\ s.log[s.surface[q]].turn = e.turn
      /\ s.surface[q] \in DOMAIN s.log
  BY DEF Nodes, Replies
<1>4. Nodes(s, e.turn) = {q}
  BY <1>3 DEF Sound, OneReply
<1>5. ASSUME NEW t \in Nat, NEW p \in Nodes(r, t)
      PROVE  IF e.type = "reply" /\ e.turn = t
             THEN r.surface[p] = n
             ELSE p \in Nodes(s, t) /\ r.surface[p] = s.surface[p]
  <2>1. Replies(r, t) = Replies(s, t) \cup (IF e.turn = t THEN {n} ELSE {})
    <3>1. Typed(s) /\ r.log = Append(s.log, e)
      BY <1>1 DEF Sound
    <3>2. Replies(r, t) = Replies(s, t) \cup
              (IF e.type = "reply" /\ e.turn = t THEN {Len(s.log) + 1} ELSE {})
      BY ONLY <3>1, GrownLog, e \in Event
    <3> QED
      BY ONLY <3>2, e.type = "reply"
  <2>2. n \notin Replies(s, t)
    BY <1>1 DEF Replies
  <2>3. p # q => p \in Nodes(s, t)
    BY <1>2, <1>5, <2>1 DEF Nodes
  <2>4. CASE e.turn = t
    BY <1>2, <1>4, <2>3, <2>4
  <2>5. CASE e.turn # t
    BY <1>2, <1>5, <2>1, <2>2, <2>3, <2>5 DEF Nodes
  <2> QED
    BY <2>4, <2>5
<1>6. Typed(s)
  BY DEF Sound
<1> QED
  BY <1>1, <1>5, <1>6, AddedShown DEF r

LEMMA SeededShown ==
  ASSUME NEW k \in Nat
  PROVE  Shown(Seeded(k))
<1> DEFINE s == Seeded(k)
<1>0. IsSeeded(s, k)
  BY SeededLog
<1> HIDE DEF s
<1>1. /\ k = 0 => DOMAIN s.log = {} /\ DOMAIN s.surface = {}
      /\ k = 1 => DOMAIN s.log = {1} /\ DOMAIN s.surface = {1} /\ s.surface[1] = 1
      /\ k > 1 => DOMAIN s.log = 1 .. k + 2 /\ DOMAIN s.surface = {1} /\ s.surface[1] = k + 1
  BY <1>0 DEF IsSeeded
<1>2. /\ \A i \in DOMAIN s.log : i <= k => s.log[i] = Reply(0, i)
      /\ k > 1 => s.log[k + 1] = Reply(0, 1) /\ s.log[k + 2] = Pick(0, 1, k + 1)
  BY <1>0 DEF IsSeeded
<1>3. /\ \A x : /\ Reply(0, x).type = "reply" /\ Reply(0, x).turn = 0
                /\ Reply(0, x).text = x
      /\ LET e == Pick(0, 1, k + 1)
         IN e.type = "select" /\ e.turn = 0 /\ e.of = 1 /\ e.at = k + 1
  BY DEF Reply, Pick
<1>4. ASSUME k = 0
      PROVE  Shown(s)
  <2>1. \A t \in Nat : Replies(s, t) = {} /\ Picks(s, t) = {} /\ Nodes(s, t) = {}
    BY <1>1, <1>4 DEF Nodes, Replies, Picks
  <2> QED
    BY <2>1 DEF Shown
<1>5. ASSUME k = 1
      PROVE  Shown(s)
  <2>1. s.log[1].type = "reply" /\ s.log[1].turn = 0
    BY <1>1, <1>2, <1>3, <1>5
  <2>2. \A t \in Nat : /\ Replies(s, t) \subseteq {1} /\ Picks(s, t) = {}
                       /\ \A p \in Nodes(s, t) : s.surface[p] = 1
    BY <1>1, <1>5, <2>1 DEF Nodes, Replies, Picks
  <2> QED
    BY <2>2 DEF Shown
<1>6. ASSUME k > 1
      PROVE  Shown(s)
  <2>1. /\ \A i \in 1 .. k : s.log[i].type = "reply" /\ s.log[i].turn = 0 /\ s.log[i].text = i
        /\ s.log[k + 1].type = "reply" /\ s.log[k + 1].turn = 0 /\ s.log[k + 1].text = 1
        /\ s.log[k + 2].type = "select" /\ s.log[k + 2].turn = 0
        /\ s.log[k + 2].of = 1 /\ s.log[k + 2].at = k + 1
    BY <1>1, <1>2, <1>3, <1>6
  <2>2. \A t \in Nat : t # 0 => Replies(s, t) = {} /\ Picks(s, t) = {}
    <3>1. \A i \in DOMAIN s.log : s.log[i].turn = 0
      BY <1>1, <1>6, <2>1
    <3> QED
      BY <3>1 DEF Replies, Picks
  <2>3. Replies(s, 0) = 1 .. k + 1 /\ Picks(s, 0) = {k + 2}
    BY <1>1, <1>6, <2>1 DEF Replies, Picks
  <2>4. Candidates(s, 0) = 1 .. k
    BY <1>6, <2>1, <2>3 DEF Candidates, Materialized
  <2>5. \A t \in Nat : \A p \in Nodes(s, t) : t = 0 /\ s.surface[p] = k + 1
    BY <1>1, <1>6, <2>2 DEF Nodes
  <2>6. /\ \A p \in Nodes(s, 0), i \in Replies(s, 0) : i <= s.surface[p]
        /\ k + 1 \in Replies(s, 0) /\ s.log[k + 2].of \in Candidates(s, 0)
    BY <1>6, <2>1, <2>3, <2>4, <2>5
  <2> QED
    BY <1>6, <2>1, <2>2, <2>3, <2>5, <2>6 DEF Shown
<1> QED
  BY <1>4, <1>5, <1>6 DEF s

-------------------------------------------------------------------------------
(* The invariant, and what it gives.                                         *)

SwipesInv == Sound(session) /\ Shown(session) /\ made \in Nat

LEMMA SwipesInit == Init => SwipesInv
  BY SwipesAssumption, SeededSound, SeededShown DEF Init, SwipesInv

LEMMA NewestNode ==
  ASSUME NEW s, Sound(s), NEW t, Nodes(s, t) # {}
  PROVE  Newest(Nodes(s, t)) \in Nodes(s, t)
<1>1. PICK q \in Nodes(s, t) : TRUE
  OBVIOUS
<1>2. s.surface[q] \in DOMAIN s.log /\ s.log[s.surface[q]].type = "reply"
      /\ s.log[s.surface[q]].turn = t
  BY <1>1 DEF Nodes, Replies
<1>3. PICK p \in Nodes(s, t) : Nodes(s, t) = {p}
  BY <1>2 DEF OneReply, Sound
<1>4. p \in Nat
  <2>1. s.surface \in Seq(Nat)
    BY DEF Sound, Typed
  <2> QED
    BY <2>1 DEF Nodes
<1> QED
  BY <1>3, <1>4, NewestOne

LEMMA CandidateSound ==
  ASSUME NEW s, Sound(s), Shown(s), NEW t \in Nat,
         \A i \in DOMAIN s.log : s.log[i].turn <= t, NEW x \in Nat
  PROVE  LET r == AppendCandidate(s, t, x)
         IN /\ Sound(r) /\ Shown(r) /\ KeepsReadings(s, r)
            /\ r.log = Append(s.log, Reply(t, x))
<1> DEFINE e == Reply(t, x)
<1>1. e \in Event /\ e.type = "reply" /\ e.turn = t
  BY DEF Reply, Event
<1> HIDE DEF e
<1>2. CASE Nodes(s, t) = {}
  <2>1. AppendCandidate(s, t, x) = Surfaced(s, e)
    BY <1>2 DEF AppendCandidate, e
  <2>2. Sound(Surfaced(s, e))
    BY <1>1, <1>2, SurfacedSound
  <2>3. Shown(Surfaced(s, e)) /\ KeepsReadings(s, Surfaced(s, e))
    BY <1>1, <1>2, SurfacedShown
  <2>4. Surfaced(s, e).log = Append(s.log, e)
    BY DEF Surfaced
  <2> QED
    BY <2>1, <2>2, <2>3, <2>4 DEF e
<1>3. CASE Nodes(s, t) # {}
  <2> DEFINE q == Newest(Nodes(s, t))
  <2>1. AppendCandidate(s, t, x) = Shadowing(s, e, q)
    BY <1>3 DEF AppendCandidate, e
  <2>2. q \in Nodes(s, e.turn)
    BY <1>1, <1>3, NewestNode
  <2> HIDE DEF q
  <2>3. Sound(Shadowing(s, e, q))
    BY <1>1, <2>2, ShadowingSound
  <2>4. Shown(Shadowing(s, e, q)) /\ KeepsReadings(s, Shadowing(s, e, q))
    BY <1>1, <2>2, ShadowingShown
  <2>5. Shadowing(s, e, q).log = Append(s.log, e)
    BY DEF Shadowing
  <2> QED
    BY <2>1, <2>3, <2>4, <2>5 DEF e
<1> QED
  BY <1>2, <1>3

LEMMA SelectSound ==
  ASSUME NEW s, Sound(s), NEW t, Nodes(s, t) # {}, NEW c \in Candidates(s, t)
  PROVE  Sound(Select(s, t, c))
<1>1. s.log \in Seq(Event) /\ c \in DOMAIN s.log /\ s.log[c].turn = t /\ s.log[c] \in Event
  <2>1. s.log \in Seq(Event)
    BY DEF Sound, Typed
  <2> QED
    BY <2>1 DEF Candidates, Replies
<1>2. t \in Nat /\ s.log[c].text \in Nat /\ c \in Nat
  BY <1>1 DEF Event
<1> DEFINE e == Reply(t, s.log[c].text)
           p == Newest(Nodes(s, t))
           shown == Shadowing(s, e, p)
<1>3. e \in Event /\ e.type = "reply" /\ e.turn = t
  BY <1>2 DEF Reply, Event
<1>4. p \in Nodes(s, t)
  BY NewestNode
<1> HIDE DEF e, p
<1>5. Sound(shown)
  BY <1>3, <1>4, ShadowingSound
<1>6. shown.log = Append(s.log, e)
  BY DEF Shadowing
<1>7. /\ Len(shown.log) = Len(s.log) + 1 /\ Len(shown.log) \in DOMAIN shown.log
      /\ shown.log[Len(shown.log)] = e /\ Len(shown.log) \in Nat
  BY <1>1, <1>3, <1>6, AppendedLog
<1>8. /\ Pick(t, c, Len(shown.log)) \in Event
      /\ Pick(t, c, Len(shown.log)).type = "select" /\ Pick(t, c, Len(shown.log)).turn = t
  BY <1>2, <1>7 DEF Pick, Event
<1> HIDE DEF shown
<1>9. Sound([shown EXCEPT !.log = Append(@, Pick(t, c, Len(shown.log)))])
  BY <1>3, <1>5, <1>7, <1>8, PickedSound
<1> QED
  BY <1>9 DEF Select, shown, e, p

LEMMA SelectShown ==
  ASSUME NEW s, Sound(s), Shown(s), NEW t \in Nat, Nodes(s, t) # {}, NEW c \in Candidates(s, t)
  PROVE  Shown(Select(s, t, c)) /\ KeepsReadings(s, Select(s, t, c))
<1> DEFINE e == Reply(t, s.log[c].text)
           p == Newest(Nodes(s, t))
           shown == Shadowing(s, e, p)
           n == Len(s.log) + 1
           pick == Pick(t, c, n)
           r == Select(s, t, c)
<1>1. s.log \in Seq(Event) /\ c \in DOMAIN s.log /\ s.log[c] \in Event /\ n \in Nat
  <2>1. s.log \in Seq(Event)
    BY DEF Sound, Typed
  <2> QED
    BY <2>1 DEF Candidates, Replies
<1>2. /\ e \in Event /\ e.type = "reply" /\ e.turn = t /\ e.text = s.log[c].text
      /\ pick \in Event /\ pick.type = "select" /\ pick.turn = t
      /\ pick.of = c /\ pick.at = n
  <2>1. s.log[c].text \in Nat
    BY ONLY <1>1 DEF Event
  <2>2. c \in Nat
    BY ONLY <1>1
  <2>3. e \in Event /\ e.type = "reply" /\ e.turn = t /\ e.text = s.log[c].text
    BY <2>1 DEF Reply, Event
  <2> HIDE DEF n
  <2>4. pick \in Event /\ pick.type = "select" /\ pick.turn = t /\ pick.of = c /\ pick.at = n
    BY <1>1, <2>2 DEF Pick, Event
  <2> QED
    BY <2>3, <2>4
<1>3. p \in Nodes(s, t)
  BY NewestNode
<1>4. shown.log = Append(s.log, e) /\ Len(shown.log) = n
  BY <1>1, AppendedLog DEF Shadowing
<1>5. r.log = Append(shown.log, pick) /\ r.surface = shown.surface
  BY <1>4 DEF Select
<1> HIDE DEF e, p, pick, r
<1>6. Typed(shown) /\ Shown(shown) /\ KeepsReadings(s, shown)
  BY <1>2, <1>3, ShadowingSound, ShadowingShown DEF Sound
<1> HIDE DEF shown
<1>7. /\ n \notin DOMAIN s.log /\ DOMAIN shown.log = DOMAIN s.log \cup {n}
      /\ \A i \in DOMAIN s.log : shown.log[i] = s.log[i]
      /\ shown.log[n] = e
  BY <1>1, <1>2, <1>4, AppendedLog
<1>8. /\ DOMAIN r.log = DOMAIN shown.log \cup {n + 1}
      /\ \A i \in DOMAIN shown.log : r.log[i] = shown.log[i] /\ i \in Nat /\ i <= n
      /\ r.log[n + 1] = pick
  <2>1. shown.log \in Seq(Event)
    BY <1>6 DEF Typed
  <2> QED
    BY <1>2, <1>4, <1>5, <2>1, AppendedLog
<1> HIDE DEF n
<1>9. ASSUME NEW u
      PROVE  /\ Replies(r, u) = Replies(shown, u)
             /\ Picks(r, u) = IF u = t THEN Picks(shown, u) \cup {n + 1} ELSE Picks(shown, u)
             /\ Candidates(s, u) \subseteq Candidates(r, u)
  <2>1. Replies(r, u) = Replies(shown, u)
    BY <1>2, <1>7, <1>8 DEF Replies
  <2>2. IF u = t THEN /\ Picks(r, u) = Picks(shown, u) \cup {n + 1}
                      /\ Materialized(r, u) = Materialized(shown, u) \cup {n}
                 ELSE Picks(r, u) = Picks(shown, u) /\ Materialized(r, u) = Materialized(shown, u)
    <3>1. IF pick.type = "select" /\ pick.turn = u
          THEN /\ Picks(r, u) = Picks(shown, u) \cup {Len(shown.log) + 1}
               /\ Materialized(r, u) = Materialized(shown, u) \cup {pick.at}
          ELSE Picks(r, u) = Picks(shown, u) /\ Materialized(r, u) = Materialized(shown, u)
      BY <1>2, <1>5, <1>6, GrownLog
    <3> QED
      BY <1>2, <1>4, <3>1
  <2>3. Materialized(shown, u) = Materialized(s, u) /\ Replies(s, u) \subseteq Replies(shown, u)
    <3>1. Typed(s)
      BY DEF Sound
    <3> QED
      BY <1>2, <1>4, <3>1, GrownLog
  <2>4. n \notin Candidates(s, u)
    BY <1>7 DEF Candidates, Replies
  <2> QED
    BY <2>1, <2>2, <2>3, <2>4 DEF Candidates
<1>10. KeepsReadings(s, r)
  BY <1>7, <1>8, <1>9 DEF KeepsReadings, Candidates, Replies
<1>11. ASSUME NEW u \in Nat
       PROVE  /\ \A q \in Nodes(r, u), i \in Replies(r, u) : i <= r.surface[q]
              /\ Picks(r, u) # {} => \E k \in Picks(r, u) : \A j \in Picks(r, u) : j <= k
  <2>1. Nodes(r, u) = Nodes(shown, u)
    BY <1>5, <1>9 DEF Nodes
  <2>2. CASE u = t
    <3>1. \A j \in Picks(shown, u) : j \in Nat /\ j <= n
      BY <1>8 DEF Picks
    <3>2. \A q \in Nodes(r, u), i \in Replies(r, u) : i <= r.surface[q]
      BY <1>5, <1>6, <1>9, <2>1 DEF Shown
    <3>3. n + 1 \in Picks(r, u) /\ \A j \in Picks(r, u) : j <= n + 1
      <4>1. n \in Nat
        BY <1>1 DEF n
      <4> QED
        BY <1>9, <2>2, <3>1, <4>1
    <3> QED
      BY <3>2, <3>3
  <2>3. CASE u # t
    BY <1>5, <1>6, <1>9, <2>1, <2>3 DEF Shown
  <2> QED
    BY <2>2, <2>3
<1>12. ASSUME NEW u \in Nat, NEW k \in Picks(r, u)
       PROVE  /\ r.log[k].at = k - 1 /\ k - 1 \in Replies(r, u)
              /\ r.log[k].of \in Candidates(r, u)
              /\ r.log[r.log[k].of].text = r.log[k - 1].text
  <2>1. CASE k = n + 1
    <3>1. k \notin DOMAIN shown.log
      BY <1>1, <1>8, <2>1 DEF n
    <3>2. u = t
      BY <1>9, <1>12, <3>1 DEF Picks
    <3>3. n \in Replies(shown, t)
      BY <1>2, <1>7 DEF Replies
    <3>4. k - 1 = n
      BY <1>1, <2>1 DEF n
    <3> QED
      BY <1>1, <1>2, <1>7, <1>8, <1>9, <2>1, <3>2, <3>3, <3>4
  <2>2. CASE k # n + 1
    <3>1. k \in Picks(shown, u) /\ k \in DOMAIN shown.log
      BY <1>9, <1>12, <2>2 DEF Picks
    <3>2. Picks(shown, u) = Picks(s, u)
      <4>1. Typed(s)
        BY DEF Sound
      <4> QED
        BY <1>2, <1>4, <4>1, GrownLog
    <3>3. /\ shown.log[k].at = k - 1 /\ k - 1 \in Replies(shown, u)
          /\ shown.log[shown.log[k].of].text = shown.log[k - 1].text
      BY <1>6, <3>1 DEF Shown
    <3>4. k \in DOMAIN s.log /\ s.log[k].of \in Candidates(s, u) /\ shown.log[k] = s.log[k]
      BY <1>7, <3>1, <3>2 DEF Shown, Picks
    <3>5. s.log[k].of \in DOMAIN shown.log /\ k - 1 \in DOMAIN shown.log
      BY <1>7, <3>3, <3>4 DEF Candidates, Replies
    <3> QED
      BY <1>8, <1>9, <3>1, <3>3, <3>4, <3>5
  <2> QED
    BY <2>1, <2>2
<1>13. Shown(r)
  BY <1>11, <1>12 DEF Shown
<1> QED
  BY <1>10, <1>13 DEF r

\* Every operation keeps the session well formed and loses no reading.
LEMMA OperationsSound ==
  ASSUME SwipesInv, Next
  PROVE  Sound(session') /\ Shown(session') /\ KeepsReadings(session, session') /\ made' \in Nat
<1>1. CASE OpenTurn
  <2> DEFINE e == User(LastTurn(session) + 1, made + 1)
  <2>1. /\ LastTurn(session) \in Int /\ LastTurn(session) >= -1
        /\ \A i \in DOMAIN session.log : session.log[i].turn <= LastTurn(session)
    BY LastTurnIsLast DEF SwipesInv, Sound
  <2>2. \A i \in DOMAIN session.log : session.log[i].turn \in Nat
    <3>1. session.log \in Seq(Event) /\ \A x \in Event : x.turn \in Nat
      BY DEF SwipesInv, Sound, Typed, Event
    <3> QED
      BY <3>1
  <2>3. /\ e \in Event /\ e.type = "user"
        /\ \A i \in DOMAIN session.log : session.log[i].turn <= e.turn
    BY <2>1, <2>2 DEF User, Event, SwipesInv
  <2> HIDE DEF e
  <2>4. Sound(Surfaced(session, e)) /\ Shown(Surfaced(session, e))
        /\ KeepsReadings(session, Surfaced(session, e))
    BY <2>3, SurfacedSound, SurfacedShown DEF SwipesInv
  <2> QED
    BY <1>1, <2>4 DEF OpenTurn, SwipesInv, e
<1>2. CASE Generate
  <2>1. /\ LastTurn(session) \in Nat
        /\ \A i \in DOMAIN session.log : session.log[i].turn <= LastTurn(session)
    BY <1>2, LastTurnIsLast DEF Generate, SwipesInv, Sound
  <2> QED
    BY <1>2, <2>1, CandidateSound DEF Generate, SwipesInv
<1>3. ASSUME NEW t \in 0 .. LastTurn(session), Swipe(t)
      PROVE  Sound(session') /\ Shown(session') /\ KeepsReadings(session, session')
             /\ made' \in Nat
  <2>1. t \in Nat
    BY LastTurnIsLast DEF SwipesInv, Sound
  <2>2. PICK c \in Candidates(session, t) : session' = Select(session, t, c)
    BY <1>3 DEF Swipe
  <2> QED
    BY <1>3, <2>1, <2>2, SelectSound, SelectShown DEF Swipe, SwipesInv
<1> QED
  BY <1>1, <1>2, <1>3 DEF Next

-------------------------------------------------------------------------------
(* What the recursive functions of the file compute, one step at a time.     *)

LEMMA GrowingIs ==
  ASSUME NEW s, NEW t, NEW texts \in Seq(Nat)
  PROVE  /\ Growing(s, t, texts)[0] = s
         /\ \A k \in 1 .. Len(texts) :
              Growing(s, t, texts)[k] = AppendCandidate(Growing(s, t, texts)[k - 1], t, texts[k])
<1> DEFINE Is(g, n) ==
             g = [k \in 0 .. n |-> IF k = 0 THEN s ELSE AppendCandidate(g[k - 1], t, texts[k])]
           S == {n \in Nat : \E g : Is(g, n)}
           G == Growing(s, t, texts)
<1>1. 0 \in S
  <2>1. Is([k \in 0 .. 0 |-> s], 0)
    OBVIOUS
  <2> QED
    BY <2>1
<1>2. ASSUME NEW n \in Nat, n \in S
      PROVE  n + 1 \in S
  <2>1. PICK g : Is(g, n)
    BY <1>2
  <2> DEFINE h == [k \in 0 .. n + 1 |->
                     IF k = n + 1 THEN AppendCandidate(g[n], t, texts[n + 1]) ELSE g[k]]
  <2>2. \A k \in 0 .. n + 1 : h[k] = IF k = 0 THEN s ELSE AppendCandidate(h[k - 1], t, texts[k])
    BY <2>1
  <2>3. h = [k \in 0 .. n + 1 |-> h[k]]
    OBVIOUS
  <2> HIDE DEF h
  <2>4. Is(h, n + 1)
    BY <2>2, <2>3
  <2>5. n + 1 \in Nat
    OBVIOUS
  <2> HIDE DEF Is
  <2> QED
    BY <2>4, <2>5
<1>3. Len(texts) \in S
  <2> HIDE DEF S
  <2> QED
    BY <1>1, <1>2, Induction
<1>4. Is(G, Len(texts))
  BY <1>3 DEF Growing
<1> HIDE DEF G
<1>5. G[0] = s /\ \A k \in 1 .. Len(texts) : G[k] = AppendCandidate(G[k - 1], t, texts[k])
  BY <1>4
<1> QED
  BY <1>5 DEF G

LEMMA ReadingIs ==
  ASSUME NEW lines, Len(lines) \in Nat
  PROVE  /\ Reading(lines)[0] = [s |-> EmptySession, turn |-> 0]
         /\ \A k \in 1 .. Len(lines) :
              Reading(lines)[k] = ImportLine(Reading(lines)[k - 1], lines[k])
<1> DEFINE Is(g, n) ==
             g = [k \in 0 .. n |-> IF k = 0 THEN [s |-> EmptySession, turn |-> 0]
                                   ELSE ImportLine(g[k - 1], lines[k])]
           S == {n \in Nat : \E g : Is(g, n)}
           G == Reading(lines)
<1>1. 0 \in S
  <2>1. Is([k \in 0 .. 0 |-> [s |-> EmptySession, turn |-> 0]], 0)
    OBVIOUS
  <2> QED
    BY <2>1
<1>2. ASSUME NEW n \in Nat, n \in S
      PROVE  n + 1 \in S
  <2>1. PICK g : Is(g, n)
    BY <1>2
  <2> DEFINE h == [k \in 0 .. n + 1 |->
                     IF k = n + 1 THEN ImportLine(g[n], lines[n + 1]) ELSE g[k]]
  <2>2. \A k \in 0 .. n + 1 : h[k] = IF k = 0 THEN [s |-> EmptySession, turn |-> 0]
                                     ELSE ImportLine(h[k - 1], lines[k])
    BY <2>1
  <2>3. h = [k \in 0 .. n + 1 |-> h[k]]
    OBVIOUS
  <2> HIDE DEF h
  <2>4. Is(h, n + 1)
    BY <2>2, <2>3
  <2>5. n + 1 \in Nat
    OBVIOUS
  <2> HIDE DEF Is
  <2> QED
    BY <2>4, <2>5
<1>3. Len(lines) \in S
  <2> HIDE DEF S
  <2> QED
    BY <1>1, <1>2, Induction
<1>4. Is(G, Len(lines))
  BY <1>3 DEF Reading
<1> HIDE DEF G
<1>5. /\ G[0] = [s |-> EmptySession, turn |-> 0]
      /\ \A k \in 1 .. Len(lines) : G[k] = ImportLine(G[k - 1], lines[k])
  BY <1>4
<1> QED
  BY <1>5 DEF G
-------------------------------------------------------------------------------
(* What the file says.                                                       *)

\* A line the file may hold: a user's, or a reply with its readings, one of
\* which is selected.
IsLine(l) ==
  \/ \E x \in Nat : l = FileLine(TRUE, <<x>>, 0)
  \/ \E texts \in Seq(Nat) : \E id \in 0 .. Len(texts) - 1 : l = FileLine(FALSE, texts, id)

\* The file of r is the file of s with one more line.
OneMoreLine(s, r, l) ==
  LET n == Cardinality(Heads(s))
  IN Export(r) = [k \in 1 .. n + 1 |-> IF k = n + 1 THEN l ELSE Export(s)[k]]

LEMMA HeadsTyped ==
  ASSUME NEW s, Typed(s)
  PROVE  /\ s.log \in Seq(Event) /\ Len(s.log) \in Nat
         /\ DOMAIN s.log = 1 .. Len(s.log)
         /\ \A i \in DOMAIN s.log : s.log[i] \in Event
         /\ Heads(s) \in SUBSET Nat
         /\ \A i \in Heads(s) : i <= Len(s.log) /\ i \in DOMAIN s.log
  BY DEF Typed, Heads

LEMMA ExportIs ==
  ASSUME NEW s, Typed(s)
  PROVE  /\ Cardinality(Heads(s)) \in Nat
         /\ Export(s) = [k \in 1 .. Cardinality(Heads(s)) |-> LineAt(s, InOrder(Heads(s))[k])]
<1> DEFINE H == Heads(s)
<1>1. Cardinality(H) \in Nat /\ DOMAIN InOrder(H) = 1 .. Cardinality(H)
  BY HeadsTyped, Listed
<1> QED
  BY <1>1 DEF Export

LEMMA ExportNext ==
  ASSUME NEW s, Typed(s), NEW r, NEW n \in Nat, Len(s.log) < n,
         Heads(r) = Heads(s) \cup {n},
         \A i \in Heads(s) : LineAt(r, i) = LineAt(s, i)
  PROVE  OneMoreLine(s, r, LineAt(r, n))
<1> DEFINE H == Heads(s)
           m == Cardinality(H)
<1>1. H \in SUBSET Nat /\ (\A i \in H : i < n) /\ (\A i \in H : i <= n)
  BY HeadsTyped
<1>2. /\ Cardinality(H \cup {n}) = m + 1
      /\ InOrder(H \cup {n})[m + 1] = n
      /\ \A k \in 1 .. m : InOrder(H \cup {n})[k] = InOrder(H)[k]
  <2> HIDE DEF H
  <2> QED
    BY <1>1, ListedNext
<1>3. /\ m \in Nat /\ DOMAIN InOrder(H \cup {n}) = 1 .. m + 1
      /\ \A k \in 1 .. m : InOrder(H)[k] \in H
  <2> HIDE DEF H
  <2>1. DOMAIN InOrder(H \cup {n}) = 1 .. m + 1
    BY <1>2 DEF InOrder
  <2> QED
    BY <1>1, <2>1, Listed
<1>4. Export(s) = [k \in 1 .. m |-> LineAt(s, InOrder(H)[k])]
  BY ExportIs
<1>5. Export(r) = [k \in 1 .. m + 1 |-> LineAt(r, InOrder(H \cup {n})[k])]
  BY <1>3 DEF Export
<1> HIDE DEF H, m
<1>6. ASSUME NEW k \in 1 .. m + 1
      PROVE  LineAt(r, InOrder(H \cup {n})[k])
               = IF k = m + 1 THEN LineAt(r, n) ELSE Export(s)[k]
  <2>1. CASE k = m + 1
    BY <1>2, <2>1
  <2>2. CASE k # m + 1
    <3>1. k \in 1 .. m
      BY <1>3, <2>2
    <3>2. LineAt(r, InOrder(H)[k]) = LineAt(s, InOrder(H)[k])
      BY <1>3, <3>1 DEF H
    <3> QED
      BY <1>2, <1>4, <2>2, <3>1, <3>2
  <2> QED
    BY <2>1, <2>2
<1> QED
  BY <1>5, <1>6 DEF OneMoreLine, H, m

\* A line is written from the events of its turn only.
LEMMA SameLine ==
  ASSUME NEW s, NEW r, NEW i, r.log[i] = s.log[i],
         r.log[i].type # "user" =>
           LET t == r.log[i].turn
           IN /\ Candidates(r, t) = Candidates(s, t) /\ Picks(r, t) = Picks(s, t)
              /\ \A j \in Picks(s, t) : r.log[j] = s.log[j]
              /\ \A j \in Candidates(s, t) : r.log[j] = s.log[j]
              /\ Picks(s, t) # {} => Newest(Picks(s, t)) \in Picks(s, t)
              /\ Candidates(s, t) \in SUBSET Nat
              /\ \E n \in Nat : \A j \in Candidates(s, t) : j <= n
  PROVE  LineAt(r, i) = LineAt(s, i)
<1>1. CASE r.log[i].type = "user"
  BY <1>1 DEF LineAt
<1>2. CASE r.log[i].type # "user"
  <2> DEFINE t == r.log[i].turn
             C == Candidates(s, t)
             ids == InOrder(C)
  <2>1. Selected(r, t) = Selected(s, t)
    BY <1>2 DEF Selected
  <2>2. SwipeId(r, t) = SwipeId(s, t)
    BY <1>2, <2>1 DEF SwipeId
  <2>3. \A k \in DOMAIN ids : r.log[ids[k]] = s.log[ids[k]]
    <3>1. \A k \in DOMAIN ids : ids[k] \in C
      <4> HIDE DEF t
      <4>1. PICK n \in Nat : \A j \in C : j <= n
        BY <1>2 DEF t
      <4>2. C \in SUBSET Nat
        BY <1>2 DEF t
      <4> HIDE DEF C
      <4>3. DOMAIN ids = 1 .. Cardinality(C)
        BY DEF InOrder
      <4> QED
        BY <4>1, <4>2, <4>3, Listed
    <3> QED
      BY <1>2, <3>1
  <2>4. [k \in DOMAIN ids |-> r.log[ids[k]].text] = [k \in DOMAIN ids |-> s.log[ids[k]].text]
    BY <2>3
  <2>5. Candidates(r, t) = C
    BY <1>2
  <2>6. LineAt(r, i) = FileLine(FALSE, [k \in DOMAIN ids |-> r.log[ids[k]].text], SwipeId(r, t))
    <3> HIDE DEF ids
    <3> QED
      BY <1>2, <2>5 DEF LineAt, ids
  <2>7. LineAt(s, i) = FileLine(FALSE, [k \in DOMAIN ids |-> s.log[ids[k]].text], SwipeId(s, t))
    <3> HIDE DEF ids
    <3> QED
      BY <1>2 DEF LineAt, ids
  <2> QED
    BY <2>2, <2>4, <2>6, <2>7
<1> QED
  BY <1>1, <1>2
-------------------------------------------------------------------------------
(* One line more in the file.                                                *)

\* Positions up to a, then m more, then two.
LEMMA Ranges ==
  ASSUME NEW a \in Nat, NEW m \in Nat
  PROVE  1 .. a + m + 2 = (1 .. a) \cup (a + 1 .. a + m) \cup {a + m + 1, a + m + 2}
  OBVIOUS

\* Turn t has no reply yet, and no later turn has begun.
Fresh(s, t) ==
  \A i \in DOMAIN s.log : s.log[i].turn <= t /\ (s.log[i].type # "user" => s.log[i].turn < t)

LEMMA OldLines ==
  ASSUME NEW s, Typed(s), NEW r, r.log \in Seq(Event), Len(s.log) <= Len(r.log),
         \A i \in DOMAIN s.log : r.log[i] = s.log[i],
         NEW i \in DOMAIN s.log,
         s.log[i].type # "user" =>
           \A j \in Len(s.log) + 1 .. Len(r.log) :
             r.log[j].turn = s.log[i].turn => r.log[j].type = "user"
  PROVE  LineAt(r, i) = LineAt(s, i)
<1> DEFINE t == s.log[i].turn
<1>1. DOMAIN s.log = 1 .. Len(s.log) /\ Len(s.log) \in Nat
  BY HeadsTyped
<1>2. DOMAIN r.log = 1 .. Len(r.log) /\ Len(r.log) \in Nat
  OBVIOUS
<1>3. CASE s.log[i].type = "user"
  <2>1. r.log[i] = s.log[i]
    OBVIOUS
  <2> QED
    BY ONLY <1>3, <2>1, SameLine
<1>4. CASE s.log[i].type # "user"
  <2>1. \A j \in DOMAIN r.log : j \in DOMAIN s.log \/ r.log[j].turn # t \/ r.log[j].type = "user"
    BY <1>1, <1>2, <1>4
  <2>2. DOMAIN s.log \subseteq DOMAIN r.log
    BY <1>1, <1>2
  <2>3. Replies(r, t) = Replies(s, t)
    BY <2>1, <2>2 DEF Replies
  <2>4. Picks(r, t) = Picks(s, t)
    BY <2>1, <2>2 DEF Picks
  <2>5. Picks(s, t) \subseteq DOMAIN s.log /\ Replies(s, t) \subseteq DOMAIN s.log
    BY DEF Picks, Replies
  <2>6. Materialized(r, t) = Materialized(s, t)
    BY <2>4, <2>5 DEF Materialized
  <2>7. Candidates(r, t) = Candidates(s, t) /\ Candidates(s, t) \subseteq DOMAIN s.log
    BY <2>3, <2>5, <2>6 DEF Candidates
  <2>8. Picks(s, t) # {} => Newest(Picks(s, t)) \in Picks(s, t)
    <3>1. Picks(s, t) \in SUBSET Nat /\ \A j \in Picks(s, t) : j <= Len(s.log)
      BY <1>1, <2>5
    <3>2. Picks(s, t) # {} => \E j \in Picks(s, t) : \A k \in Picks(s, t) : k <= j
      BY <1>1, <3>1, Highest
    <3> QED
      BY <3>2 DEF Newest
  <2>9. Candidates(s, t) \in SUBSET Nat /\ \E n \in Nat : \A j \in Candidates(s, t) : j <= n
    BY <1>1, <2>7
  <2>10. r.log[i] = s.log[i] /\ r.log[i].turn = t
    OBVIOUS
  <2> HIDE DEF t
  <2> QED
    BY <2>4, <2>5, <2>7, <2>8, <2>9, <2>10, SameLine
<1> QED
  BY <1>3, <1>4

LEMMA UserExported ==
  ASSUME NEW s, Typed(s), NEW t \in Nat, NEW x \in Nat,
         NEW r, r.log = Append(s.log, User(t, x))
  PROVE  /\ Heads(r) = Heads(s) \cup {Len(s.log) + 1}
         /\ OneMoreLine(s, r, FileLine(TRUE, <<x>>, 0))
<1> DEFINE e == User(t, x)
           n == Len(s.log) + 1
<1>1. e \in Event /\ e.type = "user" /\ e.text = x
  BY DEF User, Event
<1>2. s.log \in Seq(Event) /\ r.log = Append(s.log, e)
  BY HeadsTyped
<1>3. /\ r.log \in Seq(Event) /\ Len(r.log) = n /\ n \in Nat
      /\ DOMAIN r.log = DOMAIN s.log \cup {n} /\ n \notin DOMAIN s.log
      /\ \A i \in DOMAIN s.log : r.log[i] = s.log[i]
      /\ r.log[n] = e
  <2> HIDE DEF e
  <2> QED
    BY <1>1, <1>2, AppendedLog
<1>4. \A u : Replies(r, u) = Replies(s, u)
  BY <1>1, <1>3 DEF Replies
<1>5. Heads(r) = Heads(s) \cup {n}
  <2> HIDE DEF e, n
  <2> QED
    BY <1>1, <1>3, <1>4 DEF Heads
<1>6. ASSUME NEW i \in Heads(s)
      PROVE  LineAt(r, i) = LineAt(s, i)
  <2>1. i \in DOMAIN s.log
    BY HeadsTyped
  <2>2. \A j \in Len(s.log) + 1 .. Len(r.log) : r.log[j].type = "user"
    BY <1>1, <1>3
  <2>3. Len(s.log) <= Len(r.log)
    BY <1>3
  <2> QED
    BY <1>3, <2>1, <2>2, <2>3, OldLines
<1>7. LineAt(r, n) = FileLine(TRUE, <<x>>, 0)
  BY <1>1, <1>3 DEF LineAt
<1>8. n \in Nat /\ Len(s.log) < n
  BY HeadsTyped
<1> HIDE DEF n
<1>9. OneMoreLine(s, r, LineAt(r, n))
  BY <1>5, <1>6, <1>8, ExportNext
<1> QED
  BY <1>5, <1>7, <1>9 DEF n

\* r is s and one reply line of turn t: its readings, and the selection of one
\* that is not the last.
Replied(s, r, t, texts, id) ==
  LET n == Len(s.log) + Len(texts)
  IN /\ r.log \in Seq(Event)
     /\ \A i \in DOMAIN s.log : r.log[i] = s.log[i]
     /\ \A k \in 1 .. Len(texts) : r.log[Len(s.log) + k] = Reply(t, texts[k])
     /\ \/ Len(r.log) = n /\ id = Len(texts) - 1
        \/ /\ Len(r.log) = n + 2
           /\ r.log[n + 1].type = "reply" /\ r.log[n + 1].turn = t
           /\ r.log[n + 2] = Pick(t, Len(s.log) + id + 1, n + 1)

\* What is read off the log of such an r; a events came before, m are readings.
ReadBack(s, r, t, a, m, id) ==
  /\ a \in Nat /\ m \in Nat /\ m >= 1 /\ DOMAIN s.log = 1 .. a
  /\ DOMAIN r.log = 1 .. Len(r.log) /\ Len(r.log) \in Nat
  /\ id \in Nat /\ id < m
  /\ \A k \in a + 1 .. a + m : r.log[k].type = "reply" /\ r.log[k].turn = t
  /\ \A i \in DOMAIN s.log : /\ r.log[i] = s.log[i]
                            /\ r.log[i].type # "user" => r.log[i].turn # t
  /\ Replies(r, t) \subseteq (a + 1 .. a + m) \cup {a + m + 1}
  /\ a + 1 .. a + m \subseteq Replies(r, t)
  /\ Candidates(r, t) = a + 1 .. a + m
  /\ Selected(r, t) = a + id + 1

\* The readings of a line are the candidates of its turn, the chosen one selected.
LEMMA ReplyReadings ==
  ASSUME NEW s, Typed(s), NEW t \in Nat, Fresh(s, t),
         NEW texts \in Seq(Nat), NEW id \in 0 .. Len(texts) - 1,
         NEW r, Replied(s, r, t, texts, id)
  PROVE  ReadBack(s, r, t, Len(s.log), Len(texts), id)
<1> DEFINE a == Len(s.log)
           m == Len(texts)
           n == a + m
           C == a + 1 .. a + m
<1> USE DEF Replied
<1>1. /\ a \in Nat /\ m \in Nat /\ m >= 1 /\ DOMAIN s.log = 1 .. a
      /\ DOMAIN r.log = 1 .. Len(r.log) /\ Len(r.log) \in Nat
      /\ id \in Nat /\ id < m
  BY HeadsTyped
<1>2. \A k \in C : r.log[k].type = "reply" /\ r.log[k].turn = t
  <2>1. \A k \in C : k - a \in 1 .. m /\ a + (k - a) = k
    <3> HIDE DEF a, m
    <3> QED
      BY ONLY <1>1
  <2>2. \A k \in C : r.log[k] = Reply(t, texts[k - a])
    <3> HIDE DEF C
    <3> QED
      BY <2>1
  <2>3. \A x : Reply(t, x).type = "reply" /\ Reply(t, x).turn = t
    BY ONLY DEF Reply
  <2> HIDE DEF C
  <2> QED
    BY ONLY <2>2, <2>3
<1>3. \A i \in DOMAIN s.log : /\ r.log[i] = s.log[i]
                              /\ r.log[i].type # "user" => r.log[i].turn # t
  <2>1. \A i \in DOMAIN s.log : s.log[i].turn \in Nat
    BY HeadsTyped DEF Event
  <2> QED
    BY <2>1 DEF Fresh
<1>4. /\ Replies(r, t) \subseteq C \cup {n + 1} /\ C \subseteq Replies(r, t)
      /\ Candidates(r, t) = C
      /\ Selected(r, t) = a + id + 1
  <2>1. CASE Len(r.log) = n /\ id = m - 1
    <3>1. DOMAIN r.log = DOMAIN s.log \cup C
      BY <1>1, <2>1
    <3>2. Replies(r, t) = C
      BY <1>2, <1>3, <3>1 DEF Replies
    <3>3. Picks(r, t) = {}
      BY <1>2, <1>3, <3>1 DEF Picks
    <3>4. Candidates(r, t) = C
      BY <3>2, <3>3 DEF Candidates, Materialized
    <3>5. Newest(C) = n
      <4>1. n \in C /\ \A i \in C : i <= n /\ i \in Nat
        BY <1>1
      <4> QED
        BY <4>1 DEF Newest
    <3>6. Selected(r, t) = n
      BY <3>3, <3>4, <3>5 DEF Selected
    <3> QED
      BY <1>1, <2>1, <3>2, <3>4, <3>6
  <2>2. CASE /\ Len(r.log) = n + 2
             /\ r.log[n + 1].type = "reply" /\ r.log[n + 1].turn = t
             /\ r.log[n + 2] = Pick(t, a + id + 1, n + 1)
    <3>1. DOMAIN r.log = DOMAIN s.log \cup C \cup {n + 1, n + 2}
      <4>1. Len(r.log) = n + 2 /\ DOMAIN r.log = 1 .. Len(r.log)
        BY <1>1, <2>2
      <4> HIDE DEF a, m
      <4> QED
        BY ONLY <1>1, <4>1, Ranges
    <3>2. /\ r.log[n + 2].type = "select" /\ r.log[n + 2].turn = t
          /\ r.log[n + 2].of = a + id + 1 /\ r.log[n + 2].at = n + 1
      BY <2>2 DEF Pick
    <3>3. Replies(r, t) = C \cup {n + 1}
      BY <1>2, <1>3, <2>2, <3>1, <3>2 DEF Replies
    <3>4. Picks(r, t) = {n + 2}
      BY <1>2, <1>3, <2>2, <3>1, <3>2 DEF Picks
    <3>5. n + 1 \notin C /\ a + id + 1 \in C
      BY <1>1
    <3>6. Candidates(r, t) = C
      <4> HIDE DEF C, n
      <4> QED
        BY <3>2, <3>3, <3>4, <3>5 DEF Candidates, Materialized
    <3>7. Newest(Picks(r, t)) = n + 2
      BY <1>1, <3>4, NewestOne
    <3>8. Selected(r, t) = a + id + 1
      <4> HIDE DEF C, n
      <4> QED
        BY <3>2, <3>4, <3>5, <3>6, <3>7 DEF Selected
    <3> QED
      BY <3>3, <3>6, <3>8
  <2> QED
    BY <2>1, <2>2
<1> HIDE DEF Replied, a, m
<1>5. C = a + 1 .. a + m /\ n + 1 = a + m + 1
  OBVIOUS
<1> HIDE DEF C, n
<1>6. ReadBack(s, r, t, a, m, id)
  BY ONLY <1>1, <1>2, <1>3, <1>4, <1>5 DEF ReadBack
<1> QED
  BY ONLY <1>6 DEF a, m

LEMMA ReplyExported ==
  ASSUME NEW s, Typed(s), NEW t \in Nat, Fresh(s, t),
         NEW texts \in Seq(Nat), NEW id \in 0 .. Len(texts) - 1,
         NEW r, Replied(s, r, t, texts, id)
  PROVE  /\ Heads(r) = Heads(s) \cup {Len(s.log) + 1}
         /\ OneMoreLine(s, r, FileLine(FALSE, texts, id))
<1> DEFINE a == Len(s.log)
           m == Len(texts)
           n == a + m
           C == a + 1 .. a + m
<1>0. ReadBack(s, r, t, a, m, id)
  BY ReplyReadings
<1> USE DEF Replied
<1>1. /\ a \in Nat /\ m \in Nat /\ m >= 1 /\ DOMAIN s.log = 1 .. a
      /\ DOMAIN r.log = 1 .. Len(r.log) /\ Len(r.log) \in Nat
      /\ id \in Nat /\ id < m
  BY <1>0 DEF ReadBack
<1>2. \A k \in C : r.log[k].type = "reply" /\ r.log[k].turn = t
  BY <1>0 DEF ReadBack
<1>3. \A i \in DOMAIN s.log : /\ r.log[i] = s.log[i]
                              /\ r.log[i].type # "user" => r.log[i].turn # t
  BY <1>0 DEF ReadBack
<1>4. /\ Replies(r, t) \subseteq C \cup {n + 1} /\ C \subseteq Replies(r, t)
      /\ Candidates(r, t) = C
      /\ Selected(r, t) = a + id + 1
  BY <1>0 DEF ReadBack
<1>5. \A i \in DOMAIN r.log : i > a => r.log[i].turn = t /\ r.log[i].type # "user"
  <2>1. \A i \in DOMAIN r.log : i > a => i \in C \/ i = n + 1 \/ i = n + 2
    <3>1. Len(r.log) = n \/ Len(r.log) = n + 2
      OBVIOUS
    <3> SUFFICES ASSUME NEW i \in DOMAIN r.log, i > a
                 PROVE  i \in C \/ i = n + 1 \/ i = n + 2
      OBVIOUS
    <3>2. i \in Nat /\ i <= Len(r.log)
      BY <1>1
    <3> HIDE DEF a, m
    <3>3. i \in Nat /\ a \in Nat /\ m \in Nat /\ n \in Nat /\ a < i /\ i <= n + 2
      BY <1>1, <3>1, <3>2
    <3>4. i <= n => i \in C
      BY ONLY <3>3
    <3> HIDE DEF n, C
    <3>5. i <= n \/ i = n + 1 \/ i = n + 2
      <4>1. i \in Nat /\ n \in Nat /\ i <= n + 2
        BY ONLY <3>3
      <4> QED
        BY ONLY <4>1
    <3> QED
      BY ONLY <3>4, <3>5
  <2>2. Len(r.log) = n \/ /\ r.log[n + 1].type = "reply" /\ r.log[n + 1].turn = t
                          /\ r.log[n + 2].type = "select" /\ r.log[n + 2].turn = t
    <3>1. \/ Len(r.log) = n
          \/ /\ r.log[n + 1].type = "reply" /\ r.log[n + 1].turn = t
             /\ r.log[n + 2] = Pick(t, a + id + 1, n + 1)
      OBVIOUS
    <3>2. \A x, y : Pick(t, x, y).type = "select" /\ Pick(t, x, y).turn = t
      BY ONLY DEF Pick
    <3> HIDE DEF n, a
    <3> QED
      BY ONLY <3>1, <3>2
  <2>3. \A i \in DOMAIN r.log : Len(r.log) = n => i # n + 1 /\ i # n + 2
    <3>1. \A i \in DOMAIN r.log : i \in Nat /\ i <= Len(r.log)
      BY <1>1
    <3>2. n \in Nat
      BY <1>1
    <3> HIDE DEF n
    <3> QED
      BY ONLY <3>1, <3>2
  <2> HIDE DEF C, n
  <2> QED
    BY <1>2, <2>1, <2>2, <2>3
<1>6. a <= Len(r.log) /\ DOMAIN s.log \subseteq DOMAIN r.log
  <2>1. Len(r.log) = n \/ Len(r.log) = n + 2
    OBVIOUS
  <2>2. a <= Len(r.log)
    <3> HIDE DEF a, m
    <3> QED
      BY ONLY <1>1, <2>1
  <2> HIDE DEF a
  <2> QED
    BY ONLY <1>1, <2>2
<1>7. Heads(r) = Heads(s) \cup {a + 1}
  <2>1. \A u : u # t => Replies(r, u) = Replies(s, u)
    <3> SUFFICES ASSUME NEW u, u # t PROVE Replies(r, u) = Replies(s, u)
      OBVIOUS
    <3>1. \A i \in DOMAIN r.log : i \in DOMAIN s.log \/ i > a
      <4> HIDE DEF a
      <4> QED
        BY ONLY <1>1
    <3> HIDE DEF a, n
    <3> QED
      BY ONLY <1>3, <1>5, <1>6, <3>1, u # t DEF Replies
  <2>2. a + 1 \in C /\ \A j \in C \cup {n + 1} : a + 1 <= j /\ (j # a + 1 => ~(j <= a + 1))
    <3> HIDE DEF a, m
    <3>1. a + 1 \in C /\ \A j \in C : j \in Nat /\ a + 1 <= j
      BY ONLY <1>1
    <3>2. n + 1 \in Nat /\ a + 1 <= n + 1 /\ a + 1 \in Nat
      BY ONLY <1>1
    <3>3. \A j \in Nat : a + 1 <= j /\ j # a + 1 => ~(j <= a + 1)
      BY ONLY <3>2
    <3> HIDE DEF C, n
    <3> QED
      BY ONLY <3>1, <3>2, <3>3
  <2>3. \A j \in Replies(r, t) : a + 1 <= j /\ (j # a + 1 => ~(j <= a + 1))
    <3> HIDE DEF C, n, a
    <3> QED
      BY ONLY <1>4, <2>2
  <2>4. a + 1 \in Heads(r)
    BY <1>2, <1>4, <2>2, <2>3 DEF Heads, Replies
  <2>5. ASSUME NEW i \in DOMAIN s.log
        PROVE  i \in Heads(r) <=> i \in Heads(s)
    <3>1. i \in DOMAIN r.log
      BY <1>6
    <3> QED
      BY <1>3, <2>1, <2>5, <3>1 DEF Heads
  <2>6. ASSUME NEW i \in DOMAIN r.log, i \notin DOMAIN s.log, i \in Heads(r)
        PROVE  i = a + 1
    <3>1. i > a
      BY <1>1, <2>6
    <3>2. r.log[i].type = "reply" /\ r.log[i].turn = t
      BY <1>5, <2>6, <3>1 DEF Heads
    <3>3. i \in Replies(r, t) /\ a + 1 \in Replies(r, t)
      BY <1>4, <2>2, <3>2 DEF Replies
    <3>4. i <= a + 1
      BY <2>6, <3>2, <3>3 DEF Heads
    <3> QED
      BY <2>3, <3>3, <3>4
  <2>7. Heads(r) \subseteq DOMAIN r.log /\ Heads(s) \subseteq DOMAIN s.log
    BY DEF Heads
  <2> HIDE DEF a
  <2> QED
    BY <2>4, <2>5, <2>6, <2>7
<1>8. ASSUME NEW i \in Heads(s)
      PROVE  LineAt(r, i) = LineAt(s, i)
  <2>1. i \in DOMAIN s.log
    BY HeadsTyped
  <2>2. s.log[i].type # "user" =>
          \A j \in Len(s.log) + 1 .. Len(r.log) : r.log[j].turn # s.log[i].turn
    <3>1. \A j \in Len(s.log) + 1 .. Len(r.log) : j \in DOMAIN r.log /\ j > a
      BY <1>1
    <3> QED
      BY <1>3, <1>5, <2>1, <3>1
  <2>3. Len(s.log) <= Len(r.log)
    BY <1>1
  <2> QED
    BY <1>3, <2>1, <2>2, <2>3, OldLines
<1>9. LineAt(r, a + 1) = FileLine(FALSE, texts, id)
  <2> DEFINE ids == InOrder(C)
  <2>1. Cardinality(C) = m /\ \A k \in 1 .. m : ids[k] = a + k
    BY <1>1, ListedInterval
  <2>2. DOMAIN ids = 1 .. m
    BY <2>1 DEF InOrder
  <2>3. \A k \in 1 .. m : r.log[ids[k]].text = texts[k]
    <3>1. \A k \in 1 .. m : r.log[a + k] = Reply(t, texts[k])
      OBVIOUS
    <3>2. \A x : Reply(t, x).text = x
      BY ONLY DEF Reply
    <3> HIDE DEF ids, a, m
    <3> QED
      BY ONLY <2>1, <3>1, <3>2
  <2>4. texts = [k \in 1 .. m |-> texts[k]]
    OBVIOUS
  <2>5. SwipeId(r, t) = id
    <3>1. {i \in C : i < a + id + 1} = a + 1 .. a + id
      BY <1>1
    <3>2. Cardinality(a + 1 .. a + id) = id
      BY <1>1, ListedInterval
    <3> HIDE DEF C
    <3> QED
      BY <1>4, <3>1, <3>2 DEF SwipeId
  <2>6. r.log[a + 1].type # "user" /\ r.log[a + 1].turn = t
    <3>1. a + 1 \in C
      <4> HIDE DEF a, m
      <4> QED
        BY ONLY <1>1
    <3> HIDE DEF C
    <3> QED
      BY ONLY <1>2, <3>1
  <2> HIDE DEF ids
  <2>7. LineAt(r, a + 1) = FileLine(FALSE, [k \in DOMAIN ids |-> r.log[ids[k]].text], id)
    <3> HIDE DEF C
    <3> QED
      BY <1>4, <2>5, <2>6 DEF LineAt, ids
  <2> QED
    BY <2>2, <2>3, <2>4, <2>7
<1>10. a + 1 \in Nat /\ Len(s.log) < a + 1
  BY <1>1
<1>11. OneMoreLine(s, r, LineAt(r, a + 1))
  BY <1>7, <1>8, <1>10, ExportNext
<1> QED
  BY <1>7, <1>9, <1>11
-------------------------------------------------------------------------------
(* Which turn a line of the file is.                                         *)

\* A turn begins after the turns before it, with its user lines.
Opened(s) ==
  \A i \in Heads(s) : \A j \in DOMAIN s.log :
    j < i => /\ s.log[j].turn <= s.log[i].turn
             /\ s.log[i].type = "user" /\ s.log[j].turn = s.log[i].turn => s.log[j].type = "user"

LEMMA OpenedNext ==
  ASSUME NEW s, Typed(s), Opened(s), NEW r, r.log \in Seq(Event),
         Len(s.log) <= Len(r.log), \A i \in DOMAIN s.log : r.log[i] = s.log[i],
         NEW n, n = Len(s.log) + 1, Heads(r) \subseteq Heads(s) \cup {n},
         n \in Heads(r) =>
           \A j \in DOMAIN s.log :
             /\ s.log[j].turn <= r.log[n].turn
             /\ r.log[n].type = "user" /\ s.log[j].turn = r.log[n].turn => s.log[j].type = "user"
  PROVE  Opened(r)
<1>1. /\ DOMAIN s.log = 1 .. Len(s.log) /\ Len(s.log) \in Nat
      /\ DOMAIN r.log = 1 .. Len(r.log) /\ Len(r.log) \in Nat
      /\ \A i \in Heads(s) : i \in DOMAIN s.log
  BY HeadsTyped
<1>2. ASSUME NEW i \in Heads(r), NEW j \in DOMAIN r.log, j < i
      PROVE  /\ r.log[j].turn <= r.log[i].turn
             /\ r.log[i].type = "user" /\ r.log[j].turn = r.log[i].turn => r.log[j].type = "user"
  <2>1. i \in Heads(s) \/ i = n
    OBVIOUS
  <2>2. j \in DOMAIN s.log
    BY <1>1, <1>2, <2>1
  <2>3. CASE i \in Heads(s)
    BY <1>1, <1>2, <2>2, <2>3 DEF Opened
  <2>4. CASE i = n
    BY <1>2, <2>2, <2>4
  <2> QED
    BY <2>1, <2>3, <2>4
<1> QED
  BY <1>2 DEF Opened

\* Where a head is, once the log has one more event.
LEMMA HeadsNext ==
  ASSUME NEW s, Typed(s), NEW e \in Event, NEW r, r.log = Append(s.log, e)
  PROVE  LET n == Len(s.log) + 1
         IN Heads(r) = Heads(s) \cup
              (IF e.type = "user" \/ (e.type = "reply" /\ Replies(s, e.turn) = {})
               THEN {n} ELSE {})
<1> DEFINE n == Len(s.log) + 1
<1>1. s.log \in Seq(Event) /\ DOMAIN s.log = 1 .. Len(s.log) /\ Len(s.log) \in Nat
  BY HeadsTyped
<1>2. /\ DOMAIN r.log = DOMAIN s.log \cup {n} /\ n \notin DOMAIN s.log
      /\ \A i \in DOMAIN s.log : r.log[i] = s.log[i] /\ i < n /\ i <= n /\ ~(n <= i)
      /\ r.log[n] = e /\ n <= n
  <2>1. /\ DOMAIN r.log = DOMAIN s.log \cup {n} /\ n \notin DOMAIN s.log
        /\ \A i \in DOMAIN s.log : r.log[i] = s.log[i]
        /\ r.log[n] = e
    BY <1>1, AppendedLog
  <2> QED
    BY <1>1, <2>1
<1> HIDE DEF n
<1>3. \A u : Replies(r, u) = Replies(s, u) \cup (IF e.type = "reply" /\ e.turn = u THEN {n} ELSE {})
  BY <1>2 DEF Replies
<1>4. \A u : Replies(s, u) \subseteq DOMAIN s.log
  BY DEF Replies
<1>5. \A i \in DOMAIN s.log : i \in Heads(r) <=> i \in Heads(s)
  BY <1>2, <1>3 DEF Heads
<1>6. n \in Heads(r) <=> e.type = "user" \/ (e.type = "reply" /\ Replies(s, e.turn) = {})
  <2>1. CASE e.type = "reply"
    <3>1. Replies(r, e.turn) = Replies(s, e.turn) \cup {n}
      BY <1>3, <2>1
    <3>2. n \in Heads(r) <=> \A j \in Replies(s, e.turn) \cup {n} : n <= j
      BY <1>2, <2>1, <3>1 DEF Heads
    <3>3. \A j \in Replies(s, e.turn) : ~(n <= j)
      BY <1>2, <1>4
    <3> QED
      BY <1>2, <2>1, <3>2, <3>3
  <2>2. CASE e.type # "reply"
    BY <1>2, <2>2 DEF Heads
  <2> QED
    BY <2>1, <2>2
<1>7. Heads(r) \subseteq DOMAIN r.log /\ Heads(s) \subseteq DOMAIN s.log
  BY DEF Heads
<1> QED
  BY <1>2, <1>5, <1>6, <1>7 DEF n
-------------------------------------------------------------------------------
(* Reading a line back.                                                      *)

LEMMA SelectLog ==
  ASSUME NEW s, Typed(s), NEW t \in Nat, NEW c \in Candidates(s, t)
  PROVE  LET r == Select(s, t, c)
             n == Len(s.log) + 1
         IN /\ r.log \in Seq(Event) /\ Len(r.log) = Len(s.log) + 2
            /\ \A i \in DOMAIN s.log : r.log[i] = s.log[i]
            /\ r.log[n] = Reply(t, s.log[c].text) /\ r.log[n + 1] = Pick(t, c, n)
<1> DEFINE e == Reply(t, s.log[c].text)
           shown == Shadowing(s, e, Newest(Nodes(s, t)))
           n == Len(s.log) + 1
           pick == Pick(t, c, n)
           r == Select(s, t, c)
<1>1. s.log \in Seq(Event) /\ c \in DOMAIN s.log /\ s.log[c] \in Event /\ n \in Nat /\ c \in Nat
  <2>1. c \in DOMAIN s.log
    BY DEF Candidates, Replies
  <2> QED
    BY <2>1, HeadsTyped
<1>2. e \in Event
  BY <1>1 DEF Reply, Event
<1>3. pick \in Event
  <2> HIDE DEF n
  <2> QED
    BY <1>1 DEF Pick, Event
<1> HIDE DEF e
<1>4. shown.log = Append(s.log, e)
  BY DEF Shadowing
<1>5. shown.log \in Seq(Event) /\ Len(shown.log) = n
  BY <1>1, <1>2, <1>4, AppendedLog
<1>6. r.log = Append(shown.log, pick)
  BY <1>5 DEF Select, e
<1> HIDE DEF r, shown, pick
<1>7. /\ r.log \in Seq(Event) /\ Len(r.log) = n + 1
      /\ \A i \in DOMAIN shown.log : r.log[i] = shown.log[i]
      /\ r.log[n + 1] = pick
  BY <1>3, <1>5, <1>6, AppendedLog
<1>8. /\ DOMAIN shown.log = DOMAIN s.log \cup {n}
      /\ \A i \in DOMAIN s.log : shown.log[i] = s.log[i]
      /\ shown.log[n] = e
  BY <1>1, <1>2, <1>4, AppendedLog
<1>9. Len(r.log) = Len(s.log) + 2
  BY <1>7, HeadsTyped
<1> QED
  BY <1>7, <1>8, <1>9 DEF r, pick, e

\* The readings of a line follow one another in the log, and the turn has them.
LEMMA GrowingReads ==
  ASSUME NEW s, Sound(s), Shown(s), NEW t \in Nat, Fresh(s, t), NEW texts \in Seq(Nat)
  PROVE  LET r == WithReadings(s, t, texts)
         IN /\ Sound(r) /\ Shown(r)
            /\ Len(r.log) = Len(s.log) + Len(texts)
            /\ \A i \in DOMAIN s.log : r.log[i] = s.log[i]
            /\ \A j \in 1 .. Len(texts) : r.log[Len(s.log) + j] = Reply(t, texts[j])
<1> DEFINE a == Len(s.log)
           g == Growing(s, t, texts)
           Reads(k) == /\ Sound(g[k]) /\ Shown(g[k]) /\ Len(g[k].log) = a + k
                       /\ \A i \in DOMAIN s.log : g[k].log[i] = s.log[i]
                       /\ \A j \in 1 .. k : g[k].log[a + j] = Reply(t, texts[j])
           K == {k \in Nat : k <= Len(texts) => Reads(k)}
<1>1. Typed(s) /\ s.log \in Seq(Event) /\ a \in Nat /\ Len(texts) \in Nat /\ DOMAIN s.log = 1 .. a
  BY HeadsTyped DEF Sound
<1>2. 0 \in K
  <2>1. g[0] = s
    BY GrowingIs
  <2>2. Len(s.log) = a + 0
    BY <1>1
  <2> HIDE DEF g
  <2>3. Reads(0)
    BY <2>1, <2>2
  <2> QED
    BY <2>3
<1>3. ASSUME NEW k \in Nat, k \in K
      PROVE  k + 1 \in K
  <2> SUFFICES ASSUME k + 1 <= Len(texts) PROVE Reads(k + 1)
    <3> HIDE DEF Reads
    <3> QED
      OBVIOUS
  <2>1. k + 1 \in 1 .. Len(texts)
    BY <1>1
  <2>2. g[k + 1] = AppendCandidate(g[k], t, texts[k + 1])
    <3>1. g[k + 1] = AppendCandidate(g[(k + 1) - 1], t, texts[k + 1])
      BY <2>1, GrowingIs
    <3> QED
      BY <3>1
  <2>3. Reads(k) /\ texts[k + 1] \in Nat
    BY <1>1, <1>3, <2>1
  <2> HIDE DEF g
  <2> DEFINE q == g[k]
             x == texts[k + 1]
             e == Reply(t, x)
             r == g[k + 1]
  <2>4. /\ Typed(q) /\ q.log \in Seq(Event) /\ Len(q.log) = a + k
        /\ DOMAIN q.log = 1 .. a + k
    BY <2>3, HeadsTyped DEF Sound
  <2>5. \A i \in DOMAIN q.log : q.log[i].turn <= t
    <3> SUFFICES ASSUME NEW i \in DOMAIN q.log PROVE q.log[i].turn <= t
      OBVIOUS
    <3>1. CASE i \in DOMAIN s.log
      BY <2>3, <3>1 DEF Fresh
    <3>2. CASE i \notin DOMAIN s.log
      <4>1. i \in 1 .. a + k /\ i \notin 1 .. a
        BY <1>1, <2>4, <3>2
      <4>2. i - a \in 1 .. k /\ a + (i - a) = i
        <5> HIDE DEF a
        <5> QED
          BY ONLY <1>1, <4>1, k \in Nat
      <4>3. q.log[i] = Reply(t, texts[i - a])
        BY <2>3, <4>2
      <4>4. q.log[i].turn = t
        BY ONLY <4>3 DEF Reply
      <4> QED
        BY <1>1, <4>4
    <3> QED
      BY <3>1, <3>2
  <2>6. e \in Event
    BY <2>3 DEF Reply, Event
  <2>7. Sound(r) /\ Shown(r) /\ r.log = Append(q.log, e)
    <3>1. r = AppendCandidate(q, t, x) /\ Sound(q) /\ Shown(q) /\ x \in Nat
      BY <2>2, <2>3
    <3> HIDE DEF q, x, r
    <3> QED
      BY <2>5, <3>1, CandidateSound
  <2>8. /\ Len(r.log) = a + k + 1
        /\ \A i \in DOMAIN q.log : r.log[i] = q.log[i]
        /\ r.log[a + k + 1] = e
    <3> HIDE DEF q, r, e, a
    <3>1. /\ Len(r.log) = Len(q.log) + 1
          /\ \A i \in DOMAIN q.log : r.log[i] = q.log[i]
          /\ r.log[Len(q.log) + 1] = e
      BY ONLY <2>4, <2>6, <2>7, AppendedLog
    <3> QED
      BY ONLY <2>4, <3>1
  <2>9. Len(r.log) = a + (k + 1) /\ r.log[a + (k + 1)] = Reply(t, texts[k + 1])
    <3>1. a + k + 1 = a + (k + 1)
      <4> HIDE DEF a
      <4> QED
        BY ONLY <1>1, k \in Nat
    <3> HIDE DEF r
    <3> QED
      BY <2>8, <3>1
  <2>10. \A i \in DOMAIN s.log : r.log[i] = s.log[i]
    <3>1. \A i \in DOMAIN s.log : i \in DOMAIN q.log
      BY <1>1, <2>4
    <3> QED
      BY <2>3, <2>8, <3>1
  <2>11. \A j \in 1 .. k + 1 : r.log[a + j] = Reply(t, texts[j])
    <3> SUFFICES ASSUME NEW j \in 1 .. k + 1 PROVE r.log[a + j] = Reply(t, texts[j])
      OBVIOUS
    <3>1. CASE j = k + 1
      BY <2>9, <3>1
    <3>2. CASE j # k + 1
      <4>1. j \in 1 .. k /\ a + j \in DOMAIN q.log
        BY <1>1, <2>4, <3>2
      <4> QED
        BY <2>3, <2>8, <4>1
    <3> QED
      BY <3>1, <3>2
  <2> QED
    BY <2>7, <2>9, <2>10, <2>11
<1>4. Len(texts) \in K
  <2> HIDE DEF K
  <2> QED
    BY <1>1, <1>2, <1>3, Induction
<1>5. Reads(Len(texts))
  BY <1>1, <1>4
<1> HIDE DEF g
<1> QED
  BY <1>5 DEF WithReadings, g
-------------------------------------------------------------------------------
(* What has been read after each line.                                       *)

\* What has been read so far: a sound session whose next turn is still empty.
ReadOK(q) ==
  /\ q = [s |-> q.s, turn |-> q.turn] /\ q.turn \in Nat
  /\ Sound(q.s) /\ Shown(q.s) /\ Opened(q.s) /\ Fresh(q.s, q.turn)

\* One line more has been read.
ReadLine(q, l, p) ==
  /\ ReadOK(p) /\ OneMoreLine(q.s, p.s, l)
  /\ Cardinality(Heads(p.s)) = Cardinality(Heads(q.s)) + 1

LEMMA OneMoreHead ==
  ASSUME NEW s, Typed(s), NEW r, Heads(r) = Heads(s) \cup {Len(s.log) + 1}
  PROVE  Cardinality(Heads(r)) = Cardinality(Heads(s)) + 1
<1> DEFINE H == Heads(s)
           n == Len(s.log) + 1
<1>1. H \in SUBSET Nat /\ n \in Nat /\ \A i \in H : i < n
  BY HeadsTyped
<1> HIDE DEF H, n
<1>2. Cardinality(H \cup {n}) = Cardinality(H) + 1
  BY <1>1, ListedNext
<1> QED
  BY <1>2 DEF H, n

LEMMA UserLineReads ==
  ASSUME NEW q, ReadOK(q), NEW x \in Nat
  PROVE  ReadLine(q, FileLine(TRUE, <<x>>, 0), ImportLine(q, FileLine(TRUE, <<x>>, 0)))
<1> DEFINE s == q.s
           t == q.turn
           e == User(t, x)
           l == FileLine(TRUE, <<x>>, 0)
           r == Surfaced(s, e)
           p == ImportLine(q, l)
           n == Len(s.log) + 1
<1>1. /\ q = [s |-> s, turn |-> t] /\ t \in Nat
      /\ Sound(s) /\ Typed(s) /\ Shown(s) /\ Opened(s) /\ Fresh(s, t)
  BY DEF ReadOK, Sound
<1>2. p = [s |-> r, turn |-> t] /\ p.s = r /\ p.turn = t
  <2>1. l.user = TRUE /\ l.swipes[1] = x
    BY DEF FileLine
  <2>2. p = [q EXCEPT !.s = Surfaced(q.s, User(q.turn, x))]
    <3> HIDE DEF l
    <3> QED
      BY <2>1 DEF ImportLine
  <2>3. p = [s |-> r, turn |-> t]
    <3> HIDE DEF p, r
    <3> QED
      BY <1>1, <2>2 DEF r
  <2> HIDE DEF p, r, t
  <2> QED
    BY <2>3
<1> HIDE DEF p
<1>3. e \in Event /\ e.type = "user" /\ e.turn = t
  BY <1>1 DEF User, Event
<1>4. r.log = Append(s.log, e)
  BY DEF Surfaced
<1>5. Sound(r)
  <2>1. \A i \in DOMAIN s.log : s.log[i].turn <= e.turn
    BY <1>1, <1>3 DEF Fresh
  <2> HIDE DEF s, e
  <2> QED
    BY <1>1, <1>3, <2>1, SurfacedSound
<1>6. Shown(r)
  <2> HIDE DEF s, e
  <2> QED
    BY <1>1, <1>3, SurfacedShown
<1>7. Heads(r) = Heads(s) \cup {n} /\ OneMoreLine(s, r, l)
  <2> HIDE DEF s, t, r
  <2> QED
    BY <1>1, <1>4, UserExported
<1> HIDE DEF r, e
<1>8. /\ r.log \in Seq(Event) /\ Len(r.log) = n /\ DOMAIN r.log = DOMAIN s.log \cup {n}
      /\ \A i \in DOMAIN s.log : r.log[i] = s.log[i]
      /\ r.log[n] = e
  <2>1. s.log \in Seq(Event)
    BY <1>1, HeadsTyped
  <2> HIDE DEF s
  <2> QED
    BY <1>3, <1>4, <2>1, AppendedLog
<1>9. Fresh(r, t)
  <2> HIDE DEF s, t, n
  <2> QED
    BY <1>1, <1>3, <1>8 DEF Fresh
<1>10. Opened(r)
  <2>1. \A j \in DOMAIN s.log :
          /\ s.log[j].turn <= r.log[n].turn
          /\ r.log[n].type = "user" /\ s.log[j].turn = r.log[n].turn => s.log[j].type = "user"
    <3>1. \A j \in DOMAIN s.log : s.log[j].turn \in Nat
      BY <1>1, HeadsTyped DEF Event
    <3> HIDE DEF s, t, n
    <3> QED
      BY <1>1, <1>3, <1>8, <3>1 DEF Fresh
  <2>2. Len(s.log) <= Len(r.log)
    BY <1>1, <1>8, HeadsTyped
  <2> HIDE DEF s
  <2> QED
    BY <1>1, <1>7, <1>8, <2>1, <2>2, OpenedNext
<1>11. Cardinality(Heads(r)) = Cardinality(Heads(s)) + 1
  <2> HIDE DEF s
  <2> QED
    BY <1>1, <1>7, OneMoreHead
<1> HIDE DEF s, t, l
<1>12. ReadOK(p)
  BY <1>1, <1>2, <1>5, <1>6, <1>9, <1>10 DEF ReadOK
<1> QED
  BY <1>2, <1>7, <1>11, <1>12 DEF ReadLine, s, l, p

LEMMA ReplyLineReads ==
  ASSUME NEW q, ReadOK(q), NEW texts \in Seq(Nat), NEW id \in 0 .. Len(texts) - 1
  PROVE  ReadLine(q, FileLine(FALSE, texts, id), ImportLine(q, FileLine(FALSE, texts, id)))
<1> DEFINE s == q.s
           t == q.turn
           l == FileLine(FALSE, texts, id)
           p == ImportLine(q, l)
           a == Len(s.log)
           m == Len(texts)
           w == WithReadings(s, t, texts)
           c == InOrder(Candidates(w, t))[id + 1]
           r == IF id < m - 1 THEN Select(w, t, c) ELSE w
<1>1. /\ t \in Nat /\ Sound(s) /\ Typed(s) /\ Shown(s) /\ Opened(s) /\ Fresh(s, t)
      /\ a \in Nat /\ m \in Nat /\ id \in Nat /\ id < m /\ DOMAIN s.log = 1 .. a
  BY HeadsTyped DEF ReadOK, Sound
<1>2. p = [s |-> r, turn |-> t + 1] /\ p.s = r /\ p.turn = t + 1
  <2>1. l.user = FALSE /\ l.swipes = texts /\ l.id = id
    BY DEF FileLine
  <2>2. p = [s |-> r, turn |-> t + 1]
    <3> HIDE DEF l
    <3> QED
      BY <2>1 DEF ImportLine
  <2> HIDE DEF p, r, t
  <2> QED
    BY <2>2
<1> HIDE DEF p
<1>3. /\ Sound(w) /\ Shown(w) /\ Len(w.log) = a + m
      /\ \A i \in DOMAIN s.log : w.log[i] = s.log[i]
      /\ \A k \in 1 .. m : w.log[a + k] = Reply(t, texts[k])
  <2> HIDE DEF s, t
  <2> QED
    BY <1>1, GrowingReads DEF a, m
<1> HIDE DEF w
<1>4. Typed(w) /\ w.log \in Seq(Event) /\ DOMAIN w.log = 1 .. a + m
  BY <1>3, HeadsTyped DEF Sound
<1>5. Candidates(w, t) = a + 1 .. a + m
  <2>1. Replied(s, w, t, texts, m - 1) /\ m - 1 \in 0 .. Len(texts) - 1
    <3> HIDE DEF a, m
    <3>1. m - 1 \in 0 .. m - 1
      BY <1>1
    <3> QED
      BY <1>3, <1>4, <3>1 DEF Replied, a, m
  <2>2. ReadBack(s, w, t, a, m, m - 1)
    <3> HIDE DEF s, t
    <3> QED
      BY <1>1, <2>1, ReplyReadings DEF a, m
  <2> QED
    BY <2>2 DEF ReadBack
<1>6. ASSUME id < m - 1
      PROVE  /\ c \in Candidates(w, t) /\ c = a + id + 1 /\ Nodes(w, t) # {}
  <2>1. id + 1 \in 1 .. m /\ a + 1 \in 1 .. a + m /\ 1 \in 1 .. m
    <3> HIDE DEF a, m
    <3> QED
      BY <1>1
  <2>2. InOrder(a + 1 .. a + m)[id + 1] = a + (id + 1)
    <3> HIDE DEF a, m
    <3> QED
      BY <1>1, <2>1, ListedInterval
  <2>3. c = a + id + 1
    <3> HIDE DEF a, m
    <3> QED
      BY <1>1, <1>5, <2>2
  <2>4. a + id + 1 \in a + 1 .. a + m
    <3> HIDE DEF a, m
    <3> QED
      BY <1>1
  <2>5. w.log[a + 1] = Reply(t, texts[1]) /\ a + 1 \in DOMAIN w.log
    BY <1>3, <1>4, <2>1
  <2>6. w.log[a + 1].type = "reply" /\ w.log[a + 1].turn = t
    BY <2>5 DEF Reply
  <2>7. Nodes(w, t) # {}
    <3>1. OneReply(w)
      BY <1>3 DEF Sound
    <3> QED
      BY <2>5, <2>6, <3>1 DEF OneReply
  <2> HIDE DEF c, a, m
  <2> QED
    BY <1>5, <2>3, <2>4, <2>7
<1>7. Sound(r) /\ Shown(r)
  <2>1. CASE id < m - 1
    <3>1. r = Select(w, t, c)
      BY <2>1
    <3>2. c \in Candidates(w, t) /\ Nodes(w, t) # {}
      BY <1>6, <2>1
    <3> HIDE DEF r, t, c
    <3> QED
      BY <1>1, <1>3, <3>1, <3>2, SelectSound, SelectShown
  <2>2. CASE ~(id < m - 1)
    BY <1>3, <2>2
  <2> QED
    BY <2>1, <2>2
<1>8. Replied(s, r, t, texts, id)
  <2>1. CASE id < m - 1
    <3>1. r = Select(w, t, c)
      BY <2>1
    <3>2. c \in Candidates(w, t) /\ c = a + id + 1
      BY <1>6, <2>1
    <3>3. /\ r.log \in Seq(Event) /\ Len(r.log) = Len(w.log) + 2
          /\ \A i \in DOMAIN w.log : r.log[i] = w.log[i]
          /\ r.log[Len(w.log) + 1] = Reply(t, w.log[c].text)
          /\ r.log[Len(w.log) + 1 + 1] = Pick(t, c, Len(w.log) + 1)
      <4> HIDE DEF r, t, c
      <4> QED
        BY <1>1, <1>4, <3>1, <3>2, SelectLog
    <3> HIDE DEF r, c
    <3>4. \A i \in DOMAIN s.log : r.log[i] = s.log[i]
      <4>1. \A i \in DOMAIN s.log : i \in DOMAIN w.log
        <5> HIDE DEF a, m
        <5> QED
          BY <1>1, <1>4
      <4> QED
        BY <1>3, <3>3, <4>1
    <3>5. \A k \in 1 .. m : r.log[a + k] = Reply(t, texts[k])
      <4>1. \A k \in 1 .. m : a + k \in DOMAIN w.log
        <5> HIDE DEF a, m
        <5> QED
          BY <1>1, <1>4
      <4> QED
        BY <1>3, <3>3, <4>1
    <3>6. r.log[a + m + 1].type = "reply" /\ r.log[a + m + 1].turn = t
      <4>1. r.log[a + m + 1] = Reply(t, w.log[c].text)
        BY <1>3, <3>3
      <4> QED
        BY ONLY <4>1 DEF Reply
    <3>7. r.log[a + m + 2] = Pick(t, a + id + 1, a + m + 1) /\ Len(r.log) = a + m + 2
      <4>1. a + m + 1 + 1 = a + m + 2
        <5> HIDE DEF a, m
        <5> QED
          BY <1>1
      <4> HIDE DEF a, m
      <4> QED
        BY <1>3, <3>2, <3>3, <4>1
    <3> QED
      BY ONLY <3>3, <3>4, <3>5, <3>6, <3>7 DEF Replied, a, m
  <2>2. CASE ~(id < m - 1)
    <3>1. id = m - 1
      <4> HIDE DEF a, m
      <4> QED
        BY <1>1, <2>2
    <3>2. r = w
      BY <2>2
    <3> HIDE DEF r
    <3> QED
      BY <1>3, <1>4, <3>1, <3>2 DEF Replied
  <2> QED
    BY <2>1, <2>2
<1> HIDE DEF r
<1>9. Heads(r) = Heads(s) \cup {a + 1} /\ OneMoreLine(s, r, l)
  <2> HIDE DEF s, t
  <2> QED
    BY <1>1, <1>8, ReplyExported DEF a
<1>10. /\ r.log \in Seq(Event) /\ \A i \in DOMAIN s.log : r.log[i] = s.log[i]
       /\ \A k \in 1 .. m : r.log[a + k] = Reply(t, texts[k])
       /\ \A i \in DOMAIN r.log : i \in DOMAIN s.log \/ r.log[i].turn = t
       /\ Len(s.log) <= Len(r.log)
  <2>1. /\ r.log \in Seq(Event) /\ \A i \in DOMAIN s.log : r.log[i] = s.log[i]
        /\ \A k \in 1 .. m : r.log[a + k] = Reply(t, texts[k])
        /\ \/ Len(r.log) = a + m
           \/ /\ Len(r.log) = a + m + 2
              /\ r.log[a + m + 1].turn = t
              /\ r.log[a + m + 2] = Pick(t, a + id + 1, a + m + 1)
    BY <1>8 DEF Replied
  <2>2. r.log[a + m + 2] = Pick(t, a + id + 1, a + m + 1) => r.log[a + m + 2].turn = t
    BY DEF Pick
  <2>3. ASSUME NEW i \in DOMAIN r.log, i \notin DOMAIN s.log
        PROVE  r.log[i].turn = t
    <3>1. i \in Nat /\ a < i /\ i <= Len(r.log)
      <4>1. i \in Nat /\ 1 <= i /\ i <= Len(r.log)
        BY <2>1
      <4> HIDE DEF a
      <4> QED
        BY <1>1, <2>3, <4>1
    <3>2. CASE i <= a + m
      <4>1. i - a \in 1 .. m /\ a + (i - a) = i
        <5> HIDE DEF a, m
        <5> QED
          BY <1>1, <3>1, <3>2
      <4>2. r.log[i] = Reply(t, texts[i - a])
        <5> HIDE DEF a, m
        <5> QED
          BY <2>1, <4>1
      <4> QED
        BY ONLY <4>2 DEF Reply
    <3>3. CASE ~(i <= a + m)
      <4>1. /\ i = a + m + 1 \/ i = a + m + 2
            /\ Len(r.log) = a + m + 2
        <5> HIDE DEF a, m
        <5>1. Len(r.log) = a + m + 2
          <6>1. Len(r.log) = a + m \/ Len(r.log) = a + m + 2
            BY <2>1
          <6> QED
            BY ONLY <3>1, <3>3, <6>1
        <5>2. i = a + m + 1 \/ i = a + m + 2
          <6>1. /\ a \in Nat /\ m \in Nat /\ i \in Nat
                /\ i <= a + m + 2 /\ ~(i <= a + m)
            BY ONLY <1>1, <3>1, <3>3, <5>1
          <6> QED
            BY ONLY <6>1
        <5> QED
          BY <5>1, <5>2
      <4>2. a + m + 2 # a + m
        <5> HIDE DEF a, m
        <5> QED
          BY <1>1
      <4> HIDE DEF a, m, s
      <4> QED
        BY <2>1, <2>2, <4>1, <4>2
    <3> QED
      BY <3>2, <3>3
  <2>4. a <= Len(r.log)
    <3> HIDE DEF a, m
    <3> QED
      BY <1>1, <2>1
  <2> QED
    BY <2>1, <2>3, <2>4
<1>11. \A i \in DOMAIN s.log : s.log[i].turn \in Nat
  BY <1>1, HeadsTyped DEF Event
<1>12. Fresh(r, t + 1)
  <2>1. ASSUME NEW i \in DOMAIN r.log
        PROVE  r.log[i].turn <= t /\ r.log[i].turn \in Nat
    <3> HIDE DEF s, t, a
    <3>1. CASE i \in DOMAIN s.log
      <4>1. r.log[i] = s.log[i] /\ s.log[i].turn \in Nat
        BY <1>10, <1>11, <3>1
      <4>2. s.log[i].turn <= t
        BY <1>1, <3>1 DEF Fresh
      <4> QED
        BY <4>1, <4>2
    <3>2. CASE i \notin DOMAIN s.log
      <4>1. r.log[i].turn = t
        BY <1>10, <3>2
      <4> QED
        BY <1>1, <4>1
    <3> QED
      BY <3>1, <3>2
  <2>2. \A i \in DOMAIN r.log : r.log[i].turn <= t + 1 /\ r.log[i].turn < t + 1
    <3> HIDE DEF s, t, a
    <3> QED
      BY <1>1, <2>1
  <2> QED
    BY <2>2 DEF Fresh
<1>13. Opened(r)
  <2>1. r.log[a + 1].type = "reply" /\ r.log[a + 1].turn = t
    <3>1. 1 \in 1 .. m
      <4> HIDE DEF a, m
      <4> QED
        BY <1>1
    <3>2. r.log[a + 1] = Reply(t, texts[1])
      BY <1>10, <3>1
    <3> QED
      BY ONLY <3>2 DEF Reply
  <2>2. \A j \in DOMAIN s.log :
          /\ s.log[j].turn <= r.log[a + 1].turn
          /\ r.log[a + 1].type = "user" /\ s.log[j].turn = r.log[a + 1].turn
               => s.log[j].type = "user"
    <3> HIDE DEF s, t, a
    <3> QED
      BY <1>1, <2>1 DEF Fresh
  <2> HIDE DEF s
  <2> QED
    BY <1>1, <1>9, <1>10, <2>2, OpenedNext DEF a
<1>14. Cardinality(Heads(r)) = Cardinality(Heads(s)) + 1
  <2> HIDE DEF s
  <2> QED
    BY <1>1, <1>9, OneMoreHead DEF a
<1>15. t + 1 \in Nat
  BY <1>1
<1> HIDE DEF s, t, l
<1>16. ReadOK(p)
  BY <1>2, <1>7, <1>12, <1>13, <1>15 DEF ReadOK
<1> QED
  BY <1>2, <1>9, <1>14, <1>16 DEF ReadLine, s, l, p
-------------------------------------------------------------------------------
LEMMA LineReads ==
  ASSUME NEW q, ReadOK(q), NEW l, IsLine(l)
  PROVE  ReadLine(q, l, ImportLine(q, l))
<1>1. CASE \E x \in Nat : l = FileLine(TRUE, <<x>>, 0)
  BY <1>1, UserLineReads
<1>2. CASE \E texts \in Seq(Nat) : \E id \in 0 .. Len(texts) - 1 : l = FileLine(FALSE, texts, id)
  BY <1>2, ReplyLineReads
<1> QED
  BY <1>1, <1>2 DEF IsLine

\* A file: lines, and nothing else.
IsFile(lines) ==
  /\ Len(lines) \in Nat
  /\ lines = [k \in 1 .. Len(lines) |-> lines[k]]
  /\ \A k \in 1 .. Len(lines) : IsLine(lines[k])

LEMMA EmptyReads ==
  LET q == [s |-> EmptySession, turn |-> 0]
  IN ReadOK(q) /\ Heads(q.s) = {}
<1> DEFINE q == [s |-> EmptySession, turn |-> 0]
<1>1. EmptySession = Seeded(0)
  <2>1. Seeded(0) \in [log : Seq(Event), surface : Seq(Nat)]
        /\ Seeded(0).log = << >> /\ DOMAIN Seeded(0).surface = {}
    BY SeededLog DEF IsSeeded
  <2>2. Seeded(0).surface = << >>
    BY ONLY DEF Seeded
  <2> HIDE DEF Seeded
  <2> QED
    BY <2>1, <2>2 DEF EmptySession
<1>2. Sound(EmptySession) /\ Shown(EmptySession)
  BY <1>1, SeededSound, SeededShown
<1>3. EmptySession.log = << >> /\ DOMAIN EmptySession.log = {}
  BY DEF EmptySession
<1>4. Heads(EmptySession) = {} /\ Opened(EmptySession) /\ Fresh(EmptySession, 0)
  BY <1>3 DEF Heads, Opened, Fresh
<1>5. q.s = EmptySession /\ q.turn = 0 /\ q = [s |-> q.s, turn |-> q.turn]
  OBVIOUS
<1> HIDE DEF q
<1> QED
  BY <1>2, <1>4, <1>5 DEF ReadOK, q

\* A file that is read gives a sound session, which is written as the same file.
LEMMA ImportReads ==
  ASSUME NEW lines, IsFile(lines)
  PROVE  LET s == Import(lines)
         IN Sound(s) /\ Shown(s) /\ Opened(s) /\ Export(s) = lines
<1> DEFINE g == Reading(lines)
           n == Len(lines)
           Read(k) == /\ ReadOK(g[k]) /\ Cardinality(Heads(g[k].s)) = k
                      /\ Export(g[k].s) = [j \in 1 .. k |-> lines[j]]
           K == {k \in Nat : k <= n => Read(k)}
<1>1. n \in Nat
  BY DEF IsFile
<1>2. 0 \in K
  <2>1. g[0] = [s |-> EmptySession, turn |-> 0]
    BY <1>1, ReadingIs
  <2> HIDE DEF g
  <2>2. ReadOK(g[0]) /\ Heads(g[0].s) = {}
    BY <2>1, EmptyReads
  <2>3. Cardinality(Heads(g[0].s)) = 0
    BY <2>2, FS_EmptySet
  <2>4. Typed(g[0].s)
    BY <2>2 DEF ReadOK, Sound
  <2>5. Export(g[0].s) = [j \in 1 .. 0 |-> LineAt(g[0].s, InOrder(Heads(g[0].s))[j])]
    BY <2>3, <2>4, ExportIs
  <2>6. Export(g[0].s) = [j \in 1 .. 0 |-> lines[j]]
    BY <2>5
  <2> QED
    BY <2>2, <2>3, <2>6
<1>3. ASSUME NEW k \in Nat, k \in K
      PROVE  k + 1 \in K
  <2> SUFFICES ASSUME k + 1 <= n PROVE Read(k + 1)
    <3> HIDE DEF Read
    <3> QED
      OBVIOUS
  <2>1. k + 1 \in 1 .. n /\ k <= n
    BY <1>1
  <2>2. g[k + 1] = ImportLine(g[k], lines[k + 1])
    <3>1. g[k + 1] = ImportLine(g[(k + 1) - 1], lines[k + 1])
      BY <1>1, <2>1, ReadingIs
    <3> QED
      BY <3>1
  <2>3. Read(k) /\ IsLine(lines[k + 1])
    BY <1>3, <2>1 DEF IsFile
  <2> HIDE DEF g
  <2>4. ReadLine(g[k], lines[k + 1], g[k + 1])
    BY <2>2, <2>3, LineReads
  <2>5. Export(g[k + 1].s)
          = [j \in 1 .. k + 1 |-> IF j = k + 1 THEN lines[k + 1] ELSE Export(g[k].s)[j]]
    BY <2>3, <2>4 DEF ReadLine, OneMoreLine
  <2>6. \A j \in 1 .. k + 1 :
          (IF j = k + 1 THEN lines[k + 1] ELSE Export(g[k].s)[j]) = lines[j]
    BY <2>3
  <2>7. Export(g[k + 1].s) = [j \in 1 .. k + 1 |-> lines[j]]
    BY <2>5, <2>6
  <2>8. Cardinality(Heads(g[k + 1].s)) = k + 1 /\ ReadOK(g[k + 1])
    BY <2>3, <2>4 DEF ReadLine
  <2> QED
    BY <2>7, <2>8
<1>4. n \in K
  <2> HIDE DEF K
  <2> QED
    BY <1>1, <1>2, <1>3, Induction
<1>5. Read(n)
  BY <1>1, <1>4
<1>6. lines = [j \in 1 .. n |-> lines[j]]
  BY DEF IsFile
<1>7. Import(lines) = g[n].s
  BY DEF Import
<1> HIDE DEF g, n
<1> QED
  BY <1>5, <1>6, <1>7 DEF ReadOK
-------------------------------------------------------------------------------
(* What is written is a file.                                                *)

\* A turn whose first reply is a head has a reading, and one is selected.
LEMMA SelectedIs ==
  ASSUME NEW s, Sound(s), Shown(s), NEW t \in Nat, Replies(s, t) # {}
  PROVE  /\ Candidates(s, t) # {}
         /\ Candidates(s, t) \in SUBSET Nat
         /\ \A c \in Candidates(s, t) : c <= Len(s.log) /\ c \in DOMAIN s.log
         /\ Selected(s, t) \in Candidates(s, t)
<1> DEFINE C == Candidates(s, t)
           P == Picks(s, t)
<1>1. Typed(s) /\ DOMAIN s.log = 1 .. Len(s.log) /\ Len(s.log) \in Nat
  BY HeadsTyped DEF Sound
<1>2. C \in SUBSET Nat /\ \A c \in C : c <= Len(s.log) /\ c \in DOMAIN s.log
  BY <1>1 DEF Candidates, Replies
<1>3. P # {} => Newest(P) \in P /\ s.log[Newest(P)].of \in C
  <2>1. ASSUME P # {} PROVE Newest(P) \in P
    BY <2>1 DEF Shown, Newest
  <2> QED
    BY <2>1 DEF Shown
<1>4. P = {} => C = Replies(s, t)
  BY DEF Candidates, Materialized
<1>5. C # {}
  BY <1>3, <1>4
<1>6. Newest(C) \in C
  <2> HIDE DEF C
  <2>1. \E i \in C : \A j \in C : j <= i
    BY <1>1, <1>2, <1>5, Highest
  <2> QED
    BY <2>1 DEF Newest
<1>7. Selected(s, t) \in C
  BY <1>3, <1>6 DEF Selected
<1> QED
  BY <1>2, <1>5, <1>7

\* A line of the file, and the readings it holds.
LEMMA ReplyLine ==
  ASSUME NEW s, Sound(s), Shown(s), NEW i \in Heads(s), s.log[i].type # "user"
  PROVE  LET t == s.log[i].turn
             C == Candidates(s, t)
             texts == [k \in 1 .. Cardinality(C) |-> s.log[InOrder(C)[k]].text]
         IN /\ t \in Nat /\ i \in Replies(s, t)
            /\ LineAt(s, i) = FileLine(FALSE, texts, SwipeId(s, t))
            /\ texts \in Seq(Nat) /\ Len(texts) = Cardinality(C)
            /\ SwipeId(s, t) \in 0 .. Len(texts) - 1
            /\ InOrder(C)[SwipeId(s, t) + 1] = Selected(s, t)
<1> DEFINE t == s.log[i].turn
           C == Candidates(s, t)
           n == Cardinality(C)
           ids == InOrder(C)
           texts == [k \in 1 .. n |-> s.log[ids[k]].text]
           c == Selected(s, t)
           B == {j \in C : j < c}
<1>1. Typed(s) /\ Len(s.log) \in Nat /\ i \in DOMAIN s.log /\ \A j \in DOMAIN s.log : s.log[j] \in Event
  BY HeadsTyped DEF Sound
<1>2. t \in Nat /\ i \in Replies(s, t)
  BY <1>1 DEF Heads, Replies, Event
<1>3. /\ C # {} /\ C \in SUBSET Nat /\ c \in C
      /\ \A j \in C : j <= Len(s.log) /\ j \in DOMAIN s.log
  <2> HIDE DEF t
  <2> QED
    BY <1>2, SelectedIs
<1> HIDE DEF c
<1>4. /\ n \in Nat /\ ids = [k \in 1 .. n |-> ids[k]]
      /\ \A k \in 1 .. n : ids[k] \in C
      /\ \A k \in 1 .. n, j \in C : Cardinality(UpTo(C, j)) = k => ids[k] = j
  <2>1. C \in SUBSET Nat /\ Len(s.log) \in Nat /\ \A j \in C : j <= Len(s.log)
    BY <1>1, <1>3
  <2> HIDE DEF C
  <2> QED
    BY ONLY <2>1, Listed
<1>5. texts \in Seq(Nat) /\ Len(texts) = n
  <2>1. \A k \in 1 .. n : s.log[ids[k]].text \in Nat
    BY <1>1, <1>3, <1>4 DEF Event
  <2> HIDE DEF ids, n
  <2> QED
    BY ONLY <1>4, <2>1
<1>6. DOMAIN ids = 1 .. n
  BY <1>4
<1>7. LineAt(s, i) = FileLine(FALSE, texts, SwipeId(s, t))
  BY <1>6 DEF LineAt
<1>8. /\ SwipeId(s, t) = Cardinality(B) /\ IsFiniteSet(C) /\ IsFiniteSet(B)
      /\ Cardinality(B) \in Nat /\ Cardinality(B) < n
      /\ Cardinality(UpTo(C, c)) = Cardinality(B) + 1
  <2>1. SwipeId(s, t) = Cardinality(B)
    BY DEF SwipeId, c
  <2>2. IsFiniteSet(C)
    <3> HIDE DEF C
    <3> QED
      BY <1>1, <1>3, Finite
  <2> HIDE DEF C
  <2>3. B \in SUBSET C /\ c \notin B /\ UpTo(C, c) = B \cup {c} /\ UpTo(C, c) \in SUBSET C
    <3>1. c \in Nat /\ \A j \in C : j \in Nat
      BY <1>3
    <3> QED
      BY <1>3, <3>1 DEF UpTo
  <2>4. IsFiniteSet(B) /\ Cardinality(B) \in Nat /\ Cardinality(B) < Cardinality(C)
    <3>1. B # C
      BY <1>3, <2>3
    <3> HIDE DEF B
    <3> QED
      BY <2>2, <2>3, <3>1, FS_Subset, FS_CardinalityType
  <2>5. Cardinality(UpTo(C, c)) = Cardinality(B) + 1
    <3> HIDE DEF B
    <3> QED
      BY <2>3, <2>4, FS_AddElement
  <2> QED
    BY <2>1, <2>2, <2>4, <2>5
<1> HIDE DEF C, B, ids, texts
<1>9. SwipeId(s, t) \in 0 .. n - 1 /\ SwipeId(s, t) + 1 \in 1 .. n
  <2> HIDE DEF n, t
  <2> QED
    BY <1>4, <1>8
<1>10. ids[SwipeId(s, t) + 1] = c
  <2> HIDE DEF n, t
  <2> QED
    BY <1>3, <1>4, <1>8, <1>9
<1> QED
  BY <1>2, <1>5, <1>7, <1>9, <1>10 DEF texts, ids, C, c

LEMMA ExportWrites ==
  ASSUME NEW s, Sound(s), Shown(s)
  PROVE  IsFile(Export(s)) /\ Len(Export(s)) = Cardinality(Heads(s))
<1> DEFINE n == Cardinality(Heads(s))
           H == Heads(s)
<1>1. /\ Typed(s) /\ Len(s.log) \in Nat /\ H \in SUBSET Nat
      /\ \A i \in H : i <= Len(s.log) /\ i \in DOMAIN s.log /\ s.log[i] \in Event
  BY HeadsTyped DEF Sound
<1>2. n \in Nat /\ Export(s) = [k \in 1 .. n |-> LineAt(s, InOrder(H)[k])]
  BY <1>1, ExportIs
<1>3. \A k \in 1 .. n : InOrder(H)[k] \in H
  <2> HIDE DEF H
  <2> QED
    BY <1>1, Listed DEF H
<1>4. ASSUME NEW i \in H
      PROVE  IsLine(LineAt(s, i))
  <2>1. CASE s.log[i].type = "user"
    <3>1. LineAt(s, i) = FileLine(TRUE, <<s.log[i].text>>, 0) /\ s.log[i].text \in Nat
      BY <1>1, <2>1 DEF LineAt, Event
    <3> QED
      BY <3>1 DEF IsLine
  <2>2. CASE s.log[i].type # "user"
    <3>1. \E texts \in Seq(Nat) : \E id \in 0 .. Len(texts) - 1 :
            LineAt(s, i) = FileLine(FALSE, texts, id)
      BY <2>2, ReplyLine
    <3> QED
      BY <3>1 DEF IsLine
  <2> QED
    BY <2>1, <2>2
<1>5. \A k \in 1 .. n : IsLine(Export(s)[k])
  <2> HIDE DEF n, H
  <2> QED
    BY <1>2, <1>3, <1>4
<1> HIDE DEF n, H
<1>6. Len(Export(s)) = n
  BY <1>2
<1> QED
  BY <1>2, <1>5, <1>6 DEF IsFile, n
-------------------------------------------------------------------------------
(* Where the readings are in the file.                                       *)

\* Where a reading stands in the file: in a line of its turn, at its place.
StandsAt(s, t, c, k, m) ==
  LET i == InOrder(Heads(s))[k]
      line == Export(s)[k]
  IN /\ k \in 1 .. Len(Export(s)) /\ i \in Heads(s) /\ i \in Replies(s, t)
     /\ line.user = FALSE /\ m \in DOMAIN line.swipes
     /\ line.swipes[m] = s.log[c].text
     /\ line.id + 1 = m => c = Selected(s, t)

LEMMA ReadingWritten ==
  ASSUME NEW s, Sound(s), Shown(s), NEW t \in Nat, NEW c \in Candidates(s, t)
  PROVE  \E k, m : StandsAt(s, t, c, k, m)
<1> DEFINE H == Heads(s)
           C == Candidates(s, t)
           n == Len(s.log)
<1>1. /\ Typed(s) /\ n \in Nat /\ DOMAIN s.log = 1 .. n /\ H \in SUBSET Nat
      /\ \A i \in H : i <= n
  BY HeadsTyped DEF Sound
<1>2. Replies(s, t) \in SUBSET Nat /\ Replies(s, t) # {}
  BY <1>1 DEF Candidates, Replies
<1>3. C \in SUBSET Nat /\ \A j \in C : j <= n
  BY <1>2, SelectedIs
<1>4. PICK i \in Replies(s, t) : \A j \in Replies(s, t) : i <= j
  BY <1>2, Lowest
<1>5. i \in H /\ s.log[i].type # "user" /\ s.log[i].turn = t
  BY <1>4 DEF Heads, Replies
<1> DEFINE k == Cardinality(UpTo(H, i))
           m == Cardinality(UpTo(C, c))
<1>6. \A S \in SUBSET Nat : (\A j \in S : j <= n) =>
        \A j \in S : /\ Cardinality(UpTo(S, j)) \in 1 .. Cardinality(S)
                     /\ InOrder(S)[Cardinality(UpTo(S, j))] = j
  <2> SUFFICES ASSUME NEW S \in SUBSET Nat, \A j \in S : j <= n, NEW j \in S
               PROVE  /\ Cardinality(UpTo(S, j)) \in 1 .. Cardinality(S)
                      /\ InOrder(S)[Cardinality(UpTo(S, j))] = j
    OBVIOUS
  <2> HIDE DEF n
  <2>1. /\ IsFiniteSet(UpTo(S, j)) /\ Cardinality(UpTo(S, j)) \in Nat
        /\ Cardinality(UpTo(S, j)) <= Cardinality(S) /\ Cardinality(S) \in Nat
    BY <1>1, Finite
  <2>2. j \in UpTo(S, j)
    BY DEF UpTo
  <2>3. Cardinality(UpTo(S, j)) # 0
    BY <2>1, <2>2, FS_EmptySet
  <2>4. Cardinality(UpTo(S, j)) \in 1 .. Cardinality(S)
    BY <2>1, <2>3
  <2> QED
    BY <1>1, <2>4, Listed
<1>7. k \in 1 .. Cardinality(H) /\ InOrder(H)[k] = i
  <2> HIDE DEF H, n
  <2> QED
    BY <1>1, <1>5, <1>6
<1>8. m \in 1 .. Cardinality(C) /\ InOrder(C)[m] = c
  <2> HIDE DEF C, n
  <2> QED
    BY <1>3, <1>6 DEF C
<1> HIDE DEF k, m
<1>9. Export(s)[k] = LineAt(s, i) /\ Len(Export(s)) = Cardinality(H)
  <2>1. Export(s) = [j \in 1 .. Cardinality(H) |-> LineAt(s, InOrder(H)[j])]
    BY <1>1, ExportIs
  <2> QED
    BY <1>7, <2>1, ExportWrites
<1> DEFINE texts == [j \in 1 .. Cardinality(C) |-> s.log[InOrder(C)[j]].text]
<1>10. /\ LineAt(s, i) = FileLine(FALSE, texts, SwipeId(s, t))
       /\ InOrder(C)[SwipeId(s, t) + 1] = Selected(s, t)
  BY <1>5, ReplyLine
<1>11. DOMAIN texts = 1 .. Cardinality(C) /\ texts[m] = s.log[c].text
  BY <1>8
<1> HIDE DEF texts, C, H
<1>12. /\ Export(s)[k].user = FALSE /\ Export(s)[k].swipes = texts
       /\ Export(s)[k].id = SwipeId(s, t)
  BY <1>9, <1>10 DEF FileLine
<1>13. StandsAt(s, t, c, k, m)
  BY <1>4, <1>5, <1>7, <1>8, <1>9, <1>10, <1>11, <1>12 DEF StandsAt, H
<1> QED
  BY <1>13

\* Every text of a reply line is a reading of the session it was written from.
LEMMA WrittenReading ==
  ASSUME NEW s, Sound(s), Shown(s), NEW k \in 1 .. Len(Export(s)),
         Export(s)[k].user = FALSE, NEW m \in DOMAIN Export(s)[k].swipes
  PROVE  \E t \in Nat : \E c \in Candidates(s, t) : s.log[c].text = Export(s)[k].swipes[m]
<1> DEFINE H == Heads(s)
           i == InOrder(H)[k]
           t == s.log[i].turn
           C == Candidates(s, t)
           texts == [j \in 1 .. Cardinality(C) |-> s.log[InOrder(C)[j]].text]
<1>1. /\ Typed(s) /\ Len(s.log) \in Nat /\ H \in SUBSET Nat
      /\ \A j \in H : j <= Len(s.log) /\ j \in DOMAIN s.log
  BY HeadsTyped DEF Sound
<1>2. k \in 1 .. Cardinality(H) /\ Export(s)[k] = LineAt(s, i)
  <2>1. Export(s) = [j \in 1 .. Cardinality(H) |-> LineAt(s, InOrder(H)[j])]
    BY <1>1, ExportIs
  <2>2. k \in 1 .. Cardinality(H)
    BY ExportWrites
  <2> QED
    BY <2>1, <2>2
<1>3. i \in H
  <2> HIDE DEF H
  <2> QED
    BY <1>1, <1>2, Listed
<1> HIDE DEF i
<1>4. s.log[i].type # "user"
  <2>1. \A x : FileLine(TRUE, x, 0).user = TRUE
    BY ONLY DEF FileLine
  <2> HIDE DEF t, C, texts
  <2> QED
    BY <1>2, <2>1 DEF LineAt
<1>5. t \in Nat /\ LineAt(s, i) = FileLine(FALSE, texts, SwipeId(s, t)) /\ i \in Replies(s, t)
  BY <1>3, <1>4, ReplyLine
<1> HIDE DEF t
<1>6. C \in SUBSET Nat /\ \A j \in C : j <= Len(s.log)
  BY <1>5, SelectedIs
<1> HIDE DEF C
<1>7. \A j \in 1 .. Cardinality(C) : InOrder(C)[j] \in C
  BY <1>1, <1>6, Listed
<1>8. Export(s)[k].swipes = texts
  <2> HIDE DEF texts
  <2> QED
    BY <1>2, <1>5 DEF FileLine
<1>9. m \in 1 .. Cardinality(C)
  BY <1>8
<1>10. texts[m] = s.log[InOrder(C)[m]].text
  BY <1>9
<1> QED
  BY <1>5, <1>7, <1>8, <1>9, <1>10 DEF C

\* The lines of a file, one text of the last one replaced.
LEMMA RewrittenFile ==
  ASSUME NEW lines, IsFile(lines), Len(lines) >= 1, NEW x \in Nat
  PROVE  LET n == Len(lines)
             L == Rewritten(lines, x)
         IN /\ IsFile(L) /\ Len(L) = n
            /\ \A k \in 1 .. n :
                 /\ L[k].user = lines[k].user /\ DOMAIN L[k].swipes = DOMAIN lines[k].swipes
                 /\ \A m \in DOMAIN lines[k].swipes :
                      k # n \/ m # lines[k].id + 1 => L[k].swipes[m] = lines[k].swipes[m]
<1> DEFINE n == Len(lines)
           last == lines[n]
           L == Rewritten(lines, x)
<1>1. n \in 1 .. n /\ n \in Nat /\ lines = [k \in 1 .. n |-> lines[k]]
      /\ \A k \in 1 .. n : IsLine(lines[k])
  BY DEF IsFile
<1>2. CASE last.user = TRUE
  <2>1. L = lines
    BY <1>2 DEF Rewritten
  <2> QED
    BY <2>1
<1>3. CASE last.user # TRUE
  <2>1. PICK texts \in Seq(Nat) : \E id \in 0 .. Len(texts) - 1 : last = FileLine(FALSE, texts, id)
    <3>1. \A y : FileLine(TRUE, <<y>>, 0).user = TRUE
      BY DEF FileLine
    <3>2. IsLine(last)
      BY <1>1
    <3> HIDE DEF last
    <3> QED
      BY <1>3, <3>1, <3>2 DEF IsLine
  <2>2. PICK id \in 0 .. Len(texts) - 1 : last = FileLine(FALSE, texts, id)
    BY <2>1
  <2>3. last.user = FALSE /\ last.swipes = texts /\ last.id = id
    BY <2>2 DEF FileLine
  <2> DEFINE changed == [texts EXCEPT ![id + 1] = x]
  <2>5. changed \in Seq(Nat) /\ Len(changed) = Len(texts) /\ DOMAIN changed = DOMAIN texts
    OBVIOUS
  <2>6. IsLine(FileLine(FALSE, changed, id))
    <3> HIDE DEF changed
    <3> QED
      BY <2>5 DEF IsLine
  <2>7. L = [lines EXCEPT ![n] = FileLine(FALSE, changed, id)]
    <3>1. [last.swipes EXCEPT ![last.id + 1] = x] = changed
      BY <2>3
    <3> HIDE DEF last, changed
    <3> QED
      BY <2>3, <3>1 DEF Rewritten, last
  <2>8. L = [k \in 1 .. n |-> IF k = n THEN FileLine(FALSE, changed, id) ELSE lines[k]]
    <3> HIDE DEF L, changed
    <3> QED
      BY <1>1, <2>7
  <2>9. Len(L) = n /\ L = [k \in 1 .. n |-> L[k]]
        /\ \A k \in 1 .. n : L[k] = IF k = n THEN FileLine(FALSE, changed, id) ELSE lines[k]
    <3> HIDE DEF L, changed
    <3> QED
      BY <1>1, <2>8
  <2>10. IsFile(L)
    <3>1. \A k \in 1 .. n : IsLine(L[k])
      BY <1>1, <2>6, <2>9
    <3> HIDE DEF L, n
    <3> QED
      BY <1>1, <2>9, <3>1 DEF IsFile
  <2>11. /\ FileLine(FALSE, changed, id).user = FALSE
         /\ FileLine(FALSE, changed, id).swipes = changed
    BY DEF FileLine
  <2>12. \A m \in DOMAIN texts : m # id + 1 => changed[m] = texts[m]
    OBVIOUS
  <2> HIDE DEF L, changed
  <2>13. ASSUME NEW k \in 1 .. n
         PROVE  /\ L[k].user = lines[k].user /\ DOMAIN L[k].swipes = DOMAIN lines[k].swipes
                /\ \A m \in DOMAIN lines[k].swipes :
                     k # n \/ m # lines[k].id + 1 => L[k].swipes[m] = lines[k].swipes[m]
    <3>1. CASE k = n
      BY <2>3, <2>5, <2>9, <2>11, <2>12, <3>1
    <3>2. CASE k # n
      <4>1. L[k] = lines[k]
        BY <2>9, <3>2
      <4> QED
        BY <4>1
    <3> QED
      BY <3>1, <3>2
  <2> QED
    BY <2>9, <2>10, <2>13 DEF L
<1> QED
  BY <1>2, <1>3
-------------------------------------------------------------------------------
(* No reading is lost through the file.                                      *)

\* Every reading of s is somewhere a reading of r.
Retains(s, r) ==
  \A t \in Nat : \A c \in Candidates(s, t) :
    \E u \in Nat : \E d \in Candidates(r, u) : r.log[d].text = s.log[c].text

LEMMA ReloadRetains ==
  ASSUME NEW s, Sound(s), Shown(s)
  PROVE  LET r == Import(Export(s))
         IN Sound(r) /\ Shown(r) /\ Opened(r) /\ Export(r) = Export(s) /\ Retains(s, r)
<1> DEFINE r == Import(Export(s))
<1>1. Sound(r) /\ Shown(r) /\ Opened(r) /\ Export(r) = Export(s)
  BY ExportWrites, ImportReads
<1> HIDE DEF r
<1>2. ASSUME NEW t \in Nat, NEW c \in Candidates(s, t)
      PROVE  \E u \in Nat : \E d \in Candidates(r, u) : r.log[d].text = s.log[c].text
  <2>1. PICK k, m : StandsAt(s, t, c, k, m)
    BY ReadingWritten
  <2>2. /\ k \in 1 .. Len(Export(r)) /\ Export(r)[k].user = FALSE
        /\ m \in DOMAIN Export(r)[k].swipes
        /\ Export(r)[k].swipes[m] = s.log[c].text
    BY <1>1, <2>1 DEF StandsAt
  <2>3. \E u \in Nat : \E d \in Candidates(r, u) : r.log[d].text = Export(r)[k].swipes[m]
    BY <1>1, <2>2, WrittenReading
  <2> QED
    BY <2>2, <2>3
<1> QED
  BY <1>1, <1>2 DEF Retains, r

LEMMA ReplyOpened ==
  ASSUME NEW s, Typed(s), Opened(s), NEW e \in Event, e.type # "user",
         \A i \in DOMAIN s.log : s.log[i].turn <= e.turn,
         NEW r, r.log = Append(s.log, e)
  PROVE  Opened(r)
<1> DEFINE n == Len(s.log) + 1
<1>1. s.log \in Seq(Event) /\ n \in Nat /\ Len(s.log) <= n
  BY HeadsTyped
<1>2. Heads(r) \subseteq Heads(s) \cup {n}
  BY HeadsNext
<1>3. /\ r.log \in Seq(Event) /\ Len(r.log) = n
      /\ \A i \in DOMAIN s.log : r.log[i] = s.log[i]
      /\ r.log[n] = e
  BY <1>1, AppendedLog
<1> QED
  BY <1>1, <1>2, <1>3, OpenedNext

LEMMA LineOpened ==
  ASSUME NEW s, Typed(s), Opened(s), NEW e \in Event,
         \A i \in DOMAIN s.log : s.log[i].turn < e.turn,
         NEW r, r.log = Append(s.log, e)
  PROVE  Opened(r)
<1> DEFINE n == Len(s.log) + 1
<1>1. s.log \in Seq(Event) /\ n \in Nat /\ Len(s.log) <= n /\ \A i \in DOMAIN s.log : s.log[i].turn \in Nat
  BY HeadsTyped DEF Event
<1>2. Heads(r) \subseteq Heads(s) \cup {n}
  BY HeadsNext
<1>3. /\ r.log \in Seq(Event) /\ Len(r.log) = n
      /\ \A i \in DOMAIN s.log : r.log[i] = s.log[i]
      /\ r.log[n] = e
  BY <1>1, AppendedLog
<1>4. \A i \in DOMAIN s.log : s.log[i].turn <= e.turn /\ s.log[i].turn # e.turn
  <2>1. e.turn \in Nat
    BY DEF Event
  <2> QED
    BY <1>1, <2>1
<1> QED
  BY <1>1, <1>2, <1>3, <1>4, OpenedNext

LEMMA SelectOpened ==
  ASSUME NEW s, Sound(s), Opened(s), NEW t \in Nat, Nodes(s, t) # {}, NEW c \in Candidates(s, t)
  PROVE  Opened(Select(s, t, c))
<1> DEFINE r == Select(s, t, c)
           n == Len(s.log) + 1
           e == Reply(t, s.log[c].text)
           pick == Pick(t, c, n)
           shown == Shadowing(s, e, Newest(Nodes(s, t)))
<1>1. /\ Typed(s) /\ s.log \in Seq(Event) /\ n \in Nat /\ Len(s.log) <= n
      /\ c \in DOMAIN s.log /\ c \in Replies(s, t) /\ c \in Nat /\ s.log[c] \in Event
  <2>1. Typed(s)
    BY DEF Sound
  <2>2. c \in DOMAIN s.log /\ c \in Replies(s, t)
    BY DEF Candidates, Replies
  <2> QED
    BY <2>1, <2>2, HeadsTyped
<1>2. /\ r.log \in Seq(Event) /\ Len(r.log) = Len(s.log) + 2
      /\ \A i \in DOMAIN s.log : r.log[i] = s.log[i]
  BY <1>1, SelectLog
<1>3. e \in Event /\ e.type = "reply" /\ e.turn = t
  BY <1>1 DEF Reply, Event
<1>4. pick \in Event /\ pick.type = "select"
  <2> HIDE DEF n
  <2> QED
    BY <1>1 DEF Pick, Event
<1> HIDE DEF e, r
<1>5. shown.log = Append(s.log, e)
  BY DEF Shadowing
<1>6. Typed(shown) /\ Len(shown.log) = n
  <2>1. Newest(Nodes(s, t)) \in Nodes(s, e.turn)
    BY <1>3, NewestNode
  <2>2. Sound(shown)
    BY <1>3, <2>1, ShadowingSound
  <2>3. Len(Append(s.log, e)) = n
    BY <1>1, <1>3, AppendedLog
  <2> QED
    BY <1>5, <2>2, <2>3 DEF Sound
<1>7. r.log = Append(shown.log, pick)
  BY <1>6 DEF Select, r, e
<1> HIDE DEF shown, pick
<1>8. Heads(shown) = Heads(s)
  BY <1>1, <1>3, <1>5, HeadsNext
<1>9. Heads(r) = Heads(s)
  BY <1>4, <1>6, <1>7, <1>8, HeadsNext
<1>10. n \notin Heads(s) /\ Len(s.log) <= Len(r.log)
  BY <1>1, <1>2, HeadsTyped
<1>11. Opened(r)
  BY <1>1, <1>2, <1>9, <1>10, OpenedNext
<1> QED
  BY <1>11 DEF r

LEMMA SeededOpened ==
  ASSUME NEW k \in Nat
  PROVE  Opened(Seeded(k))
<1> DEFINE s == Seeded(k)
<1>1. \A i \in DOMAIN s.log :
        s.log[i] = IF i <= k THEN Reply(0, i)
                   ELSE IF i = k + 1 THEN Reply(0, 1) ELSE Pick(0, 1, k + 1)
  BY SeededLog DEF IsSeeded
<1> HIDE DEF s
<1>2. \A x : Reply(0, x).turn = 0 /\ Reply(0, x).type = "reply"
  BY DEF Reply
<1>3. Pick(0, 1, k + 1).turn = 0 /\ Pick(0, 1, k + 1).type = "select"
  BY DEF Pick
<1>4. \A i \in DOMAIN s.log : s.log[i].turn = 0 /\ s.log[i].type # "user"
  BY <1>1, <1>2, <1>3
<1>5. \A i \in Heads(s) : i \in DOMAIN s.log
  BY DEF Heads
<1>6. Opened(s)
  BY <1>4, <1>5 DEF Opened
<1> QED
  BY <1>6 DEF s
-------------------------------------------------------------------------------
\* The highest line of the file, once its session has a reply of its last turn,
\* is that turn's.
LEMMA LastLine ==
  ASSUME NEW s, Typed(s), Opened(s), NEW t \in Nat, Replies(s, t) # {},
         \A i \in DOMAIN s.log : s.log[i].turn <= t
  PROVE  LET H == Heads(s)
         IN s.log[InOrder(H)[Cardinality(H)]].turn = t
<1> DEFINE H == Heads(s)
           n == Cardinality(H)
           i == InOrder(H)[n]
<1>1. /\ Len(s.log) \in Nat /\ H \in SUBSET Nat
      /\ \A j \in H : j <= Len(s.log) /\ j \in DOMAIN s.log
      /\ \A j \in DOMAIN s.log : s.log[j].turn \in Nat /\ j \in Nat
  BY HeadsTyped DEF Event
<1>2. Replies(s, t) \in SUBSET Nat
  BY <1>1 DEF Replies
<1>3. PICK h \in Replies(s, t) : \A j \in Replies(s, t) : h <= j
  BY <1>2, Lowest
<1>4. h \in H /\ s.log[h].turn = t
  BY <1>3 DEF Heads, Replies
<1>5. i \in H /\ \A j \in H : j <= i
  <2> HIDE DEF H
  <2>1. IsFiniteSet(H) /\ n \in Nat
    BY <1>1, Finite
  <2>2. n # 0
    BY <1>4, <2>1, FS_EmptySet
  <2>3. i \in H /\ Cardinality(UpTo(H, i)) = n
    <3>1. n \in 1 .. Cardinality(H)
      BY <2>1, <2>2
    <3>2. H \in SUBSET Nat /\ Len(s.log) \in Nat /\ \A j \in H : j <= Len(s.log)
      BY <1>1
    <3> HIDE DEF n
    <3> QED
      BY ONLY <3>1, <3>2, Listed
  <2>4. UpTo(H, i) \in SUBSET H
    BY DEF UpTo
  <2> HIDE DEF i
  <2>5. UpTo(H, i) = H
    <3>1. Cardinality(UpTo(H, i)) = Cardinality(H)
      BY <2>3
    <3> QED
      BY ONLY <2>1, <2>4, <3>1, FS_Subset
  <2> QED
    BY <2>3, <2>5 DEF UpTo
<1> HIDE DEF i
<1>6. s.log[i].turn <= t /\ s.log[i].turn \in Nat
  BY <1>1, <1>5
<1>7. CASE h = i
  BY <1>4, <1>7 DEF i
<1>8. CASE h # i
  <2>1. h < i
    BY <1>1, <1>4, <1>5, <1>8
  <2>2. t <= s.log[i].turn
    BY <1>1, <1>4, <1>5, <2>1 DEF Opened
  <2> QED
    BY <1>6, <2>2 DEF i
<1> QED
  BY <1>7, <1>8

\* A reply of the last turn is read back changed, whatever the other lines say.
LEMMA TrimRetains ==
  ASSUME NEW s, Sound(s), Shown(s), Opened(s), LastTurn(s) >= 0, NEW x \in Nat, NEW y \in Nat
  PROVE  LET p == AppendCandidate(s, LastTurn(s), x)
             r == Import(Rewritten(Export(p), y))
         IN /\ Sound(r) /\ Shown(r) /\ Opened(r)
            /\ Picks(s, LastTurn(s)) = {} => Retains(s, r)
<1> DEFINE t == LastTurn(s)
           p == AppendCandidate(s, t, x)
           lines == Export(p)
           L == Rewritten(lines, y)
           r == Import(L)
           e == Reply(t, x)
           n == Len(s.log) + 1
           N == Len(lines)
<1>1. /\ Typed(s) /\ t \in Nat /\ \A i \in DOMAIN s.log : s.log[i].turn <= t
      /\ s.log \in Seq(Event) /\ DOMAIN s.log = 1 .. Len(s.log) /\ Len(s.log) \in Nat
  BY LastTurnIsLast, HeadsTyped DEF Sound
<1> HIDE DEF t
<1>2. Sound(p) /\ Shown(p) /\ KeepsReadings(s, p) /\ p.log = Append(s.log, e)
  BY <1>1, CandidateSound
<1> HIDE DEF p
<1>3. e \in Event /\ e.type = "reply" /\ e.turn = t
  BY <1>1 DEF Reply, Event
<1> HIDE DEF e
<1>4. /\ DOMAIN p.log = DOMAIN s.log \cup {n} /\ n \notin DOMAIN s.log
      /\ \A i \in DOMAIN s.log : p.log[i] = s.log[i]
      /\ p.log[n] = e
  BY <1>1, <1>2, <1>3, AppendedLog
<1>5. Typed(p) /\ Opened(p) /\ \A i \in DOMAIN p.log : p.log[i].turn <= t
  <2>1. Opened(p)
    BY <1>1, <1>2, <1>3, ReplyOpened
  <2>2. \A i \in DOMAIN p.log : p.log[i].turn <= t
    BY <1>1, <1>3, <1>4
  <2> QED
    BY <1>2, <2>1, <2>2 DEF Sound
<1>6. n \in Replies(p, t)
  <2> HIDE DEF n
  <2> QED
    BY <1>3, <1>4 DEF Replies
<1>7. IsFile(lines) /\ N = Cardinality(Heads(p)) /\ N >= 1
  <2>1. IsFile(lines) /\ N = Cardinality(Heads(p))
    BY <1>2, ExportWrites
  <2>2. PICK c \in Candidates(p, t) : TRUE
    BY <1>1, <1>2, <1>6, SelectedIs
  <2>3. \E k, m : StandsAt(p, t, c, k, m)
    BY <1>1, <1>2, ReadingWritten
  <2>4. \E k : k \in 1 .. N
    BY <2>3 DEF StandsAt
  <2> HIDE DEF lines, N
  <2>5. N \in Nat
    BY <2>1 DEF IsFile, N
  <2> QED
    BY <2>1, <2>4, <2>5
<1> HIDE DEF lines, N
<1>8. /\ IsFile(L) /\ Len(L) = N
      /\ \A k \in 1 .. N :
           /\ L[k].user = lines[k].user /\ DOMAIN L[k].swipes = DOMAIN lines[k].swipes
           /\ \A m \in DOMAIN lines[k].swipes :
                k # N \/ m # lines[k].id + 1 => L[k].swipes[m] = lines[k].swipes[m]
  BY <1>7, RewrittenFile DEF N
<1> HIDE DEF L
<1>9. Sound(r) /\ Shown(r) /\ Opened(r) /\ Export(r) = L
  BY <1>8, ImportReads
<1> HIDE DEF r
<1>10. ASSUME Picks(s, t) = {}
       PROVE  Selected(p, t) = n
  <2>1. Picks(p, t) = {}
    BY <1>1, <1>2, <1>3, <1>10, GrownLog
  <2>2. Candidates(p, t) = Replies(p, t)
    BY <2>1 DEF Candidates, Materialized
  <2>3. n \in Nat /\ \A i \in Candidates(p, t) : i <= n /\ i \in Nat
    BY <1>1, <1>4 DEF Candidates, Replies
  <2>4. Newest(Candidates(p, t)) = n
    <3> HIDE DEF n
    <3> QED
      BY <1>6, <2>2, <2>3 DEF Newest
  <2> QED
    BY <2>1, <2>4 DEF Selected
<1>11. ASSUME Picks(s, t) = {}, NEW u \in Nat, NEW c \in Candidates(s, u)
       PROVE  \E v \in Nat : \E d \in Candidates(r, v) : r.log[d].text = s.log[c].text
  <2>1. c \in Candidates(p, u) /\ p.log[c].text = s.log[c].text /\ c \in DOMAIN s.log
    BY <1>2 DEF KeepsReadings, Candidates, Replies
  <2>2. PICK k, m : StandsAt(p, u, c, k, m)
    BY <1>2, <2>1, ReadingWritten
  <2>3. /\ k \in 1 .. N /\ lines[k].user = FALSE /\ m \in DOMAIN lines[k].swipes
        /\ lines[k].swipes[m] = s.log[c].text
        /\ lines[k].id + 1 = m => c = Selected(p, u)
        /\ InOrder(Heads(p))[k] \in Replies(p, u)
    BY <2>1, <2>2 DEF StandsAt, lines, N
  <2>4. k # N \/ m # lines[k].id + 1
    <3> SUFFICES ASSUME k = N, m = lines[k].id + 1 PROVE FALSE
      OBVIOUS
    <3>1. p.log[InOrder(Heads(p))[N]].turn = t
      BY <1>1, <1>5, <1>6, <1>7, LastLine
    <3>2. u = t
      BY <2>3, <3>1 DEF Replies
    <3>3. c = n
      BY <1>10, <1>11, <2>3, <3>2
    <3> QED
      BY <1>4, <2>1, <3>3
  <2>5. /\ k \in 1 .. Len(Export(r)) /\ Export(r)[k].user = FALSE
        /\ m \in DOMAIN Export(r)[k].swipes /\ Export(r)[k].swipes[m] = s.log[c].text
    BY <1>8, <1>9, <2>3, <2>4
  <2>6. \E v \in Nat : \E d \in Candidates(r, v) : r.log[d].text = Export(r)[k].swipes[m]
    BY <1>9, <2>5, WrittenReading
  <2> QED
    BY <2>5, <2>6
<1>12. Picks(s, t) = {} => Retains(s, r)
  BY <1>11 DEF Retains
<1> QED
  BY <1>9, <1>12 DEF r, L, lines, p, t
-------------------------------------------------------------------------------
(* The invariant of the operations and the file together.                    *)

FileInv == SwipesInv /\ Opened(session)

LEMMA FileInit == Init => FileInv
  BY SwipesAssumption, SwipesInit, SeededOpened DEF Init, FileInv

\* Where the operations on the log leave the lines of the file.
LEMMA OperationsOpened ==
  ASSUME FileInv, Next
  PROVE  Opened(session')
<1> DEFINE s == session
           t == LastTurn(s)
<1>1. /\ Sound(s) /\ Shown(s) /\ Opened(s) /\ Typed(s)
      /\ t \in Int /\ t >= -1 /\ \A i \in DOMAIN s.log : s.log[i].turn <= t
      /\ \A i \in DOMAIN s.log : s.log[i].turn \in Nat
      /\ made \in Nat
  BY LastTurnIsLast, HeadsTyped DEF FileInv, SwipesInv, Sound, Event
<1> HIDE DEF t
<1>2. CASE OpenTurn
  <2> DEFINE e == User(t + 1, made + 1)
  <2>1. e \in Event /\ e.turn = t + 1
    BY <1>1 DEF User, Event
  <2>2. session'.log = Append(s.log, e)
    BY <1>2 DEF OpenTurn, Surfaced, t
  <2>3. \A i \in DOMAIN s.log : s.log[i].turn < e.turn
    <3> HIDE DEF s, e
    <3> QED
      BY <1>1, <2>1
  <2> HIDE DEF s, e
  <2> QED
    BY <1>1, <2>1, <2>2, <2>3, LineOpened
<1>3. CASE Generate
  <2> DEFINE e == Reply(t, made + 1)
  <2>1. t \in Nat /\ made + 1 \in Nat /\ session' = AppendCandidate(s, t, made + 1)
    BY <1>1, <1>3 DEF Generate, t
  <2>2. e \in Event /\ e.type = "reply" /\ e.turn = t
    BY <2>1 DEF Reply, Event
  <2> HIDE DEF s
  <2>3. session'.log = Append(s.log, e)
    BY <1>1, <2>1, CandidateSound
  <2> HIDE DEF e
  <2> QED
    BY <1>1, <2>2, <2>3, ReplyOpened
<1>4. ASSUME NEW u \in 0 .. LastTurn(session), Swipe(u)
      PROVE  Opened(session')
  <2>1. u \in Nat /\ Nodes(s, u) # {}
    BY <1>1, <1>4 DEF Swipe, t
  <2>2. PICK c \in Candidates(s, u) : session' = Select(s, u, c)
    BY <1>4 DEF Swipe
  <2> QED
    BY <1>1, <2>1, <2>2, SelectOpened
<1> QED
  BY <1>2, <1>3, <1>4 DEF Next

\* Every operation, those through the file included, keeps the invariant, and
\* loses no reading of a conversation whose last turn nobody swiped.
LEMMA FileOperations ==
  ASSUME FileInv, FileNext
  PROVE  /\ FileInv'
         /\ Picks(session, LastTurn(session)) = {} => Retains(session, session')
<1>0. Sound(session) /\ Shown(session) /\ Opened(session) /\ made \in Nat
  BY DEF FileInv, SwipesInv
<1>1. CASE Next
  <2>1. Sound(session') /\ Shown(session') /\ KeepsReadings(session, session') /\ made' \in Nat
    BY <1>1, OperationsSound DEF FileInv
  <2>2. Opened(session')
    BY <1>1, OperationsOpened
  <2>3. Retains(session, session')
    BY <2>1 DEF KeepsReadings, Retains
  <2> QED
    BY <2>1, <2>2, <2>3 DEF FileInv, SwipesInv
<1>2. CASE Reload
  <2>1. session' = Import(Export(session)) /\ made' = made
    BY <1>2 DEF Reload
  <2>2. Sound(session') /\ Shown(session') /\ Opened(session') /\ Retains(session, session')
    BY <1>0, <2>1, ReloadRetains
  <2> QED
    BY <1>0, <2>1, <2>2 DEF FileInv, SwipesInv
<1>3. CASE GenerateTrimmed
  <2> DEFINE x == made + 1
             y == made + 2
             p == AppendCandidate(session, LastTurn(session), x)
  <2>1. LastTurn(session) >= 0 /\ session' = Import(Rewritten(Export(p), y)) /\ made' = y
    BY <1>3 DEF GenerateTrimmed
  <2>2. x \in Nat /\ y \in Nat
    BY <1>0
  <2> HIDE DEF x, y
  <2>3. /\ Sound(session') /\ Shown(session') /\ Opened(session')
        /\ Picks(session, LastTurn(session)) = {} => Retains(session, session')
    BY <1>0, <2>1, <2>2, TrimRetains
  <2> QED
    BY <2>1, <2>2, <2>3 DEF FileInv, SwipesInv
<1> QED
  BY <1>1, <1>2, <1>3 DEF FileNext

LEMMA FileStep == FileInv /\ [FileNext]_vars => FileInv'
<1>1. FileInv /\ FileNext => FileInv'
  BY FileOperations
<1>2. FileInv /\ UNCHANGED vars => FileInv'
  BY DEF vars, FileInv, SwipesInv
<1> QED
  BY <1>1, <1>2

LEMMA FileInvAlways == FileSpec => []FileInv
  BY FileInit, FileStep, PTL DEF FileSpec

LEMMA FileInvGives == FileInv => SwipesInv
  BY DEF FileInv

-------------------------------------------------------------------------------
(* What holds in every state that can be reached.                            *)

\* The log and its surface stay well formed: every node names an event.
THEOREM TypeOKHolds == FileSpec => []TypeOK
<1>1. SwipesInv => TypeOK
  BY DEF SwipesInv, Sound, Typed, TypeOK
<1> QED
  BY <1>1, FileInvAlways, FileInvGives, PTL

\* The model is sent exactly one reply of every turn that has one.
THEOREM OneReplyPerTurnHolds == FileSpec => []OneReplyPerTurn
<1>1. SwipesInv => OneReplyPerTurn
  BY DEF SwipesInv, Sound, OneReply, OneReplyPerTurn
<1> QED
  BY <1>1, FileInvAlways, FileInvGives, PTL

\* Swiping and rerolling keep every line at its place in the conversation.
THEOREM SurfaceInOrderHolds == FileSpec => []SurfaceInOrder
<1>1. SwipesInv => SurfaceInOrder
  BY DEF SwipesInv, Sound, Ordered, SurfaceInOrder
<1> QED
  BY <1>1, FileInvAlways, FileInvGives, PTL

\* Until a turn is rerolled after a swipe, the reading the page lists as selected
\* is the one in front of the model: a selection repeats exactly its text.
THEOREM SelectionShownHolds == FileSpec => []SelectionShown
<1>1. SwipesInv => SelectionShown
  <2> SUFFICES ASSUME SwipesInv, NEW t \in 0 .. LastTurn(session), NEW p \in Nodes(session, t),
                      Picks(session, t) = {}
                        \/ \A i \in Replies(session, t) : i < Newest(Picks(session, t))
               PROVE  session.log[session.surface[p]].text
                        = session.log[Selected(session, t)].text
    BY DEF SelectionShown
  <2> DEFINE s == session
             n == s.surface[p]
  <2>1. t \in Nat /\ Shown(s)
    BY LastTurnIsLast DEF SwipesInv, Sound
  <2>2. n \in Replies(s, t) /\ \A i \in Replies(s, t) : i <= n /\ i \in Nat
    <3>1. session.log \in Seq(Event)
      BY DEF SwipesInv, Sound, Typed
    <3>2. n \in Replies(s, t)
      BY DEF Nodes
    <3>3. \A i \in Replies(s, t) : i <= n
      BY <2>1 DEF Shown
    <3>4. \A i \in Replies(s, t) : i \in Nat
      BY <3>1 DEF Replies
    <3> QED
      BY <3>2, <3>3, <3>4
  <2> HIDE DEF s, n
  <2>3. CASE Picks(s, t) = {}
    <3>1. Candidates(s, t) = Replies(s, t)
      BY <2>3 DEF Candidates, Materialized
    <3>2. Newest(Candidates(s, t)) = n
      BY <2>2, <3>1 DEF Newest
    <3> QED
      BY <2>3, <3>2 DEF Selected, s, n
  <2>4. CASE Picks(s, t) # {}
    <3> DEFINE k == Newest(Picks(s, t))
    <3>1. k \in Picks(s, t)
      BY <2>1, <2>4 DEF Shown, Newest
    <3>2. \A i \in Replies(s, t) : i < k
      BY <2>4 DEF s
    <3>3. /\ k - 1 \in Replies(s, t) /\ s.log[k].of \in Candidates(s, t)
          /\ s.log[s.log[k].of].text = s.log[k - 1].text
      BY <2>1, <3>1 DEF Shown
    <3>4. k \in Nat
      <4>1. session.log \in Seq(Event)
        BY DEF SwipesInv, Sound, Typed
      <4> QED
        BY <3>1, <4>1 DEF Picks, s
    <3> HIDE DEF k
    <3>5. n = k - 1
      BY <2>2, <3>2, <3>3, <3>4
    <3>6. Selected(s, t) = s.log[k].of
      BY <2>4, <3>3 DEF Selected, k
    <3> QED
      BY <3>3, <3>5, <3>6 DEF s, n
  <2> QED
    BY <2>3, <2>4
<1> QED
  BY <1>1, FileInvAlways, FileInvGives, PTL

\* Saving and loading a conversation and saving it again writes the same file,
\* for any conversation the operations can build.
THEOREM RoundTripHolds == FileSpec => []RoundTrip
<1>1. FileInv => RoundTrip
  <2>1. ASSUME NEW s, Sound(s), Shown(s)
        PROVE  Export(Import(Export(s))) = Export(s)
    BY <2>1, ReloadRetains
  <2> QED
    BY <2>1 DEF FileInv, SwipesInv, RoundTrip
<1> QED
  BY <1>1, FileInvAlways, PTL

\* No operation on the log or through the file makes a reading unswipable, of a
\* conversation whose last turn nobody swiped.
THEOREM EarlierReadingsStayHolds == FileSpec => EarlierReadingsStay
<1> DEFINE Stays ==
      Picks(session, LastTurn(session)) = {} =>
      \A t \in 0 .. LastTurn(session) :
        \A c \in Candidates(session, t) :
          \E u \in 0 .. LastTurn(session') : \E d \in Candidates(session', u) :
            session'.log[d].text = session.log[c].text
<1>1. ASSUME FileInv, FileNext
      PROVE  Stays
  <2> SUFFICES ASSUME Picks(session, LastTurn(session)) = {},
                      NEW t \in 0 .. LastTurn(session), NEW c \in Candidates(session, t)
               PROVE  \E u \in 0 .. LastTurn(session') : \E d \in Candidates(session', u) :
                        session'.log[d].text = session.log[c].text
    OBVIOUS
  <2>1. FileInv' /\ Retains(session, session')
    BY <1>1, FileOperations
  <2>2. Sound(session') /\ t \in Nat
    BY <1>1, <2>1, LastTurnIsLast DEF FileInv, SwipesInv, Sound
  <2>3. PICK u \in Nat : \E d \in Candidates(session', u) : session'.log[d].text = session.log[c].text
    BY <2>1, <2>2 DEF Retains
  <2>4. PICK d \in Candidates(session', u) : session'.log[d].text = session.log[c].text
    BY <2>3
  <2>5. d \in DOMAIN session'.log /\ session'.log[d].turn = u
    BY DEF Candidates, Replies
  <2>6. LastTurn(session') \in Int /\ u <= LastTurn(session')
    BY <2>2, <2>5, LastTurnIsLast DEF Sound
  <2> QED
    BY <2>4, <2>6
<1>2. FileInv /\ [FileNext]_vars => [Stays]_vars
  BY <1>1
<1> HIDE DEF Stays
<1>3. [][FileInv /\ [FileNext]_vars]_vars => [][Stays]_vars
  BY <1>2, PTL
<1>4. [][Stays]_vars => EarlierReadingsStay
  BY PTL DEF EarlierReadingsStay, Stays
<1> QED
  BY <1>3, <1>4, FileInvAlways, PTL DEF FileSpec
===============================================================================
