----------------------------- MODULE LoopProofs -----------------------------
(***************************************************************************)
(* What loops of the code compute.  Induction on the natural numbers comes *)
(* first: the property to be proved is given as the set of numbers that    *)
(* have it, which the provers can instantiate, and the existence of        *)
(* functions defined by recursion on an interval follows.  Then the loop   *)
(* of push_history() (src/history.rs), for every history and session.      *)
(***************************************************************************)
EXTENDS History, WellFoundedInduction, TLAPS

(* Every set of natural numbers that is not empty has a least element. *)
LEMMA LeastElement ==
  ASSUME NEW T \in SUBSET Nat, T # {}
  PROVE  \E n \in T : \A m \in T : n <= m
<1>1. PICK R : /\ IsWellFoundedOn(R, Nat)
               /\ \A m, n \in Nat : <<m, n>> \in R <=> m < n
  <2>1. \A m, n \in Nat : <<m, n>> \in OpToRel(<, Nat) <=> m < n
    BY DEF OpToRel
  <2> QED BY <2>1, NatLessThanWellFounded, Zenon
<1>2. IsWellFoundedOn(R, Nat) /\ T \subseteq Nat
  BY <1>1
<1>3. PICK n \in T : \A m \in T : ~(<<m, n>> \in R)
  BY <1>2, WFMin, Zenon
<1>4. \A m \in T : ~(m < n)
  BY <1>1, <1>3
<1> QED BY <1>4

(* A set that holds 0, and i whenever it holds i - 1, up to n, holds every *)
(* number up to n.                                                         *)
LEMMA UpTo ==
  ASSUME NEW n \in Nat, NEW S,
         0 \in S, \A i \in 1..n : i - 1 \in S => i \in S
  PROVE  \A i \in 0..n : i \in S
<1> DEFINE T == {i \in 0..n : i \notin S}
<1> SUFFICES ASSUME T # {} PROVE FALSE
  OBVIOUS
<1>1. T \in SUBSET Nat
  OBVIOUS
<1>2. PICK m \in T : \A i \in T : m <= i
  BY <1>1, LeastElement
<1>3. m \in 1..n /\ m - 1 \in 0..n /\ m - 1 \notin T
  BY <1>2
<1> QED BY <1>2, <1>3

(* The values a loop over 1..n goes through: it starts with c and computes *)
(* each value from the one before it and the index.                        *)
IsStep(step, V, n) == step \in [V \X (1..n) -> V]
IsHistory(f, step, V, c, n) ==
  /\ f \in [0..n -> V]
  /\ f[0] = c
  /\ \A i \in 1..n : f[i] = step[<<f[i - 1], i>>]

(* Every such loop has a history of values. *)
LEMMA LoopExists ==
  ASSUME NEW V, NEW c \in V, NEW n \in Nat, NEW step, IsStep(step, V, n)
  PROVE  \E f : IsHistory(f, step, V, c, n)
<1> USE DEF IsStep
<1> DEFINE Upto(f, k) == f[0] = c /\ \A i \in 1..k : f[i] = step[<<f[i - 1], i>>]
           S == {k \in 0..n : \E f \in [0..n -> V] : Upto(f, k)}
<1>1. 0 \in S
  <2>1. [i \in 0..n |-> c] \in [0..n -> V] /\ Upto([i \in 0..n |-> c], 0)
    OBVIOUS
  <2>2. \E f \in [0..n -> V] : Upto(f, 0)
    BY <2>1
  <2> HIDE DEF Upto
  <2> QED BY <2>2
<1>2. ASSUME NEW k \in 1..n, k - 1 \in S PROVE k \in S
  <2>1. PICK f \in [0..n -> V] : Upto(f, k - 1)
    BY <1>2
  <2> DEFINE v == step[<<f[k - 1], k>>]
             g == [f EXCEPT ![k] = v]
  <2>2. v \in V
    OBVIOUS
  <2>3. g \in [0..n -> V] /\ g[k] = v /\ \A i \in 0..n : i # k => g[i] = f[i]
    BY <2>2
  <2> HIDE DEF g
  <2>4. g[0] = c
    BY <2>1, <2>3
  <2>5. \A i \in 1..k : g[i] = step[<<g[i - 1], i>>]
    <3> TAKE i \in 1..k
    <3>1. i - 1 \in 0..n /\ i - 1 # k /\ g[i - 1] = f[i - 1]
      BY <2>3
    <3>2. CASE i = k
      BY <2>3, <3>1, <3>2
    <3>3. CASE i # k
      <4>1. i \in 1..(k - 1) /\ i \in 0..n
        BY <3>3
      <4> QED BY <2>1, <2>3, <3>1, <3>3, <4>1
    <3> QED BY <3>2, <3>3
  <2>6. Upto(g, k)
    BY <2>4, <2>5
  <2> HIDE DEF Upto
  <2> QED BY <2>3, <2>6
<1>3. n \in S
  <2> HIDE DEF S
  <2>1. \A i \in 0..n : i \in S
    BY <1>1, <1>2, UpTo
  <2> QED BY <2>1
<1>4. PICK f \in [0..n -> V] : Upto(f, n)
  BY <1>3
<1>5. IsHistory(f, step, V, c, n)
  BY <1>4 DEF IsHistory
<1> QED BY <1>5
-----------------------------------------------------------------------------
(* push_history() *)

PushStep(v, x, session, max) ==
  IF <<x>> = session \/ Len(v) = max - 1 THEN v ELSE Append(v, x)

(* The values of out go through the loop's body one by one. *)
LEMMA PushLoop ==
  ASSUME NEW S, NEW old \in Seq(S), NEW session \in Seq(S), NEW max
  PROVE  \E out : /\ out[0] = <<>>
                  /\ \A i \in 1..Len(old) :
                       out[i] = PushStep(out[i - 1], old[i], session, max)
                  /\ PushHistory(old, session, max) = session \o out[Len(old)]
<1>1. PICK n \in Nat : n = Len(old)
  OBVIOUS
<1> DEFINE step == [x \in Seq(S) \X (1..n) |-> PushStep(x[1], old[x[2]], session, max)]
<1>2. \A v \in Seq(S), i \in 1..n : PushStep(v, old[i], session, max) \in Seq(S)
  BY <1>1 DEF PushStep
<1>3. IsStep(step, Seq(S), n)
  BY <1>2 DEF IsStep
<1>4. \A v \in Seq(S), i \in 1..n :
        step[<<v, i>>] = PushStep(v, old[i], session, max)
  OBVIOUS
<1> HIDE DEF step
<1>5. <<>> \in Seq(S)
  OBVIOUS
<1>6. PICK f : IsHistory(f, step, Seq(S), <<>>, n)
  BY <1>3, <1>5, LoopExists
<1>7. f \in [0..n -> Seq(S)] /\ f[0] = <<>>
  BY <1>6, Zenon DEF IsHistory
<1>8. ASSUME NEW i \in 1..n
      PROVE  f[i] = PushStep(f[i - 1], old[i], session, max)
  <2>1. f[i - 1] \in Seq(S)
    BY <1>7
  <2>2. f[i] = step[<<f[i - 1], i>>]
    BY <1>6, Zenon DEF IsHistory
  <2> QED BY <1>4, <2>1, <2>2, Zenon
<1> DEFINE Rec(g) ==
      g = [i \in 0..n |-> IF i = 0 THEN <<>>
             ELSE IF <<old[i]>> = session \/ Len(g[i - 1]) = max - 1 THEN g[i - 1]
             ELSE Append(g[i - 1], old[i])]
<1>9. Rec(f)
  <2>1. ASSUME NEW i \in 0..n
        PROVE  f[i] = IF i = 0 THEN <<>>
                      ELSE IF <<old[i]>> = session \/ Len(f[i - 1]) = max - 1
                             THEN f[i - 1] ELSE Append(f[i - 1], old[i])
    <3>1. CASE i = 0
      BY <1>7, <3>1
    <3>2. CASE i # 0
      <4>1. i \in 1..n
        BY <3>2
      <4> QED BY <1>8, <3>2, <4>1 DEF PushStep
    <3> QED BY <3>1, <3>2
  <2> QED BY <1>7, <2>1
<1> DEFINE out == CHOOSE g : Rec(g)
<1>10. Rec(out)
  BY <1>9, Zenon
<1>11. PushHistory(old, session, max) = session \o out[n]
  BY <1>1 DEF PushHistory
<1>12. out[0] = <<>>
  <2>1. 0 \in 0..n
    OBVIOUS
  <2> QED BY <1>10, <2>1, Zenon
<1>13. ASSUME NEW i \in 1..n
       PROVE  out[i] = PushStep(out[i - 1], old[i], session, max)
  <2>1. i \in 0..n /\ i # 0
    OBVIOUS
  <2> QED BY <1>10, <2>1, Zenon DEF PushStep
<1> QED BY <1>1, <1>11, <1>12, <1>13

NoRepeat(s) == \A i, j \in 1..Len(s) : s[i] = s[j] => i = j

(* What is behind the session when n parts of the old text have been seen: *)
(* fewer than max of those parts, none of them the session, none twice if  *)
(* the old text has none twice, and the first ones not further back than   *)
(* they were.                                                              *)
IsRest(rest, old, n, session, max) ==
  /\ Len(rest) < max /\ Len(rest) <= n
  /\ \A j \in 1..Len(rest) : /\ <<rest[j]>> # session
                             /\ \E k \in 1..n : rest[j] = old[k]
  /\ NoRepeat(old) => NoRepeat(rest)
  /\ \A k \in 1..n : k < max /\ <<old[k]>> # session =>
       \E j \in 1..Len(rest) : j <= k /\ rest[j] = old[k]

(* One turn of the loop keeps that. *)
LEMMA PushTurn ==
  ASSUME NEW S, NEW old \in Seq(S), NEW session, NEW max \in Nat, 1 <= max,
         NEW n \in 1..Len(old), NEW v \in Seq(S),
         IsRest(v, old, n - 1, session, max)
  PROVE  /\ PushStep(v, old[n], session, max) \in Seq(S)
         /\ IsRest(PushStep(v, old[n], session, max), old, n, session, max)
<1> DEFINE w == PushStep(v, old[n], session, max)
<1>1. PICK m \in Nat : m = Len(v)
  OBVIOUS
<1>2. PICK x \in S : x = old[n]
  OBVIOUS
<1>3. m < max /\ m <= n - 1
  BY <1>1 DEF IsRest
<1>4. CASE <<x>> = session \/ m = max - 1
  <2>1. w = v
    BY <1>1, <1>2, <1>4 DEF PushStep
  <2>2. \A j \in 1..m : <<v[j]>> # session /\ \E k \in 1..n : v[j] = old[k]
    <3> TAKE j \in 1..m
    <3>1. <<v[j]>> # session /\ \E k \in 1..(n - 1) : v[j] = old[k]
      BY <1>1, Zenon DEF IsRest
    <3>2. PICK k \in 1..(n - 1) : v[j] = old[k]
      BY <3>1
    <3>3. k \in 1..n
      OBVIOUS
    <3> QED BY <3>1, <3>2, <3>3
  <2>3. ASSUME NEW k \in 1..n, k < max, <<old[k]>> # session
        PROVE  \E j \in 1..m : j <= k /\ v[j] = old[k]
    <3>1. k # n
      <4> SUFFICES ASSUME k = n PROVE FALSE
        OBVIOUS
      <4>1. <<x>> # session
        BY <1>2, <2>3
      <4>2. m = max - 1
        BY <1>4, <4>1
      <4> QED BY <1>3, <2>3, <4>2
    <3>2. k \in 1..(n - 1)
      BY <3>1
    <3> QED BY <1>1, <2>3, <3>2 DEF IsRest
  <2>4. NoRepeat(old) => NoRepeat(v)
    BY DEF IsRest
  <2>5. m <= n
    BY <1>3
  <2>6. IsRest(v, old, n, session, max)
    BY <1>1, <1>3, <2>2, <2>3, <2>4, <2>5, Zenon DEF IsRest
  <2> QED BY <2>1, <2>6
<1>5. CASE ~(<<x>> = session \/ m = max - 1)
  <2>1. w = Append(v, x)
    BY <1>1, <1>2, <1>5 DEF PushStep
  <2>2. w \in Seq(S) /\ Len(w) = m + 1 /\ w[m + 1] = x /\ \A j \in 1..m : w[j] = v[j]
    BY <1>1, <2>1
  <2> HIDE DEF w
  <2>3. m + 1 < max /\ m + 1 <= n
    BY <1>3, <1>5
  <2>4. \A j \in 1..m : <<v[j]>> # session /\ \E k \in 1..(n - 1) : v[j] = old[k]
    BY <1>1, Zenon DEF IsRest
  <2>5. ASSUME NEW j \in 1..(m + 1)
        PROVE  <<w[j]>> # session /\ \E k \in 1..n : w[j] = old[k]
    <3>1. CASE j = m + 1
      <4>1. n \in 1..n
        OBVIOUS
      <4> QED BY <1>2, <1>5, <2>2, <3>1, <4>1
    <3>2. CASE j # m + 1
      <4>1. j \in 1..m
        BY <3>2
      <4>2. w[j] = v[j] /\ <<v[j]>> # session
        BY <2>2, <2>4, <4>1
      <4>3. PICK k \in 1..(n - 1) : v[j] = old[k]
        BY <2>4, <4>1
      <4>4. k \in 1..n
        OBVIOUS
      <4> QED BY <4>2, <4>3, <4>4
    <3> QED BY <3>1, <3>2
  <2>6. ASSUME NoRepeat(old) PROVE NoRepeat(w)
    <3> SUFFICES ASSUME NEW i \in 1..(m + 1), NEW j \in 1..(m + 1), w[i] = w[j], i < j
                 PROVE  FALSE
      BY <2>2 DEF NoRepeat
    <3>1. i \in 1..m /\ w[i] = v[i]
      BY <2>2
    <3>2. PICK k \in 1..(n - 1) : v[i] = old[k]
      BY <2>4, <3>1
    <3>3. CASE j = m + 1
      <4>1. old[k] = old[n]
        BY <1>2, <2>2, <3>1, <3>2, <3>3
      <4>2. k \in 1..Len(old) /\ k # n
        OBVIOUS
      <4> QED BY <2>6, <4>1, <4>2 DEF NoRepeat
    <3>4. CASE j # m + 1
      <4>1. j \in 1..m /\ w[j] = v[j]
        BY <2>2, <3>4
      <4>2. v[i] = v[j]
        BY <3>1, <4>1
      <4>3. NoRepeat(v)
        BY <2>6 DEF IsRest
      <4>4. i = j
        BY <1>1, <3>1, <4>1, <4>2, <4>3 DEF NoRepeat
      <4> QED BY <4>4
    <3> QED BY <3>3, <3>4
  <2>7. ASSUME NEW k \in 1..n, k < max, <<old[k]>> # session
        PROVE  \E j \in 1..(m + 1) : j <= k /\ w[j] = old[k]
    <3>1. CASE k = n
      BY <1>2, <2>2, <2>3, <3>1
    <3>2. CASE k # n
      <4>1. k \in 1..(n - 1)
        BY <3>2
      <4>2. PICK j \in 1..m : j <= k /\ v[j] = old[k]
        BY <1>1, <2>7, <4>1 DEF IsRest
      <4>3. j \in 1..(m + 1) /\ w[j] = old[k]
        BY <2>2, <4>2
      <4> QED BY <4>2, <4>3
    <3> QED BY <3>1, <3>2
  <2>8. IsRest(w, old, n, session, max)
    BY <2>2, <2>3, <2>5, <2>6, <2>7 DEF IsRest
  <2> QED BY <2>2, <2>8 DEF w
<1> QED BY <1>4, <1>5

(* The rest is in the order of the old text; a part that is not the        *)
(* session is missing only if the ring is full of earlier ones; and if the *)
(* old text has no part twice, at most one of the parts seen is missing    *)
(* while there is room.                                                    *)
InOrder(rest, old, n, session, max) ==
  /\ \A i, j \in 1..Len(rest) : i < j =>
       \E a, b \in 1..n : a < b /\ rest[i] = old[a] /\ rest[j] = old[b]
  /\ \A k \in 1..n : <<old[k]>> # session =>
       \/ \E j \in 1..Len(rest) : rest[j] = old[k]
       \/ /\ Len(rest) = max - 1
          /\ \A j \in 1..Len(rest) : \E a \in 1..n : a < k /\ rest[j] = old[a]
  /\ NoRepeat(old) =>
       \/ Len(rest) = max - 1 \/ Len(rest) = n
       \/ Len(rest) = n - 1 /\ \E k \in 1..n : <<old[k]>> = session

(* One turn of the loop keeps the order. *)
LEMMA OrderTurn ==
  ASSUME NEW S, NEW old \in Seq(S), NEW session, NEW max \in Nat, 1 <= max,
         NEW n \in 1..Len(old), NEW v \in Seq(S),
         IsRest(v, old, n - 1, session, max), InOrder(v, old, n - 1, session, max)
  PROVE  InOrder(PushStep(v, old[n], session, max), old, n, session, max)
<1> DEFINE w == PushStep(v, old[n], session, max)
<1>1. PICK m \in Nat : m = Len(v)
  OBVIOUS
<1>2. PICK x \in S : x = old[n]
  OBVIOUS
<1>3. m < max /\ m <= n - 1
  BY <1>1 DEF IsRest
<1>4. \A j \in 1..m : \E k \in 1..(n - 1) : v[j] = old[k]
  BY <1>1, Zenon DEF IsRest
<1>5. \A i, j \in 1..m : i < j =>
        \E a, b \in 1..(n - 1) : a < b /\ v[i] = old[a] /\ v[j] = old[b]
  BY <1>1, Zenon DEF InOrder
<1>6. \A k \in 1..(n - 1) : <<old[k]>> # session =>
        \/ \E j \in 1..m : v[j] = old[k]
        \/ m = max - 1 /\ \A j \in 1..m : \E a \in 1..(n - 1) : a < k /\ v[j] = old[a]
  BY <1>1, Zenon DEF InOrder
<1>7. NoRepeat(old) =>
        \/ m = max - 1 \/ m = n - 1
        \/ m = n - 2 /\ \E k \in 1..(n - 1) : <<old[k]>> = session
  <2>1. (n - 1) - 1 = n - 2
    OBVIOUS
  <2> QED BY <1>1, <2>1 DEF InOrder
<1>8. 1..(n - 1) \subseteq 1..n
  OBVIOUS
<1>9. CASE <<x>> = session \/ m = max - 1
  <2>1. w = v
    BY <1>1, <1>2, <1>9 DEF PushStep
  <2>2. ASSUME NEW i \in 1..m, NEW j \in 1..m, i < j
        PROVE  \E a, b \in 1..n : a < b /\ v[i] = old[a] /\ v[j] = old[b]
    BY <1>5, <1>8, <2>2
  <2>3. ASSUME NEW k \in 1..n, <<old[k]>> # session
        PROVE  \/ \E j \in 1..m : v[j] = old[k]
               \/ m = max - 1 /\ \A j \in 1..m : \E a \in 1..n : a < k /\ v[j] = old[a]
    <3>1. CASE k = n
      <4>1. m = max - 1
        BY <1>2, <1>9, <2>3, <3>1
      <4>2. \A j \in 1..m : \E a \in 1..n : a < n /\ v[j] = old[a]
        BY <1>4
      <4> QED BY <3>1, <4>1, <4>2
    <3>2. CASE k # n
      <4>1. k \in 1..(n - 1)
        BY <3>2
      <4> QED BY <1>6, <1>8, <2>3, <4>1
    <3> QED BY <3>1, <3>2
  <2>4. ASSUME NoRepeat(old)
        PROVE  \/ m = max - 1 \/ m = n
               \/ m = n - 1 /\ \E k \in 1..n : <<old[k]>> = session
    <3> SUFFICES ASSUME m # max - 1 PROVE m = n - 1 /\ \E k \in 1..n : <<old[k]>> = session
      OBVIOUS
    <3>1. <<old[n]>> = session /\ n \in 1..n
      BY <1>2, <1>9
    <3>2. ASSUME NEW k \in 1..(n - 1), <<old[k]>> = session PROVE FALSE
      <4>1. old[k] = old[n]
        BY <3>1, <3>2
      <4>2. k \in 1..Len(old) /\ n \in 1..Len(old) /\ k # n
        OBVIOUS
      <4> QED BY <2>4, <4>1, <4>2 DEF NoRepeat
    <3>3. m = n - 1
      BY <1>7, <2>4, <3>2
    <3> QED BY <3>1, <3>3
  <2>5. InOrder(v, old, n, session, max)
    BY <1>1, <2>2, <2>3, <2>4, Zenon DEF InOrder
  <2> QED BY <2>1, <2>5
<1>10. CASE ~(<<x>> = session \/ m = max - 1)
  <2>1. w = Append(v, x)
    BY <1>1, <1>2, <1>10 DEF PushStep
  <2>2. w \in Seq(S) /\ Len(w) = m + 1 /\ w[m + 1] = x /\ \A j \in 1..m : w[j] = v[j]
    BY <1>1, <2>1
  <2> HIDE DEF w
  <2>3. ASSUME NEW i \in 1..(m + 1), NEW j \in 1..(m + 1), i < j
        PROVE  \E a, b \in 1..n : a < b /\ w[i] = old[a] /\ w[j] = old[b]
    <3>1. i \in 1..m /\ w[i] = v[i]
      BY <2>2, <2>3
    <3>2. CASE j = m + 1
      <4>1. PICK a \in 1..(n - 1) : v[i] = old[a]
        BY <1>4, <3>1
      <4>2. a \in 1..n /\ n \in 1..n /\ a < n
        OBVIOUS
      <4> QED BY <1>2, <2>2, <3>1, <3>2, <4>1, <4>2
    <3>3. CASE j # m + 1
      <4>1. j \in 1..m /\ w[j] = v[j]
        BY <2>2, <3>3
      <4> QED BY <1>5, <1>8, <2>3, <3>1, <4>1
    <3> QED BY <3>2, <3>3
  <2>4. ASSUME NEW k \in 1..n, <<old[k]>> # session
        PROVE  \E j \in 1..(m + 1) : w[j] = old[k]
    <3>1. CASE k = n
      BY <1>2, <2>2, <3>1
    <3>2. CASE k # n
      <4>1. k \in 1..(n - 1)
        BY <3>2
      <4>2. PICK j \in 1..m : v[j] = old[k]
        BY <1>6, <1>10, <2>4, <4>1
      <4>3. j \in 1..(m + 1)
        OBVIOUS
      <4> QED BY <2>2, <4>2, <4>3
    <3> QED BY <3>1, <3>2
  <2>5. ASSUME NoRepeat(old)
        PROVE  \/ m + 1 = max - 1 \/ m + 1 = n
               \/ m + 1 = n - 1 /\ \E k \in 1..n : <<old[k]>> = session
    BY <1>7, <1>8, <1>10, <2>5
  <2>6. InOrder(w, old, n, session, max)
    BY <2>2, <2>3, <2>4, <2>5 DEF InOrder
  <2> QED BY <2>6 DEF w
<1> QED BY <1>9, <1>10

(* push_history() puts the session first and behind it a rest of the old   *)
(* history in its order, for every history, session and size of the ring.  *)
THEOREM PushHistoryRing ==
  ASSUME NEW S, NEW old \in Seq(S), NEW session \in Seq(S), NEW max \in Nat, 1 <= max
  PROVE  \E rest \in Seq(S) : /\ PushHistory(old, session, max) = session \o rest
                              /\ IsRest(rest, old, Len(old), session, max)
                              /\ InOrder(rest, old, Len(old), session, max)
<1>1. PICK n \in Nat : n = Len(old)
  OBVIOUS
<1>2. PICK out : /\ out[0] = <<>>
                 /\ \A i \in 1..Len(old) :
                      out[i] = PushStep(out[i - 1], old[i], session, max)
                 /\ PushHistory(old, session, max) = session \o out[Len(old)]
  BY PushLoop
<1> DEFINE T == {i \in 0..n : /\ out[i] \in Seq(S)
                              /\ IsRest(out[i], old, i, session, max)
                              /\ InOrder(out[i], old, i, session, max)}
<1>3. 0 \in T
  <2>1. <<>> \in Seq(S) /\ Len(<<>>) = 0 /\ 1..0 = {}
    OBVIOUS
  <2>2. NoRepeat(<<>>)
    BY <2>1 DEF NoRepeat
  <2>3. IsRest(<<>>, old, 0, session, max)
    BY <2>1, <2>2 DEF IsRest
  <2>4. 0 \in 0..n /\ InOrder(<<>>, old, 0, session, max)
    BY <2>1 DEF InOrder
  <2> HIDE DEF T
  <2>5. /\ out[0] \in Seq(S) /\ IsRest(out[0], old, 0, session, max)
        /\ InOrder(out[0], old, 0, session, max)
    BY <1>2, <2>1, <2>3, <2>4, Zenon
  <2> QED BY <2>4, <2>5, Zenon DEF T
<1>4. ASSUME NEW i \in 1..n, i - 1 \in T PROVE i \in T
  <2>1. /\ out[i - 1] \in Seq(S) /\ IsRest(out[i - 1], old, i - 1, session, max)
        /\ InOrder(out[i - 1], old, i - 1, session, max)
    BY <1>4
  <2>2. out[i] = PushStep(out[i - 1], old[i], session, max)
    BY <1>1, <1>2
  <2>3. i \in 1..Len(old)
    BY <1>1
  <2> QED BY <2>1, <2>2, <2>3, PushTurn, OrderTurn
<1> HIDE DEF T
<1>5. \A i \in 0..n : i \in T
  BY <1>3, <1>4, UpTo
<1>6. n \in T
  BY <1>5
<1>7. /\ out[n] \in Seq(S) /\ IsRest(out[n], old, n, session, max)
      /\ InOrder(out[n], old, n, session, max)
  BY <1>6 DEF T
<1> QED BY <1>1, <1>2, <1>7
=============================================================================
