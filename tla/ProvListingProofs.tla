------------------------- MODULE ProvListingProofs -------------------------
(***************************************************************************)
(* Proofs for module ProvListing: its variables stay in their ranges, and  *)
(* a listing misses no more entries than are removed meanwhile and repeats *)
(* no more than are created, for any directory and any size of a page.     *)
(*                                                                         *)
(* The offset cuts the directory in two: the entries it has passed and the *)
(* ones still to come.  A page moves entries from the second part to the   *)
(* first and lists them; a removal may carry one entry over the cut        *)
(* unlisted, a creation may carry one back that is listed already.         *)
(***************************************************************************)
EXTENDS ProvListing, FiniteSetTheorems, TLAPS

Typed ==
  /\ TypeOK
  /\ created \in Nat /\ removed \in Nat

(* The entries that stayed and that the offset has passed unlisted, and    *)
(* those that have been listed twice, or once and are still to come.       *)
Missed == {n \in stayed : listed[n] = 0 /\ Index(n) < offset}
Twice == {n \in stayed : listed[n] > 1 \/ (listed[n] = 1 /\ Index(n) >= offset)}

Drift ==
  /\ Cardinality(Missed) <= removed
  /\ Cardinality(Twice) <= created
  /\ \A n \in stayed : listed[n] <= IF Index(n) < offset THEN created + 1 ELSE created
  /\ listed[Dot] = IF offset >= 1 THEN 1 ELSE 0
  /\ listed[DotDot] = IF offset >= 2 THEN 1 ELSE 0
  /\ done => offset >= 2 /\ (~cut => offset >= AllLen)

-----------------------------------------------------------------------------
(* Places in a directory. *)

(* A set of names is finite and has at most N members. *)
LEMMA NamesFinite ==
  ASSUME NEW S \in SUBSET Names
  PROVE  IsFiniteSet(S) /\ Cardinality(S) \in 0..N
<1>1. N \in Nat
  BY ListingAssumption
<1>2. IsFiniteSet(1..N) /\ Cardinality(1..N) = N
  BY <1>1, FS_Interval
<1>3. IsFiniteSet(S) /\ Cardinality(S) <= Cardinality(1..N)
  BY <1>2, FS_Subset DEF Names
<1>4. Cardinality(S) \in Nat
  BY <1>3, FS_CardinalityType
<1> QED BY <1>1, <1>2, <1>3, <1>4

(* "." and ".." come first; an entry has a place in the list. *)
LEMMA PlaceRange ==
  ASSUME NEW S \in SUBSET Names, NEW n \in Names
  PROVE  /\ Place(S, n) \in Nat /\ Place(S, n) >= 2
         /\ n \in S => Place(S, n) < 2 + Cardinality(S)
<1> DEFINE B == {m \in S : m < n}
<1>1. B \in SUBSET Names /\ B \in SUBSET S
  OBVIOUS
<1>2. IsFiniteSet(S) /\ Cardinality(S) \in Nat /\ Cardinality(B) \in Nat
  BY <1>1, NamesFinite
<1>3. Cardinality(B) <= Cardinality(S) /\ (Cardinality(S) = Cardinality(B) => S = B)
  BY <1>1, <1>2, FS_Subset
<1>4. n \in S => S # B
  <2>1. ~(n < n)
    BY DEF Names
  <2> QED BY <2>1
<1>5. Place(S, n) = 2 + Cardinality(B)
  BY DEF Place
<1> HIDE DEF B
<1> QED BY <1>2, <1>3, <1>4, <1>5

(* No two entries have the same place, and the order is that of the names. *)
LEMMA PlaceOrder ==
  ASSUME NEW S \in SUBSET Names, NEW m \in S, NEW n \in S, m < n
  PROVE  Place(S, m) < Place(S, n)
<1> DEFINE A == {x \in S : x < m}
           B == {x \in S : x < n}
<1>1. m \in Int /\ n \in Int /\ \A x \in S : x \in Int
  BY DEF Names
<1>2. A \in SUBSET B /\ m \in B /\ m \notin A
  <2>1. ~(m < m) /\ \A x \in S : x < m => x < n
    BY <1>1
  <2> QED BY <2>1
<1>3. A \in SUBSET Names /\ B \in SUBSET Names
  OBVIOUS
<1>4. IsFiniteSet(B) /\ Cardinality(A) \in Nat /\ Cardinality(B) \in Nat
  BY <1>3, NamesFinite
<1>5. Cardinality(A) <= Cardinality(B) /\ (Cardinality(B) = Cardinality(A) => B = A)
  BY <1>2, <1>4, FS_Subset
<1>6. Place(S, m) = 2 + Cardinality(A) /\ Place(S, n) = 2 + Cardinality(B)
  BY DEF Place
<1> HIDE DEF A, B
<1> QED BY <1>2, <1>4, <1>5, <1>6

(* Entries at the same place are the same. *)
LEMMA PlaceUnique ==
  ASSUME NEW S \in SUBSET Names, NEW m \in S, NEW n \in S, Place(S, m) = Place(S, n)
  PROVE  m = n
<1>1. m \in Int /\ n \in Int /\ Place(S, m) \in Nat
  BY PlaceRange DEF Names
<1>2. CASE m < n
  BY <1>1, <1>2, PlaceOrder
<1>3. CASE n < m
  BY <1>1, <1>3, PlaceOrder
<1> QED BY <1>1, <1>2, <1>3

(* A new entry moves those behind it one place down. *)
LEMMA PlaceAdd ==
  ASSUME NEW S \in SUBSET Names, NEW x \in Names, x \notin S, NEW n \in Names
  PROVE  Place(S \cup {x}, n) = IF x < n THEN Place(S, n) + 1 ELSE Place(S, n)
<1> DEFINE A == {y \in S : y < n}
           B == {y \in S \cup {x} : y < n}
<1>1. A \in SUBSET Names /\ x \notin A
  OBVIOUS
<1>2. IsFiniteSet(A) /\ Cardinality(A) \in Nat
  BY <1>1, NamesFinite
<1>3. B = IF x < n THEN A \cup {x} ELSE A
  OBVIOUS
<1>4. Cardinality(A \cup {x}) = Cardinality(A) + 1
  BY <1>1, <1>2, FS_AddElement
<1>5. Place(S, n) = 2 + Cardinality(A) /\ Place(S \cup {x}, n) = 2 + Cardinality(B)
  BY DEF Place
<1> HIDE DEF A, B
<1> QED BY <1>2, <1>3, <1>4, <1>5

(* An entry that goes moves those behind it one place up. *)
LEMMA PlaceRemove ==
  ASSUME NEW S \in SUBSET Names, NEW x \in S, NEW n \in Names
  PROVE  Place(S \ {x}, n) = IF x < n THEN Place(S, n) - 1 ELSE Place(S, n)
<1> DEFINE T == S \ {x}
<1>1. T \in SUBSET Names /\ x \in Names /\ x \notin T /\ S = T \cup {x}
  OBVIOUS
<1>2. PICK U \in SUBSET Names : U = T
  BY <1>1
<1>3. Place(U \cup {x}, n) = IF x < n THEN Place(U, n) + 1 ELSE Place(U, n)
  BY <1>1, <1>2, PlaceAdd
<1>4. Place(U, n) \in Nat
  BY PlaceRange
<1>5. Place(S, n) = IF x < n THEN Place(T, n) + 1 ELSE Place(T, n)
  BY <1>1, <1>2, <1>3
<1> QED BY <1>2, <1>4, <1>5

(* One more entry on a side of the cut is at most one more in a count. *)
LEMMA OneMore ==
  ASSUME NEW S \in SUBSET Names, NEW T \in SUBSET Names, NEW x, T \subseteq S \cup {x}
  PROVE  Cardinality(T) <= Cardinality(S) + 1
<1>1. IsFiniteSet(S) /\ Cardinality(S) \in Nat /\ Cardinality(T) \in Nat
  BY NamesFinite
<1>2. /\ IsFiniteSet(S \cup {x})
      /\ Cardinality(S \cup {x}) = IF x \in S THEN Cardinality(S) ELSE Cardinality(S) + 1
  BY <1>1, FS_AddElement
<1>3. Cardinality(T) <= Cardinality(S \cup {x})
  BY <1>2, FS_Subset
<1> QED BY <1>1, <1>2, <1>3

(* Fewer entries are no more in a count. *)
LEMMA NoMore ==
  ASSUME NEW S \in SUBSET Names, NEW T \in SUBSET S
  PROVE  Cardinality(T) <= Cardinality(S)
BY NamesFinite, FS_Subset

-----------------------------------------------------------------------------
(* The variables stay in their ranges. *)

(* The listing begins with every variable in its range. *)
LEMMA TypedInit == Init => Typed
<1> SUFFICES ASSUME Init PROVE Typed
  OBVIOUS
<1>1. N \in Nat
  BY ListingAssumption
<1>2. offset \in 0..(N + 2) /\ created \in Nat /\ removed \in Nat
  BY <1>1 DEF Init
<1>3. listed \in [Names \cup {Dot, DotDot} -> Nat]
  BY DEF Init
<1>4. present \subseteq Names /\ stayed \subseteq present /\ done \in BOOLEAN /\ cut \in BOOLEAN
  BY DEF Init
<1> QED BY <1>2, <1>3, <1>4 DEF Typed, TypeOK

(* What a page does: it lists what lies between the offset and its end.    *)
(* An empty one ends the listing and leaves everything as it was.          *)
LEMMA ReaddirEffect ==
  ASSUME Typed, NEW room \in 1..PageMax, NEW len \in 2..AllLen, Readdir(room, len)
  PROVE  \E end \in Nat :
           /\ end <= AllLen /\ ~done
           /\ \A n \in DOMAIN listed :
                IF n \in All /\ Index(n) >= offset /\ Index(n) < end /\ listed[n] < ListedMax
                  THEN listed'[n] = listed[n] + 1 ELSE listed'[n] = listed[n]
           /\ \/ end <= offset /\ offset >= len /\ done' /\ offset' = offset
              \/ end > offset /\ offset' = end /\ ~done'
           /\ listed' \in [Names \cup {Dot, DotDot} -> Nat]
           /\ ~cut' => len >= AllLen
           /\ UNCHANGED <<present, stayed, created, removed>>
<1>1. N \in Nat /\ offset \in Nat /\ room \in Nat /\ room >= 1
  BY ListingAssumption DEF Typed, TypeOK
<1>2. Cardinality(present) \in 0..N
  BY NamesFinite DEF Typed, TypeOK
<1>3. AllLen \in Nat
  BY <1>1, <1>2 DEF AllLen
<1>4. PICK end \in Nat : end = IF offset + room < len THEN offset + room ELSE len
  BY <1>1, <1>3
<1>5. /\ ~done
      /\ listed' = [n \in DOMAIN listed |->
           IF n \in {x \in All : Index(x) \in offset..(end - 1)} /\ listed[n] < ListedMax
             THEN listed[n] + 1 ELSE listed[n]]
      /\ IF end <= offset THEN done' = TRUE /\ UNCHANGED offset
                          ELSE offset' = NextOff(end - 1) /\ UNCHANGED done
      /\ cut' = (len < AllLen)
      /\ UNCHANGED <<present, stayed, created, removed>>
  BY <1>4 DEF Readdir
<1>6. end <= AllLen /\ (end <= offset => offset >= len)
  BY <1>1, <1>3, <1>4
<1>7. ASSUME NEW n \in All
      PROVE  Index(n) \in offset..(end - 1) <=> (Index(n) >= offset /\ Index(n) < end)
  <2>1. Index(n) \in Int
    BY PlaceRange DEF Index, All, Typed, TypeOK
  <2> QED BY <1>1, <2>1
<1>8. NextOff(end - 1) = end
  BY DEF NextOff
<1>9. DOMAIN listed = Names \cup {Dot, DotDot} /\ \A n \in DOMAIN listed : listed[n] \in Nat
  BY DEF Typed, TypeOK
<1>10. listed' \in [Names \cup {Dot, DotDot} -> Nat]
  BY <1>5, <1>9
<1>11. \A n \in DOMAIN listed :
         IF n \in All /\ Index(n) >= offset /\ Index(n) < end /\ listed[n] < ListedMax
           THEN listed'[n] = listed[n] + 1 ELSE listed'[n] = listed[n]
  BY <1>5, <1>7
<1>12. ~cut' => len >= AllLen
  <2>1. ~cut' => ~(len < AllLen)
    BY <1>5, Zenon
  <2> QED BY <1>3, <2>1
<1> QED BY <1>1, <1>5, <1>6, <1>8, <1>10, <1>11, <1>12

(* Every step leaves the variables in their ranges. *)
LEMMA TypedStep == Typed /\ [Next]_vars => Typed'
<1> SUFFICES ASSUME Typed, [Next]_vars PROVE Typed'
  OBVIOUS
<1>1. N \in Nat
  BY ListingAssumption
<1>2. ASSUME NEW room \in 1..PageMax, NEW len \in 2..AllLen, Readdir(room, len) PROVE Typed'
  <2>1. PICK end \in Nat :
          /\ end <= AllLen
          /\ \/ end <= offset /\ done' /\ offset' = offset
             \/ end > offset /\ offset' = end /\ ~done'
          /\ listed' \in [Names \cup {Dot, DotDot} -> Nat]
          /\ UNCHANGED <<present, stayed, created, removed>>
    BY <1>2, ReaddirEffect
  <2>2. Cardinality(present) \in 0..N
    BY NamesFinite DEF Typed, TypeOK
  <2>3. offset' \in 0..(N + 2)
    BY <1>1, <2>1, <2>2 DEF AllLen, Typed, TypeOK
  <2>4. done' \in BOOLEAN /\ cut' \in BOOLEAN
    <3>1. cut' = (len < AllLen) /\ (len < AllLen) \in BOOLEAN
      BY <1>2 DEF Readdir
    <3>2. done' \in BOOLEAN
      BY <1>2 DEF Readdir, Typed, TypeOK
    <3> QED BY <3>1, <3>2, Zenon
  <2> QED BY <2>1, <2>3, <2>4 DEF Typed, TypeOK
<1>3. ASSUME NEW n \in Names, Create(n) PROVE Typed'
  BY <1>3 DEF Create, Typed, TypeOK
<1>4. ASSUME NEW n \in Names, Remove(n) PROVE Typed'
  BY <1>4 DEF Remove, Typed, TypeOK
<1>5. CASE UNCHANGED vars
  BY <1>5 DEF vars, Typed, TypeOK
<1> QED BY <1>2, <1>3, <1>4, <1>5 DEF Next, ReaddirStep

(* Every variable keeps its range, and the offset never points beyond what *)
(* a directory of N names can hold.                                        *)
THEOREM ListingTypeCorrect == FairSpec => []TypeOK
<1>1. Typed => TypeOK
  BY DEF Typed
<1> QED BY <1>1, TypedInit, TypedStep, PTL DEF FairSpec

-----------------------------------------------------------------------------
(* How far a listing drifts. *)

(* A listing begins with nothing missed and nothing listed. *)
LEMMA DriftInit == Init => Drift
<1> SUFFICES ASSUME Init PROVE Drift
  OBVIOUS
<1>1. \A n \in present : Index(n) \in Nat
  BY PlaceRange DEF Init, Index
<1>2. \A n \in stayed : ~(Index(n) < offset) /\ listed[n] = 0
  BY <1>1 DEF Init
<1>3. Missed = {} /\ Twice = {}
  BY <1>2 DEF Missed, Twice
<1>4. Cardinality({}) = 0
  BY FS_EmptySet
<1> QED BY <1>2, <1>3, <1>4 DEF Init, Drift, Dot, DotDot

(* The place of an entry, and what Drift says of it. *)
LEMMA StayedParts ==
  ASSUME Typed
  PROVE  /\ offset \in Nat /\ created \in Nat /\ removed \in Nat
         /\ stayed \in SUBSET Names /\ present \in SUBSET Names
         /\ Missed \in SUBSET Names /\ Twice \in SUBSET Names
         /\ \A n \in Names : Index(n) = Place(present, n)
         /\ \A n \in Names : Index(n) \in Nat /\ Index(n) >= 2 /\ listed[n] \in Nat
<1>1. stayed \in SUBSET Names /\ present \in SUBSET Names
  BY DEF Typed, TypeOK
<1>2. \A n \in Names : Index(n) = Place(present, n)
  <2>1. \A n \in Names : n # Dot /\ n # DotDot
    BY ListingAssumption DEF Names, Dot, DotDot
  <2> QED BY <2>1 DEF Index
<1>3. \A n \in Names : Index(n) \in Nat /\ Index(n) >= 2 /\ listed[n] \in Nat
  BY <1>1, <1>2, PlaceRange DEF Typed, TypeOK
<1>4. offset \in Nat
  BY ListingAssumption DEF Typed, TypeOK
<1>5. Missed \in SUBSET Names /\ Twice \in SUBSET Names
  BY <1>1 DEF Missed, Twice
<1> QED BY <1>1, <1>2, <1>3, <1>4, <1>5 DEF Typed

(* A page lists what it carries over the cut, so it misses nothing and     *)
(* repeats only what was waiting to be repeated.                           *)
LEMMA ReaddirDrift ==
  ASSUME Typed, Drift, NEW room \in 1..PageMax, NEW len \in 2..AllLen, Readdir(room, len)
  PROVE  Drift'
<1>1. PICK end \in Nat :
        /\ end <= AllLen /\ ~done
        /\ \A n \in DOMAIN listed :
             IF n \in All /\ Index(n) >= offset /\ Index(n) < end /\ listed[n] < ListedMax
               THEN listed'[n] = listed[n] + 1 ELSE listed'[n] = listed[n]
        /\ \/ end <= offset /\ offset >= len /\ done' /\ offset' = offset
           \/ end > offset /\ offset' = end /\ ~done'
        /\ ~cut' => len >= AllLen
        /\ UNCHANGED <<present, stayed, created, removed>>
  BY ReaddirEffect
<1>2. /\ offset \in Nat /\ created \in Nat /\ removed \in Nat
      /\ stayed \in SUBSET Names /\ present \in SUBSET Names
      /\ Missed \in SUBSET Names /\ Twice \in SUBSET Names
      /\ \A n \in Names : Index(n) \in Nat /\ listed[n] \in Nat
  BY StayedParts
<1>3. \A n : Index(n)' = Index(n)
  BY <1>1 DEF Index
<1>4. AllLen' = AllLen
  BY <1>1 DEF AllLen
<1>5. ListedMax \in Nat /\ ListedMax >= 2
  BY ListingAssumption DEF ListedMax
<1>6. DOMAIN listed = Names \cup {Dot, DotDot} /\ stayed \subseteq All
  BY DEF Typed, TypeOK, All
<1>7. ASSUME NEW n \in stayed
      PROVE  /\ n \in Names /\ Index(n) \in Nat /\ listed[n] \in Nat
             /\ IF Index(n) >= offset /\ Index(n) < end /\ listed[n] < ListedMax
                  THEN listed'[n] = listed[n] + 1 ELSE listed'[n] = listed[n]
             /\ listed[n] <= IF Index(n) < offset THEN created + 1 ELSE created
  BY <1>1, <1>2, <1>6 DEF Drift
<1>8. Missed' \subseteq Missed
  <2> SUFFICES ASSUME NEW n \in stayed, listed'[n] = 0, Index(n) < offset'
               PROVE  listed[n] = 0 /\ Index(n) < offset
    BY <1>1, <1>3 DEF Missed
  <2> QED BY <1>1, <1>2, <1>5, <1>7
<1>9. Twice' \subseteq Twice
  <2> SUFFICES ASSUME NEW n \in stayed, listed'[n] > 1 \/ (listed'[n] = 1 /\ Index(n) >= offset')
               PROVE  listed[n] > 1 \/ (listed[n] = 1 /\ Index(n) >= offset)
    BY <1>1, <1>3 DEF Twice
  <2> QED BY <1>1, <1>2, <1>5, <1>7
<1>10. Cardinality(Missed') <= removed' /\ Cardinality(Twice') <= created'
  <2>1. Cardinality(Missed') <= Cardinality(Missed) /\ Cardinality(Twice') <= Cardinality(Twice)
    BY <1>2, <1>8, <1>9, NoMore
  <2>2. /\ Cardinality(Missed) \in Nat /\ Cardinality(Twice) \in Nat
        /\ Cardinality(Missed') \in Nat /\ Cardinality(Twice') \in Nat
    BY <1>2, <1>8, <1>9, NamesFinite
  <2> QED BY <1>1, <1>2, <2>1, <2>2 DEF Drift
<1>11. ASSUME NEW n \in stayed
       PROVE  listed'[n] <= IF Index(n) < offset' THEN created + 1 ELSE created
  BY <1>1, <1>2, <1>5, <1>7
<1>12. /\ Index(Dot) = 0 /\ Index(DotDot) = 1
       /\ Dot \in DOMAIN listed /\ DotDot \in DOMAIN listed /\ Dot \in All /\ DotDot \in All
  BY <1>6 DEF Index, Dot, DotDot, All
<1>13. /\ listed'[Dot] = IF offset' >= 1 THEN 1 ELSE 0
       /\ listed'[DotDot] = IF offset' >= 2 THEN 1 ELSE 0
  <2>1. /\ listed[Dot] = IF offset >= 1 THEN 1 ELSE 0
        /\ listed[DotDot] = IF offset >= 2 THEN 1 ELSE 0
    BY DEF Drift
  <2>2. IF 0 >= offset /\ 0 < end /\ listed[Dot] < ListedMax
          THEN listed'[Dot] = listed[Dot] + 1 ELSE listed'[Dot] = listed[Dot]
    BY <1>1, <1>12
  <2>3. IF 1 >= offset /\ 1 < end /\ listed[DotDot] < ListedMax
          THEN listed'[DotDot] = listed[DotDot] + 1 ELSE listed'[DotDot] = listed[DotDot]
    BY <1>1, <1>12
  <2> QED BY <1>1, <1>2, <1>5, <2>1, <2>2, <2>3
<1>14. done' => offset' >= 2 /\ (~cut' => offset' >= AllLen')
  <2>1. len \in Int /\ len >= 2 /\ AllLen \in Int
    BY <1>2, NamesFinite DEF AllLen
  <2> QED BY <1>1, <1>2, <1>4, <2>1
<1> QED BY <1>1, <1>3, <1>10, <1>11, <1>13, <1>14 DEF Drift

(* An entry that is created moves at most one listed entry back over the   *)
(* cut, and no unlisted one forward.                                       *)
LEMMA CreateDrift ==
  ASSUME Typed, Drift, NEW x \in Names, Create(x)
  PROVE  Drift'
<1>1. /\ ~done /\ x \notin present /\ present' = present \cup {x} /\ created' = created + 1
      /\ UNCHANGED <<offset, listed, done, cut, stayed, removed>>
  BY DEF Create
<1>2. /\ offset \in Nat /\ created \in Nat /\ removed \in Nat
      /\ stayed \in SUBSET Names /\ present \in SUBSET Names
      /\ Missed \in SUBSET Names /\ Twice \in SUBSET Names
      /\ \A n \in Names : Index(n) = Place(present, n)
      /\ \A n \in Names : Index(n) \in Nat /\ listed[n] \in Nat
  BY StayedParts
<1>3. \A n \in Names : Index(n)' = IF x < n THEN Index(n) + 1 ELSE Index(n)
  <2> TAKE n \in Names
  <2>1. Index(n)' = Place(present', n)
    BY ListingAssumption DEF Index, Names, Dot, DotDot
  <2> QED BY <1>1, <1>2, <2>1, PlaceAdd
<1>4. stayed \subseteq present
  BY DEF Typed, TypeOK
<1>5. Missed' \subseteq Missed
  BY <1>1, <1>2, <1>3 DEF Missed
<1>6. PICK y : \A n \in stayed : Index(n) + 1 = offset => n = y
  <2>1. \A m, n \in stayed : Index(m) + 1 = offset /\ Index(n) + 1 = offset => m = n
    <3> TAKE m, n \in stayed
    <3>1. Index(m) + 1 = offset /\ Index(n) + 1 = offset => Place(present, m) = Place(present, n)
      BY <1>2
    <3> QED BY <1>2, <1>4, <3>1, PlaceUnique
  <2> QED BY <2>1
<1>7. Twice' \subseteq Twice \cup {y}
  <2> SUFFICES ASSUME NEW n \in stayed, n # y,
                      listed[n] > 1 \/ (listed[n] = 1 /\ Index(n)' >= offset)
               PROVE  listed[n] > 1 \/ (listed[n] = 1 /\ Index(n) >= offset)
    BY <1>1 DEF Twice
  <2> QED BY <1>2, <1>3, <1>6
<1>8. Twice' \in SUBSET Names
  BY <1>1, <1>2 DEF Twice
<1>9. Cardinality(Missed') <= removed' /\ Cardinality(Twice') <= created'
  <2>1. Cardinality(Missed') <= Cardinality(Missed) /\ Cardinality(Twice') <= Cardinality(Twice) + 1
    BY <1>2, <1>5, <1>7, <1>8, NoMore, OneMore
  <2>2. /\ Cardinality(Missed) \in Nat /\ Cardinality(Twice) \in Nat
        /\ Cardinality(Missed') \in Nat /\ Cardinality(Twice') \in Nat
    BY <1>2, <1>5, <1>8, NamesFinite
  <2> QED BY <1>1, <1>2, <2>1, <2>2 DEF Drift
<1>10. \A n \in stayed : listed[n] <= IF Index(n)' < offset THEN created + 2 ELSE created + 1
  <2> TAKE n \in stayed
  <2>1. listed[n] <= IF Index(n) < offset THEN created + 1 ELSE created
    BY DEF Drift
  <2> QED BY <1>2, <1>3, <2>1
<1>11. \A n \in stayed' : listed'[n] <= IF Index(n)' < offset' THEN created' + 1 ELSE created'
  BY <1>1, <1>2, <1>10
<1> QED BY <1>1, <1>9, <1>11 DEF Drift

(* An entry that is removed moves at most one unlisted entry forward over  *)
(* the cut, and none back.                                                 *)
LEMMA RemoveDrift ==
  ASSUME Typed, Drift, NEW x \in Names, Remove(x)
  PROVE  Drift'
<1>1. /\ ~done /\ x \in present /\ present' = present \ {x} /\ stayed' = stayed \ {x}
      /\ removed' = removed + 1 /\ UNCHANGED <<offset, listed, done, cut, created>>
  BY DEF Remove
<1>2. /\ offset \in Nat /\ created \in Nat /\ removed \in Nat
      /\ stayed \in SUBSET Names /\ present \in SUBSET Names
      /\ Missed \in SUBSET Names /\ Twice \in SUBSET Names
      /\ \A n \in Names : Index(n) = Place(present, n)
      /\ \A n \in Names : Index(n) \in Nat /\ listed[n] \in Nat
  BY StayedParts
<1>3. \A n \in Names : Index(n)' = IF x < n THEN Index(n) - 1 ELSE Index(n)
  <2> TAKE n \in Names
  <2>1. Index(n)' = Place(present', n)
    BY ListingAssumption DEF Index, Names, Dot, DotDot
  <2> QED BY <1>1, <1>2, <2>1, PlaceRemove
<1>4. stayed \subseteq present
  BY DEF Typed, TypeOK
<1>5. Twice' \subseteq Twice
  BY <1>1, <1>2, <1>3 DEF Twice
<1>6. PICK y : \A n \in stayed : Index(n) = offset => n = y
  <2>1. \A m, n \in stayed : Index(m) = offset /\ Index(n) = offset => m = n
    BY <1>2, <1>4, PlaceUnique
  <2> QED BY <2>1
<1>7. Missed' \subseteq Missed \cup {y}
  <2> SUFFICES ASSUME NEW n \in stayed, n # y, Index(n)' < offset PROVE Index(n) < offset
    BY <1>1 DEF Missed
  <2> QED BY <1>2, <1>3, <1>6
<1>8. Missed' \in SUBSET Names
  BY <1>1, <1>2 DEF Missed
<1>9. Cardinality(Missed') <= removed' /\ Cardinality(Twice') <= created'
  <2>1. Cardinality(Twice') <= Cardinality(Twice) /\ Cardinality(Missed') <= Cardinality(Missed) + 1
    BY <1>2, <1>5, <1>7, <1>8, NoMore, OneMore
  <2>2. /\ Cardinality(Missed) \in Nat /\ Cardinality(Twice) \in Nat
        /\ Cardinality(Missed') \in Nat /\ Cardinality(Twice') \in Nat
    BY <1>2, <1>5, <1>8, NamesFinite
  <2> QED BY <1>1, <1>2, <2>1, <2>2 DEF Drift
<1>10. \A n \in stayed : listed[n] <= IF Index(n)' < offset THEN created + 1 ELSE created
  <2> TAKE n \in stayed
  <2>1. listed[n] <= IF Index(n) < offset THEN created + 1 ELSE created
    BY DEF Drift
  <2> QED BY <1>2, <1>3, <2>1
<1>11. \A n \in stayed' : listed'[n] <= IF Index(n)' < offset' THEN created' + 1 ELSE created'
  BY <1>1, <1>10
<1> QED BY <1>1, <1>9, <1>11 DEF Drift

(* A listing that has ended on a whole read has passed every entry, so it  *)
(* has missed no more entries than were removed meanwhile and repeated no  *)
(* more than were created: of a directory nobody changes it is exact,      *)
(* whatever its size and however the replies divide it, reads that failed  *)
(* on the way included.                                                    *)
THEOREM ListingDriftIsBounded == FairSpec => []DriftBounded
<1>1. Typed /\ Drift => DriftBounded
  <2> SUFFICES ASSUME Typed, Drift, done PROVE DriftBounded
    BY DEF DriftBounded
  <2>1. /\ offset \in Nat /\ created \in Nat /\ removed \in Nat
        /\ stayed \in SUBSET Names /\ present \in SUBSET Names
        /\ \A n \in Names : Index(n) = Place(present, n)
        /\ \A n \in Names : Index(n) \in Nat /\ listed[n] \in Nat
    BY StayedParts
  <2>2. offset >= 2
    BY DEF Drift
  <2>3. ~cut => {n \in stayed : listed[n] = 0} \subseteq Missed
    <3> SUFFICES ASSUME ~cut, NEW n \in stayed PROVE Index(n) < offset
      BY DEF Missed
    <3>1. Cardinality(present) \in Nat /\ offset >= 2 + Cardinality(present)
      BY <2>1, NamesFinite DEF Drift, AllLen
    <3>2. n \in present /\ n \in Names
      BY <2>1 DEF Typed, TypeOK
    <3>3. Place(present, n) < 2 + Cardinality(present)
      BY <2>1, <3>2, PlaceRange
    <3> QED BY <2>1, <3>1, <3>2, <3>3
  <2>4. ~cut => Cardinality({n \in stayed : listed[n] = 0}) <= removed
    <3> SUFFICES ASSUME ~cut PROVE Cardinality({n \in stayed : listed[n] = 0}) <= removed
      OBVIOUS
    <3>1. Missed \in SUBSET Names /\ {n \in stayed : listed[n] = 0} \in SUBSET Missed
      BY <2>1, <2>3 DEF Missed
    <3>2. Cardinality({n \in stayed : listed[n] = 0}) <= Cardinality(Missed)
      BY <3>1, NoMore
    <3>3. {n \in stayed : listed[n] = 0} \in SUBSET Names
      BY <2>1
    <3>4. Cardinality(Missed) \in Nat /\ Cardinality({n \in stayed : listed[n] = 0}) \in Nat
      BY <3>1, <3>3, NamesFinite
    <3> QED BY <2>1, <3>2, <3>4 DEF Drift
  <2>5. Cardinality({n \in stayed : listed[n] > 1}) <= created
    <3>1. Twice \in SUBSET Names /\ {n \in stayed : listed[n] > 1} \in SUBSET Twice
      BY <2>1 DEF Twice
    <3>2. Cardinality({n \in stayed : listed[n] > 1}) <= Cardinality(Twice)
      BY <3>1, NoMore
    <3>3. {n \in stayed : listed[n] > 1} \in SUBSET Names
      BY <2>1
    <3>4. Cardinality(Twice) \in Nat /\ Cardinality({n \in stayed : listed[n] > 1}) \in Nat
      BY <3>1, <3>3, NamesFinite
    <3> QED BY <2>1, <3>2, <3>4 DEF Drift
  <2>6. \A n \in stayed : listed[n] <= 1 + created
    <3> TAKE n \in stayed
    <3>1. listed[n] <= IF Index(n) < offset THEN created + 1 ELSE created
      BY DEF Drift
    <3> QED BY <2>1, <3>1
  <2>7. listed[Dot] = 1 /\ listed[DotDot] = 1
    BY <2>1, <2>2 DEF Drift
  <2> QED BY <2>4, <2>5, <2>6, <2>7 DEF DriftBounded
<1>2. Typed /\ Drift /\ [Next]_vars => Drift'
  <2> SUFFICES ASSUME Typed, Drift, [Next]_vars PROVE Drift'
    OBVIOUS
  <2>1. CASE UNCHANGED vars
    BY <2>1 DEF vars, Drift, Missed, Twice, Index, AllLen
  <2> QED BY <2>1, ReaddirDrift, CreateDrift, RemoveDrift DEF Next, ReaddirStep
<1> QED BY <1>1, <1>2, TypedInit, TypedStep, DriftInit, PTL DEF FairSpec
=============================================================================
