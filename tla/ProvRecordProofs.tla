-------------------------- MODULE ProvRecordProofs --------------------------
(***************************************************************************)
(* The properties of ProvRecord for every number of callers, stamps, files *)
(* and faults, every environment and every size of the history ring.       *)
(***************************************************************************)
EXTENDS ProvRecord, LoopProofs

(* The parts of the inductive invariant.  Typed gives every variable its   *)
(* range.                                                                  *)
Accesses == {"full", "denied", "unsupported"}
Values == (1..MaxStamps) \cup Seq(Parts) \cup {None, "set"}
ReadType == [at : 0..6, seen : [AllKeys -> Values], log : Seq(1..MaxStamps),
             status : {"idle", "reading", "done", "failed"}]
KeyType == [Keys -> (1..MaxStamps) \cup {None}]
HistType == Seq(Parts) \cup {None}

Typed ==
  /\ made \in Objs /\ cur \in 0..made /\ access \in Accesses
  /\ key \in [Objs -> KeyType] /\ hist \in [Objs -> HistType]
  /\ stamp \in Seq(StampType) /\ Len(stamp) <= MaxStamps
  /\ prior \in Seq(Parts) /\ faults \in Nat
  /\ rd \in ReadType /\ start \in (SUBSET AllKeys) \cup {None}
  /\ log \in [Objs -> Seq(1..MaxStamps)] /\ disturbed \in SUBSET Objs

(* A stamp of the overlay is a caller's, a stamp's file has been made; no  *)
(* stamp goes beyond its history.                                          *)
StampOK(s, top) ==
  /\ s.by = "overlay" => s.id \in Callers
  /\ s.obj \in 0..top /\ (s.by = "lsm" => s.obj # 0)
  /\ s.at <= Len(WriteOrder(s)) + 2

Sound == \A n \in 1..Len(stamp) : StampOK(stamp[n], made)

(* The history is a session and fewer than MAX_HISTORY parts. *)
HistOK(h) ==
  \E c \in Callers : Len(Session[c]) <= Len(h) /\ Len(h) < MAX_HISTORY + Len(Session[c])

Ringed == \A o \in Objs : hist[o] # None => HistOK(hist[o])
-----------------------------------------------------------------------------
(* Stamps and their types *)

(* One element of a sequence is replaced. *)
LEMMA ReplaceOne ==
  ASSUME NEW S, NEW q \in Seq(S), NEW n \in 1..Len(q), NEW e \in S
  PROVE  /\ [q EXCEPT ![n] = e] \in Seq(S)
         /\ Len([q EXCEPT ![n] = e]) = Len(q)
         /\ [q EXCEPT ![n] = e][n] = e
         /\ \A i \in 1..Len(q) : i # n => [q EXCEPT ![n] = e][i] = q[i]
OBVIOUS

(* A stamp writes at least two and at most five keys. *)
LEMMA OrderOfKeys ==
  ASSUME NEW s \in StampType
  PROVE  WriteOrder(s) \in Seq(Keys) /\ Len(WriteOrder(s)) \in 2..5
<1> DEFINE Opt(k) == IF k \in Env[s.id] THEN <<k>> ELSE <<>>
<1>1. \A k \in Keys : Opt(k) \in Seq(Keys) /\ Len(Opt(k)) \in 0..1
  OBVIOUS
<1> HIDE DEF Opt
<1>2. {"session", "tool", "turn", "intent", "ts"} \subseteq Keys
  BY DEF Keys
<1>3. /\ Opt("tool") \in Seq(Keys) /\ Len(Opt("tool")) \in 0..1
      /\ Opt("turn") \in Seq(Keys) /\ Len(Opt("turn")) \in 0..1
      /\ Opt("intent") \in Seq(Keys) /\ Len(Opt("intent")) \in 0..1
  BY <1>1, <1>2
<1>4. PICK a, b, c \in Seq(Keys) : a = Opt("tool") /\ b = Opt("turn") /\ c = Opt("intent")
  BY <1>3
<1>5. Len(a) \in 0..1 /\ Len(b) \in 0..1 /\ Len(c) \in 0..1
  BY <1>3, <1>4
<1>6. WriteOrder(s) = IF s.by = "overlay" THEN <<"session", "tool">> \o b \o c \o <<"ts">>
                                          ELSE <<"session", "ts">> \o a \o b \o c
  BY <1>4, Zenon DEF WriteOrder, Opt
<1>7. /\ <<"session", "tool">> \in Seq(Keys) /\ Len(<<"session", "tool">>) = 2
      /\ <<"session", "ts">> \in Seq(Keys) /\ Len(<<"session", "ts">>) = 2
      /\ <<"ts">> \in Seq(Keys) /\ Len(<<"ts">>) = 1
  BY <1>2
<1> PICK u, v, w \in Seq(Keys) :
      u = <<"session", "tool">> /\ v = <<"session", "ts">> /\ w = <<"ts">>
  BY <1>7, Zenon
<1>8. /\ u \o b \o c \o w \in Seq(Keys)
      /\ Len(u \o b \o c \o w) = 3 + Len(b) + Len(c)
  <2>1. Len(u) = 2 /\ Len(w) = 1
    BY <1>7
  <2> QED BY <2>1
<1>9. /\ v \o a \o b \o c \in Seq(Keys)
      /\ Len(v \o a \o b \o c) = 2 + Len(a) + Len(b) + Len(c)
  <2>1. Len(v) = 2
    BY <1>7
  <2> QED BY <2>1
<1>10. \/ WriteOrder(s) = u \o b \o c \o w
       \/ WriteOrder(s) = v \o a \o b \o c
  BY <1>6
<1>11. PICK i, j, k \in 0..1 : i = Len(a) /\ j = Len(b) /\ k = Len(c)
  BY <1>5
<1>12. 3 + j + k \in 2..5 /\ 2 + i + j + k \in 2..5
  OBVIOUS
<1>13. CASE WriteOrder(s) = u \o b \o c \o w
  BY <1>8, <1>11, <1>12, <1>13
<1>14. CASE WriteOrder(s) = v \o a \o b \o c
  BY <1>9, <1>11, <1>12, <1>14
<1> QED BY <1>10, <1>13, <1>14

(* The order of its keys depends on whose stamp it is and by whom only. *)
LEMMA SameOrder ==
  ASSUME NEW s, NEW t, s.id = t.id, s.by = t.by
  PROVE  WriteOrder(s) = WriteOrder(t)
BY DEF WriteOrder

(* Stamp s when it has come to step at. *)
Come(s, at, e) == [s EXCEPT !.at = at, !.ended = e]

(* What every step of stamp n does to it: it goes on by one key, or it     *)
(* ends, or both; all else about it stays.                                 *)
Moved(s, t) ==
  /\ t \in StampType
  /\ t.id = s.id /\ t.by = s.by /\ t.obj = s.obj /\ t.after = s.after
  /\ ~s.ended
  /\ \/ t.at = s.at /\ t.ended
     \/ t.at = s.at + 1 /\ t.at <= Len(WriteOrder(s)) + 2
StampMove(n) ==
  \E t : Moved(stamp[n], t) /\ stamp' = [stamp EXCEPT ![n] = t]

(* The steps of stamp n are moves of it: setxattr() of a key or of the     *)
(* history, the read of the history in between, and their failures.        *)
LEMMA StampSteps ==
  ASSUME Typed, NEW n \in 1..Len(stamp),
         WriteKey(n) \/ WriteKeyFails(n) \/ ReadHistory(n) \/ WriteHistory(n) \/ WriteHistoryFails(n)
  PROVE  StampMove(n)
<1> PICK s \in StampType : s = stamp[n]
  BY DEF Typed
<1>1. WriteOrder(s) \in Seq(Keys) /\ Len(WriteOrder(s)) \in 2..5
  BY OrderOfKeys
<1>2. PICK k \in 2..5 : k = Len(WriteOrder(s))
  BY <1>1
<1>3. s.ended \in BOOLEAN
  BY DEF StampType
<1>4. PICK at \in 1..7 : at = s.at
  BY DEF StampType
<1>5. ASSUME ~s.ended, NEW t, t = Come(s, at, TRUE)
      PROVE  Moved(s, t)
  <2>1. /\ t \in StampType
        /\ t.id = s.id /\ t.by = s.by /\ t.obj = s.obj /\ t.after = s.after
        /\ t.at = at /\ t.ended = TRUE
    BY <1>5 DEF StampType, Come
  <2> QED BY <1>4, <1>5, <2>1 DEF Moved
<1>6. ASSUME ~s.ended, at <= k + 1, NEW e \in BOOLEAN,
             NEW t, t = Come(s, at + 1, e)
      PROVE  Moved(s, t)
  <2>1. PICK x \in 1..7 : x = at + 1 /\ x <= k + 2
    BY <1>6
  <2>2. /\ t \in StampType
        /\ t.id = s.id /\ t.by = s.by /\ t.obj = s.obj /\ t.after = s.after
        /\ t.at = x
    <3>1. t = Come(s, x, TRUE) \/ t = Come(s, x, FALSE)
      BY <1>6, <2>1
    <3> QED BY <2>1, <3>1 DEF StampType, Come
  <2> QED BY <1>2, <1>4, <1>6, <2>1, <2>2 DEF Moved
<1>7. [s EXCEPT !.ended = TRUE] = Come(s, at, TRUE)
  BY <1>4 DEF StampType, Come
<1>8. CASE WriteKey(n) \/ WriteKeyFails(n)
  <2>1. ~s.ended /\ at <= k
    BY <1>2, <1>4, <1>8 DEF WriteKey, WriteKeyFails, AtKey
  <2>2. PICK e \in BOOLEAN : e = (s.by = "lsm" /\ s.at = Len(WriteOrder(s)))
    OBVIOUS
  <2>3. Advanced(s) = Come(s, at + 1, e)
    BY <1>4, <2>2 DEF Advanced, Come
  <2>4. Moved(s, Advanced(s)) /\ Moved(s, [s EXCEPT !.ended = TRUE])
    <3>1. at <= k + 1
      BY <2>1
    <3>2. Moved(s, Come(s, at + 1, e))
      BY <1>6, <2>1, <3>1, Zenon
    <3> QED BY <1>5, <1>7, <2>1, <2>3, <3>2, Zenon
  <2>5. \/ stamp' = [stamp EXCEPT ![n] = Advanced(s)]
        \/ stamp' = [stamp EXCEPT ![n] = [s EXCEPT !.ended = TRUE]]
    BY <1>8 DEF WriteKey, WriteKeyFails
  <2> QED BY <2>4, <2>5 DEF StampMove
<1>9. CASE ReadHistory(n)
  <2>1. ~s.ended /\ at = k + 1
    BY <1>2, <1>4, <1>9 DEF ReadHistory
  <2>2. [s EXCEPT !.at = @ + 1] = Come(s, at + 1, s.ended)
    BY <1>4 DEF StampType, Come
  <2>3. Moved(s, [s EXCEPT !.at = @ + 1])
    BY <1>3, <1>6, <2>1, <2>2
  <2>4. stamp' = [stamp EXCEPT ![n] = [s EXCEPT !.at = @ + 1]]
    BY <1>9 DEF ReadHistory
  <2> QED BY <2>3, <2>4 DEF StampMove
<1>10. CASE WriteHistory(n) \/ WriteHistoryFails(n)
  <2>1. ~s.ended
    BY <1>10 DEF WriteHistory, WriteHistoryFails
  <2>2. Moved(s, [s EXCEPT !.ended = TRUE])
    BY <1>5, <1>7, <2>1
  <2>3. stamp' = [stamp EXCEPT ![n] = [s EXCEPT !.ended = TRUE]]
    BY <1>10 DEF WriteHistory, WriteHistoryFails
  <2> QED BY <2>2, <2>3 DEF StampMove
<1> QED BY <1>8, <1>9, <1>10

(* Only stamp n is touched by its steps. *)
LEMMA MoveEffect ==
  ASSUME Typed, NEW n \in 1..Len(stamp), StampMove(n)
  PROVE  /\ stamp' \in Seq(StampType) /\ Len(stamp') = Len(stamp)
         /\ Moved(stamp[n], stamp'[n])
         /\ \A i \in 1..Len(stamp) : i # n => stamp'[i] = stamp[i]
<1>1. PICK t : Moved(stamp[n], t) /\ stamp' = [stamp EXCEPT ![n] = t]
  BY DEF StampMove
<1>2. t \in StampType /\ stamp \in Seq(StampType)
  BY <1>1 DEF Moved, Typed
<1>3. PICK q : q = [stamp EXCEPT ![n] = t]
  OBVIOUS
<1>4. /\ q \in Seq(StampType) /\ Len(q) = Len(stamp) /\ q[n] = t
      /\ \A i \in 1..Len(stamp) : i # n => q[i] = stamp[i]
  BY <1>2, <1>3, ReplaceOne
<1>5. stamp' = q
  BY <1>1, <1>3
<1> QED BY <1>1, <1>4, <1>5

(* A stamp that begins. *)
LEMMA BegunParts ==
  ASSUME Typed, NEW id \in Ids, NEW by \in {"overlay", "lsm"}, NEW o \in 0..MaxObj
  PROVE  /\ Begun(id, by, o) \in StampType
         /\ Begun(id, by, o).id = id /\ Begun(id, by, o).by = by
         /\ Begun(id, by, o).obj = o /\ Begun(id, by, o).at = 1
         /\ ~Begun(id, by, o).ended
         /\ Begun(id, by, o).after = {n \in DOMAIN stamp : stamp[n].ended}
<1>1. {n \in DOMAIN stamp : stamp[n].ended} \in SUBSET (1..MaxStamps)
  <2>1. DOMAIN stamp = 1..Len(stamp) /\ Len(stamp) \in Nat /\ Len(stamp) <= MaxStamps
    BY DEF Typed
  <2> QED BY <2>1, RecordAssumption
<1> QED BY <1>1 DEF Begun, StampType

(* The handlers that add stamps: that of the caller, the item of the close *)
(* before it, or the item alone.                                           *)
Calls ==
  \/ \E c \in Callers, o \in 0..made : Handle(c, o)
  \/ \E o \in 1..made : Close(o)

(* A stamp that begins now. *)
Fresh(s) ==
  /\ s \in StampType /\ s.at = 1 /\ ~s.ended
  /\ s.by = "overlay" => s.id \in Callers
  /\ s.obj \in 0..made /\ (s.by = "lsm" => s.obj # 0)
  /\ s.after = {n \in DOMAIN stamp : stamp[n].ended}

Grown ==
  /\ stamp' \in Seq(StampType) /\ Len(stamp') <= MaxStamps /\ Len(stamp) < Len(stamp')
  /\ \A i \in 1..Len(stamp) : stamp'[i] = stamp[i]
  /\ \A i \in (Len(stamp) + 1)..Len(stamp') :
       Fresh(stamp'[i]) /\ (stamp'[i].by = "overlay" => i = Len(stamp'))

(* What begins is fresh, and a call comes after the item of its close. *)
LEMMA CallsGrow ==
  ASSUME Typed, Calls
  PROVE  Grown
<1>1. stamp \in Seq(StampType) /\ cur \in 0..made /\ made \in 1..MaxObj
  BY DEF Typed, Objs
<1>2. PICK N \in Nat : N = Len(stamp)
  BY <1>1
<1>3. ASSUME NEW o \in 1..made PROVE Fresh(Begun(Daemon, "lsm", o)) /\ Begun(Daemon, "lsm", o).by = "lsm"
  <2>1. o \in 0..MaxObj /\ o \in 0..made /\ o # 0 /\ Daemon \in Ids /\ "lsm" # "overlay"
    BY <1>1, RecordAssumption DEF Ids
  <2>2. PICK a : a = Begun(Daemon, "lsm", o)
    OBVIOUS
  <2>3. /\ a \in StampType /\ a.by = "lsm" /\ a.obj = o /\ a.at = 1 /\ ~a.ended
        /\ a.after = {n \in DOMAIN stamp : stamp[n].ended}
    BY <2>1, <2>2, BegunParts
  <2> QED BY <2>1, <2>2, <2>3 DEF Fresh
<1>4. ASSUME NEW c \in Callers PROVE Fresh(Begun(c, "overlay", cur))
  <2>1. cur \in 0..MaxObj /\ c \in Ids /\ "lsm" # "overlay"
    BY <1>1, RecordAssumption DEF Ids
  <2>2. PICK b : b = Begun(c, "overlay", cur)
    OBVIOUS
  <2>3. /\ b \in StampType /\ b.id = c /\ b.by = "overlay" /\ b.obj = cur /\ b.at = 1 /\ ~b.ended
        /\ b.after = {n \in DOMAIN stamp : stamp[n].ended}
    BY <2>1, <2>2, BegunParts
  <2> QED BY <1>1, <2>1, <2>2, <2>3 DEF Fresh
<1>5. ASSUME NEW a, Fresh(a), stamp' = stamp \o <<a>>, Len(stamp') <= MaxStamps PROVE Grown
  <2>1. a \in StampType
    BY <1>5 DEF Fresh
  <2>2. /\ stamp' \in Seq(StampType) /\ Len(stamp') = N + 1 /\ stamp'[N + 1] = a
        /\ \A i \in 1..N : stamp'[i] = stamp[i]
    BY <1>1, <1>2, <1>5, <2>1
  <2>3. \A i \in (N + 1)..(N + 1) : i = N + 1
    OBVIOUS
  <2> QED BY <1>2, <1>5, <2>2, <2>3 DEF Grown
<1>6. ASSUME NEW o \in 1..made, Close(o) PROVE Grown
  <2>1. PICK a : a = Begun(Daemon, "lsm", o) /\ Fresh(a)
    BY <1>3
  <2>2. stamp' = Append(stamp, a) /\ Len(stamp) < MaxStamps
    BY <1>6, <2>1 DEF Close
  <2>3. a \in StampType /\ MaxStamps \in Nat
    BY <2>1, RecordAssumption DEF Fresh
  <2>4. stamp' = stamp \o <<a>> /\ Len(stamp') = N + 1
    BY <1>1, <1>2, <2>2, <2>3
  <2> QED BY <1>2, <1>5, <2>1, <2>2, <2>3, <2>4
<1>7. ASSUME NEW c \in Callers, NEW o \in 0..made, Handle(c, o) PROVE Grown
  <2>1. PICK b : b = Begun(c, "overlay", cur) /\ Fresh(b)
    BY <1>4
  <2>2. PICK a : a = Begun(Daemon, "lsm", o)
    OBVIOUS
  <2>3. stamp' = stamp \o (IF Lsm /\ o # 0 THEN <<a>> ELSE <<>>) \o <<b>> /\ Len(stamp') <= MaxStamps
    BY <1>7, <2>1, <2>2 DEF Handle
  <2>4. CASE Lsm /\ o # 0
    <3>1. o \in 1..made
      BY <1>1, <2>4
    <3>2. Fresh(a) /\ a.by = "lsm"
      BY <1>3, <2>2, <3>1
    <3>3. a \in StampType /\ b \in StampType
      BY <2>1, <3>2 DEF Fresh
    <3>4. PICK q : q = stamp \o <<a>> \o <<b>>
      OBVIOUS
    <3>5. /\ q \in Seq(StampType) /\ Len(q) = N + 2 /\ q[N + 1] = a /\ q[N + 2] = b
          /\ \A i \in 1..N : q[i] = stamp[i]
      BY <1>1, <1>2, <3>3, <3>4
    <3>6. stamp' = q
      BY <2>3, <2>4, <3>4
    <3>7. \A i \in (N + 1)..(N + 2) : i = N + 1 \/ i = N + 2
      OBVIOUS
    <3>8. ASSUME NEW i \in (N + 1)..(N + 2)
          PROVE  Fresh(stamp'[i]) /\ (stamp'[i].by = "overlay" => i = N + 2)
      <4>1. CASE i = N + 1
        BY <3>2, <3>5, <3>6, <4>1
      <4>2. CASE i = N + 2
        BY <2>1, <3>5, <3>6, <4>2
      <4> QED BY <3>7, <4>1, <4>2
    <3>9. /\ stamp' \in Seq(StampType) /\ Len(stamp') = N + 2 /\ N < N + 2
          /\ \A i \in 1..N : stamp'[i] = stamp[i]
      BY <3>5, <3>6
    <3> QED BY <1>2, <2>3, <3>8, <3>9 DEF Grown
  <2>5. CASE ~(Lsm /\ o # 0)
    <3>1. stamp' = stamp \o <<>> \o <<b>>
      BY <2>3, <2>5
    <3>2. stamp' = stamp \o <<b>>
      BY <1>1, <3>1
    <3> QED BY <1>5, <2>1, <2>3, <3>2
  <2> QED BY <2>4, <2>5
<1> QED BY <1>6, <1>7 DEF Calls

(* Whatever happens, the stamps that have begun keep who they are for and  *)
(* what had ended before, and stay ended once they are.                    *)
StampsKept ==
  /\ Len(stamp') \in Nat /\ Len(stamp) <= Len(stamp')
  /\ \A i \in 1..Len(stamp) :
       /\ stamp'[i].id = stamp[i].id /\ stamp'[i].by = stamp[i].by
       /\ stamp'[i].obj = stamp[i].obj /\ stamp'[i].after = stamp[i].after
       /\ stamp[i].ended => stamp'[i].ended

(* No step forgets a stamp or changes whose it is, and a stamp that has    *)
(* ended stays ended.                                                      *)
LEMMA StampStays ==
  ASSUME Typed, [Next]_vars
  PROVE  StampsKept
<1>1. stamp \in Seq(StampType)
  BY DEF Typed
<1>2. CASE stamp' = stamp
  BY <1>1, <1>2 DEF StampsKept
<1>3. CASE Calls
  BY <1>1, <1>3, CallsGrow DEF Grown, StampsKept
<1>4. ASSUME NEW n \in 1..Len(stamp), StampMove(n) PROVE StampsKept
  <2>1. /\ stamp' \in Seq(StampType) /\ Len(stamp') = Len(stamp)
        /\ Moved(stamp[n], stamp'[n])
        /\ \A i \in 1..Len(stamp) : i # n => stamp'[i] = stamp[i]
    BY <1>4, MoveEffect
  <2> QED BY <1>1, <2>1 DEF Moved, StampsKept
<1>5. DOMAIN stamp = 1..Len(stamp)
  BY <1>1
<1> QED BY <1>2, <1>3, <1>4, <1>5, StampSteps
     DEF Next, Calls, ReadBegins, ReadKey, ProvExits, Replace, Remove, vars
-----------------------------------------------------------------------------
(* Types *)

(* What push_history() makes of the history read and a caller's session. *)
LEMMA Pushed ==
  ASSUME NEW p \in Seq(Parts), NEW c \in Callers
  PROVE  \E rest \in Seq(Parts) :
           /\ PushHistory(p, Session[c], MAX_HISTORY) = Session[c] \o rest
           /\ IsRest(rest, p, Len(p), Session[c], MAX_HISTORY)
           /\ InOrder(rest, p, Len(p), Session[c], MAX_HISTORY)
<1>1. Session[c] \in Seq(Parts) /\ MAX_HISTORY \in Nat /\ 1 <= MAX_HISTORY
  BY RecordAssumption
<1> QED BY <1>1, PushHistoryRing

(* push_history() of a caller's session gives a history of the size of a   *)
(* session and fewer than MAX_HISTORY parts.                               *)
LEMMA PushTyped ==
  ASSUME NEW p \in Seq(Parts), NEW c \in Callers
  PROVE  /\ PushHistory(p, Session[c], MAX_HISTORY) \in Seq(Parts)
         /\ HistOK(PushHistory(p, Session[c], MAX_HISTORY))
<1>1. PICK rest \in Seq(Parts) :
        /\ PushHistory(p, Session[c], MAX_HISTORY) = Session[c] \o rest
        /\ IsRest(rest, p, Len(p), Session[c], MAX_HISTORY)
  BY Pushed
<1>2. Session[c] \in Seq(Parts) /\ MAX_HISTORY \in Nat
  BY RecordAssumption
<1>3. Len(rest) < MAX_HISTORY
  BY <1>1 DEF IsRest
<1>4. PICK h : h = PushHistory(p, Session[c], MAX_HISTORY)
  OBVIOUS
<1>5. h \in Seq(Parts) /\ Len(h) = Len(Session[c]) + Len(rest)
  BY <1>1, <1>2, <1>4
<1> QED BY <1>2, <1>3, <1>4, <1>5 DEF HistOK

(* A file that is at the path, or that an item is for, has been made. *)
LEMMA TargetMade ==
  ASSUME Typed, Sound, NEW n \in 1..Len(stamp), Target(stamp[n]) # 0
  PROVE  Target(stamp[n]) \in Objs
<1>1. PICK s \in StampType : s = stamp[n] /\ StampOK(s, made)
  BY DEF Typed, Sound
<1>2. s.obj \in 0..MaxObj /\ cur \in 0..MaxObj
  BY RecordAssumption DEF StampType, Typed, Objs
<1> QED BY <1>1, <1>2, RecordAssumption DEF Target, Objs

(* Nothing is stamped at first, so the ranges, the stamps and the          *)
(* histories are as they should be.                                        *)
LEMMA RecordInit == Init => Typed /\ Sound /\ Ringed
<1> SUFFICES ASSUME Init PROVE Typed /\ Sound /\ Ringed
  OBVIOUS
<1> USE DEF Init
<1>1. made \in Objs /\ cur \in 0..made /\ access \in Accesses
  BY RecordAssumption DEF Objs, Accesses
<1>2. key \in [Objs -> KeyType] /\ hist \in [Objs -> HistType]
  BY DEF KeyType, HistType
<1>3. stamp \in Seq(StampType) /\ Len(stamp) = 0 /\ prior \in Seq(Parts) /\ faults \in Nat
  OBVIOUS
<1>4. rd \in ReadType
  <2>1. Nothing \in [AllKeys -> Values]
    BY DEF Nothing, Values
  <2>2. <<>> \in Seq(1..MaxStamps)
    OBVIOUS
  <2> QED BY <2>1, <2>2 DEF ReadType
<1>5. log \in [Objs -> Seq(1..MaxStamps)] /\ disturbed \in SUBSET Objs /\ start \in SUBSET AllKeys
  OBVIOUS
<1>6. Typed
  BY <1>1, <1>2, <1>3, <1>4, <1>5, RecordAssumption DEF Typed
<1>7. Sound
  BY <1>3 DEF Sound
<1>8. Ringed
  BY DEF Ringed
<1> QED BY <1>6, <1>7, <1>8

(* Every step leaves the stamps in their range and sound. *)
LEMMA StampsTyped ==
  ASSUME Typed, Sound, [Next]_vars
  PROVE  stamp' \in Seq(StampType) /\ Len(stamp') <= MaxStamps /\ Sound'
<1>1. stamp \in Seq(StampType) /\ Len(stamp) <= MaxStamps
  BY DEF Typed
<1>2. made \in Nat /\ made' \in Nat /\ made <= made'
  <2>1. made' = made \/ made' = made + 1
    BY DEF Next, Handle, Close, WriteKey, WriteKeyFails, ReadHistory, WriteHistory,
       WriteHistoryFails, ReadBegins, ReadKey, ProvExits, Replace, Remove, vars, file
  <2>2. made \in Nat
    BY RecordAssumption DEF Typed, Objs
  <2> QED BY <2>1, <2>2
<1>3. ASSUME NEW s \in StampType, StampOK(s, made) PROVE StampOK(s, made')
  BY <1>2, <1>3 DEF StampOK
<1>4. CASE stamp' = stamp
  BY <1>1, <1>3, <1>4 DEF Sound
<1>5. ASSUME Calls
      PROVE  stamp' \in Seq(StampType) /\ Len(stamp') <= MaxStamps /\ Sound'
  <2>1. Grown
    BY <1>5, CallsGrow
  <2>2. ASSUME NEW s, Fresh(s) PROVE StampOK(s, made')
    <3>1. s \in StampType /\ s.at = 1 /\ Len(WriteOrder(s)) \in 2..5
      BY <2>2, OrderOfKeys DEF Fresh
    <3>2. s.obj \in 0..made'
      BY <1>2, <2>2 DEF Fresh
    <3> QED BY <2>2, <3>1, <3>2 DEF StampOK, Fresh
  <2>3. PICK N \in Nat, M \in Nat : N = Len(stamp) /\ M = Len(stamp')
    BY <1>1, <2>1 DEF Grown
  <2>4. ASSUME NEW i \in 1..M PROVE StampOK(stamp'[i], made')
    <3>1. CASE i \in 1..N
      <4>1. stamp'[i] = stamp[i] /\ stamp[i] \in StampType /\ StampOK(stamp[i], made)
        BY <1>1, <2>1, <2>3, <3>1 DEF Grown, Sound
      <4> QED BY <1>3, <4>1
    <3>2. CASE i \notin 1..N
      <4>1. i \in (N + 1)..M
        BY <3>2
      <4> QED BY <2>1, <2>2, <2>3, <4>1 DEF Grown
    <3> QED BY <3>1, <3>2
  <2> QED BY <2>1, <2>3, <2>4 DEF Grown, Sound
<1>6. ASSUME NEW n \in 1..Len(stamp), StampMove(n)
      PROVE  stamp' \in Seq(StampType) /\ Len(stamp') <= MaxStamps /\ Sound'
  <2>1. /\ stamp' \in Seq(StampType) /\ Len(stamp') = Len(stamp)
        /\ Moved(stamp[n], stamp'[n])
        /\ \A i \in 1..Len(stamp) : i # n => stamp'[i] = stamp[i]
    BY <1>6, MoveEffect
  <2>2. \A i \in 1..Len(stamp) : StampOK(stamp[i], made')
    BY <1>1, <1>3 DEF Sound
  <2>3. PICK s, t : s = stamp[n] /\ t = stamp'[n]
    OBVIOUS
  <2>4. StampOK(s, made') /\ Moved(s, t) /\ WriteOrder(t) = WriteOrder(s)
    BY <2>1, <2>2, <2>3, SameOrder DEF Moved
  <2>5. StampOK(t, made')
    BY <2>4 DEF StampOK, Moved
  <2>6. \A i \in 1..Len(stamp') : StampOK(stamp'[i], made')
    BY <2>1, <2>2, <2>3, <2>5
  <2> QED BY <1>1, <2>1, <2>6 DEF Sound
<1>7. DOMAIN stamp = 1..Len(stamp)
  BY <1>1
<1> QED BY <1>4, <1>5, <1>6, <1>7, StampSteps
     DEF Next, Calls, ReadBegins, ReadKey, ProvExits, Replace, Remove, vars

(* get_key() fails exactly if there is no file or its attributes may not   *)
(* be read.                                                                *)
LEMMA GetKeyTyped ==
  ASSUME Typed, NEW k \in AllKeys
  PROVE  /\ GetKey(k) = Error <=> cur = 0 \/ access = "denied"
         /\ GetKey(k) # Error => GetKey(k) \in Values
<1>1. CASE cur = 0 \/ access = "denied"
  BY <1>1 DEF GetKey
<1>2. CASE ~(cur = 0 \/ access = "denied") /\ access = "unsupported"
  BY <1>2, RecordAssumption DEF GetKey, Values
<1>3. CASE ~(cur = 0 \/ access = "denied") /\ access # "unsupported"
  <2>1. GetKey(k) = Value(cur, k)
    BY <1>3 DEF GetKey
  <2>2. cur \in Objs
    BY <1>3, RecordAssumption DEF Typed, Objs
  <2>3. hist[cur] \in HistType /\ key[cur] \in KeyType
    BY <2>2 DEF Typed
  <2>4. \A j \in Keys : key[cur][j] \in (1..MaxStamps) \cup {None}
    BY <2>3 DEF KeyType
  <2>5. k \in Keys \/ k = "history"
    BY DEF AllKeys
  <2>6. CASE k = "history"
    <3>1. Value(cur, k) = hist[cur]
      BY <2>6 DEF Value
    <3> QED BY <1>3, <2>1, <2>3, <3>1, RecordAssumption DEF HistType, Values
  <2>7. CASE k = "session"
    <3>1. Value(cur, k) = key[cur][k] /\ k \in Keys
      BY <2>7 DEF Value, Keys
    <3>2. Value(cur, k) \in (1..MaxStamps) \cup {None}
      BY <2>4, <3>1
    <3> QED BY <1>3, <2>1, <3>2, RecordAssumption DEF Values
  <2>8. CASE k \notin {"session", "history"}
    <3>1. Value(cur, k) \in {None, "set"}
      BY <2>8 DEF Value
    <3> QED BY <1>3, <2>1, <3>1, RecordAssumption DEF Values
  <2> QED BY <2>6, <2>7, <2>8
<1> QED BY <1>1, <1>2, <1>3

(* The keys prov reads, the history last. *)
LEMMA ReadKeys ==
  /\ Len(ReadOrder) = 6 /\ \A i \in 1..6 : ReadOrder[i] \in AllKeys
  /\ ReadOrder[6] = "history" /\ \A i \in 1..5 : ReadOrder[i] # "history"
  /\ \A k \in AllKeys : \E i \in 1..6 : ReadOrder[i] = k
  /\ \A i, j \in 1..6 : i # j => ReadOrder[i] # ReadOrder[j]
<1>1. \A i \in 1..6 : i = 1 \/ i = 2 \/ i = 3 \/ i = 4 \/ i = 5 \/ i = 6
  OBVIOUS
<1>2. Len(ReadOrder) = 6
  BY DEF ReadOrder
<1>3. /\ ReadOrder[1] = "session" /\ ReadOrder[2] = "tool" /\ ReadOrder[3] = "turn"
      /\ ReadOrder[4] = "intent" /\ ReadOrder[5] = "ts" /\ ReadOrder[6] = "history"
  BY DEF ReadOrder
<1>4. \A i \in 1..6 : ReadOrder[i] \in AllKeys
  BY <1>1, <1>3 DEF AllKeys, Keys
<1>5. \A i \in 1..5 : ReadOrder[i] # "history"
  BY <1>1, <1>3
<1>6. \A k \in AllKeys : \E i \in 1..6 : ReadOrder[i] = k
  BY <1>3 DEF AllKeys, Keys
<1>7. \A i, j \in 1..6 : i # j => ReadOrder[i] # ReadOrder[j]
  BY <1>1, <1>3
<1> QED BY <1>2, <1>3, <1>4, <1>5, <1>6, <1>7

(* A read goes on as ReadKey says. *)
LEMMA ReadKeyEffect ==
  ASSUME Typed, ReadKey
  PROVE  /\ rd.at \in 1..6 /\ rd' \in ReadType
         /\ \/ /\ cur = 0 \/ access = "denied"
               /\ rd'.at = 0 /\ rd'.status = "failed" /\ rd'.seen = Nothing
               /\ rd'.log = rd.log
            \/ /\ cur # 0 /\ access # "denied"
               /\ rd'.seen[ReadOrder[rd.at]] = GetKey(ReadOrder[rd.at])
               /\ \A k \in AllKeys : k # ReadOrder[rd.at] => rd'.seen[k] = rd.seen[k]
               /\ IF rd.at = 6 THEN rd'.at = 0 /\ rd'.status = "done" /\ rd'.log = log[cur]
                  ELSE rd'.at = rd.at + 1 /\ rd'.status = rd.status /\ rd'.log = rd.log
<1> PICK r \in ReadType : r = rd
  BY DEF Typed
<1>1. PICK i \in 1..6 : i = r.at
  BY DEF ReadKey, ReadType
<1>2. PICK k \in AllKeys : k = ReadOrder[i]
  BY ReadKeys
<1>3. PICK v : v = GetKey(k)
  OBVIOUS
<1>4. /\ v = Error <=> cur = 0 \/ access = "denied"
      /\ v # Error => v \in Values
  BY <1>3, GetKeyTyped
<1>5. Len(ReadOrder) = 6
  BY ReadKeys
<1>6. r.seen \in [AllKeys -> Values] /\ r.log \in Seq(1..MaxStamps)
  BY DEF ReadType
<1>7. CASE v = Error
  <2>1. rd' = [r EXCEPT !.at = 0, !.status = "failed", !.seen = Nothing]
    BY <1>1, <1>2, <1>3, <1>7 DEF ReadKey
  <2>2. PICK z \in [AllKeys -> Values] : z = Nothing
    BY DEF Nothing, Values
  <2>3. PICK q : q = [r EXCEPT !.at = 0, !.status = "failed", !.seen = z]
    OBVIOUS
  <2>4. q = [at |-> 0, seen |-> z, log |-> r.log, status |-> "failed"]
    BY <2>3 DEF ReadType
  <2>5. q \in ReadType /\ q.at = 0 /\ q.status = "failed" /\ q.seen = z /\ q.log = r.log
    BY <1>6, <2>4 DEF ReadType
  <2> QED BY <1>1, <1>4, <1>7, <2>1, <2>2, <2>3, <2>5
<1>8. CASE v # Error
  <2>1. cur \in Objs
    BY <1>4, <1>8, RecordAssumption DEF Typed, Objs
  <2>2. log[cur] \in Seq(1..MaxStamps)
    BY <2>1 DEF Typed
  <2>3. PICK q : q = [r EXCEPT !.at = IF i = 6 THEN 0 ELSE i + 1,
                               !.status = IF i = 6 THEN "done" ELSE @,
                               !.seen[k] = v,
                               !.log = IF i = 6 THEN log[cur] ELSE @]
    OBVIOUS
  <2>4. rd' = q
    BY <1>1, <1>2, <1>3, <1>5, <1>8, <2>3 DEF ReadKey
  <2>5. /\ q.at = IF i = 6 THEN 0 ELSE i + 1
        /\ q.status = IF i = 6 THEN "done" ELSE r.status
        /\ q.seen = [r.seen EXCEPT ![k] = v]
        /\ q.log = IF i = 6 THEN log[cur] ELSE r.log
        /\ q = [at |-> q.at, seen |-> q.seen, log |-> q.log, status |-> q.status]
    BY <2>3 DEF ReadType
  <2>6. /\ q.seen \in [AllKeys -> Values] /\ q.seen[k] = v
        /\ \A j \in AllKeys : j # k => q.seen[j] = r.seen[j]
    BY <1>4, <1>6, <1>8, <2>5
  <2>7. q.at \in 0..6
    BY <2>5
  <2>8. q.log \in Seq(1..MaxStamps) /\ q.status \in {"idle", "reading", "done", "failed"}
    BY <1>6, <2>2, <2>5 DEF ReadType
  <2>9. q \in ReadType
    BY <2>5, <2>6, <2>7, <2>8 DEF ReadType
  <2> QED BY <1>1, <1>2, <1>3, <1>4, <1>8, <2>4, <2>5, <2>6, <2>9
<1> QED BY <1>7, <1>8

(* A stamp writes its number in one key of one file. *)
LEMMA WriteKeyEffect ==
  ASSUME Typed, Sound, NEW n \in 1..Len(stamp), WriteKey(n)
  PROVE  \E o \in Objs, k \in Keys :
           /\ o = Target(stamp[n]) /\ access # "unsupported" /\ ~stamp[n].ended
           /\ stamp[n].at \in 1..Len(WriteOrder(stamp[n]))
           /\ k = WriteOrder(stamp[n])[stamp[n].at]
           /\ key' \in [Objs -> KeyType] /\ key'[o][k] = n
           /\ \A p \in Objs, j \in Keys : p # o \/ j # k => key'[p][j] = key[p][j]
<1>1. PICK s \in StampType : s = stamp[n]
  BY DEF Typed
<1>2. WriteOrder(s) \in Seq(Keys) /\ s.at \in 1..Len(WriteOrder(s)) /\ ~s.ended
  <2>1. s.at \in 1..7 /\ WriteOrder(s) \in Seq(Keys) /\ s.at <= Len(WriteOrder(s)) /\ ~s.ended
    BY <1>1, OrderOfKeys DEF WriteKey, AtKey, StampType
  <2> QED BY <2>1
<1>3. PICK k \in Keys : k = WriteOrder(s)[s.at]
  BY <1>2
<1>4. PICK o \in Objs : o = Target(s)
  BY <1>1, TargetMade DEF WriteKey
<1>5. n \in 1..MaxStamps
  BY RecordAssumption DEF Typed
<1>6. key' = [key EXCEPT ![o][k] = n] /\ key \in [Objs -> KeyType]
  BY <1>1, <1>3, <1>4 DEF WriteKey, Typed
<1>7. /\ key' \in [Objs -> KeyType] /\ key'[o][k] = n
      /\ \A p \in Objs, j \in Keys : p # o \/ j # k => key'[p][j] = key[p][j]
  BY <1>5, <1>6 DEF KeyType
<1> QED BY <1>1, <1>2, <1>3, <1>4, <1>7 DEF WriteKey

(* stamp() ends with the history of the file at the path. *)
LEMMA WriteHistoryEffect ==
  ASSUME Typed, Sound, NEW n \in 1..Len(stamp), WriteHistory(n)
  PROVE  \E c \in Callers :
           /\ c = stamp[n].id /\ stamp[n].by = "overlay" /\ ~stamp[n].ended
           /\ cur \in Objs /\ access # "unsupported" /\ n \in 1..MaxStamps
           /\ hist' \in [Objs -> HistType] /\ hist'[cur] \in Seq(Parts)
           /\ hist'[cur] = PushHistory(prior, Session[c], MAX_HISTORY)
           /\ \A o \in Objs : o # cur => hist'[o] = hist[o]
           /\ log' \in [Objs -> Seq(1..MaxStamps)] /\ log'[cur] = Append(log[cur], n)
           /\ \A o \in Objs : o # cur => log'[o] = log[o]
           /\ disturbed' = IF prior = (IF hist[cur] = None THEN <<>> ELSE hist[cur])
                             THEN disturbed ELSE disturbed \cup {cur}
<1>1. PICK s \in StampType : s = stamp[n] /\ StampOK(s, made)
  BY DEF Typed, Sound
<1>2. PICK c \in Callers : c = s.id
  BY <1>1 DEF StampOK, WriteHistory
<1>3. cur \in Objs
  <2>1. cur # 0
    BY DEF WriteHistory
  <2> QED BY <2>1, RecordAssumption DEF Typed, Objs
<1>4. n \in 1..MaxStamps /\ prior \in Seq(Parts) /\ log[cur] \in Seq(1..MaxStamps)
  BY <1>3, RecordAssumption DEF Typed
<1>5. PICK h \in Seq(Parts) : h = PushHistory(prior, Session[c], MAX_HISTORY)
  BY <1>4, PushTyped
<1>6. hist' = [hist EXCEPT ![cur] = h]
  BY <1>1, <1>2, <1>5 DEF WriteHistory
<1>7. PICK l \in Seq(1..MaxStamps) : l = Append(log[cur], n)
  <2>1. PICK N : N = 1..MaxStamps
    OBVIOUS
  <2>2. n \in N /\ log[cur] \in Seq(N)
    BY <1>4, <2>1
  <2>3. Append(log[cur], n) \in Seq(N)
    BY <2>2
  <2> QED BY <2>1, <2>3
<1>8. log' = [log EXCEPT ![cur] = l]
  BY <1>7 DEF WriteHistory
<1>9. /\ hist' \in [Objs -> HistType] /\ hist'[cur] = h
      /\ \A o \in Objs : o # cur => hist'[o] = hist[o]
  BY <1>3, <1>6 DEF Typed, HistType
<1>10. /\ log' \in [Objs -> Seq(1..MaxStamps)] /\ log'[cur] = l
       /\ \A o \in Objs : o # cur => log'[o] = log[o]
  BY <1>3, <1>8 DEF Typed
<1> QED BY <1>1, <1>2, <1>3, <1>4, <1>5, <1>7, <1>9, <1>10 DEF WriteHistory

(* Every step keeps the ranges. *)
LEMMA TypedStep ==
  ASSUME Typed, Sound, Ringed, [Next]_vars
  PROVE  Typed' /\ Sound' /\ Ringed'
<1>1. stamp' \in Seq(StampType) /\ Len(stamp') <= MaxStamps /\ Sound'
  BY StampsTyped
<1>2. ASSUME UNCHANGED file PROVE made' \in Objs /\ cur' \in 0..made' /\ access' \in Accesses
  BY <1>2 DEF Typed, file
<1>3. ASSUME UNCHANGED <<rd, start>> PROVE rd' \in ReadType /\ start' \in (SUBSET AllKeys) \cup {None}
  BY <1>3 DEF Typed
<1>4. ASSUME UNCHANGED <<log, disturbed>>
      PROVE  log' \in [Objs -> Seq(1..MaxStamps)] /\ disturbed' \in SUBSET Objs
  BY <1>4 DEF Typed
<1>5. ASSUME NEW o, Fails(o) PROVE faults' \in Nat
  BY <1>5 DEF Fails, Typed
<1>6. ASSUME UNCHANGED hist PROVE hist' \in [Objs -> HistType] /\ Ringed'
  BY <1>6 DEF Typed, Ringed
<1>7. ASSUME UNCHANGED <<key, prior, faults>>
      PROVE  key' \in [Objs -> KeyType] /\ prior' \in Seq(Parts) /\ faults' \in Nat
  BY <1>7 DEF Typed
<1>8. CASE Calls
  <2>1. UNCHANGED <<file, key, hist, prior, faults, log, disturbed, rd, start>>
    BY <1>8 DEF Calls, Handle, Close, ghosts, reader
  <2> QED BY <1>1, <1>2, <1>3, <1>4, <1>6, <1>7, <2>1 DEF Typed
<1>9. ASSUME NEW n \in 1..Len(stamp), WriteKey(n) PROVE Typed' /\ Ringed'
  <2>1. UNCHANGED <<file, hist, prior, faults, log, disturbed, rd, start>>
    BY <1>9 DEF WriteKey, ghosts, reader
  <2>2. key' \in [Objs -> KeyType]
    BY <1>9, WriteKeyEffect
  <2>3. prior' \in Seq(Parts) /\ faults' \in Nat
    BY <2>1 DEF Typed
  <2> QED BY <1>1, <1>2, <1>3, <1>4, <1>6, <2>1, <2>2, <2>3 DEF Typed
<1>10. ASSUME NEW n \in 1..Len(stamp), WriteKeyFails(n) PROVE Typed' /\ Ringed'
  <2>1. UNCHANGED <<file, key, hist, prior, log, disturbed, rd, start>>
    BY <1>10 DEF WriteKeyFails, ghosts, reader
  <2>2. faults' \in Nat
    BY <1>5, <1>10 DEF WriteKeyFails
  <2>3. key' \in [Objs -> KeyType] /\ prior' \in Seq(Parts)
    BY <2>1 DEF Typed
  <2> QED BY <1>1, <1>2, <1>3, <1>4, <1>6, <2>1, <2>2, <2>3 DEF Typed
<1>11. ASSUME NEW n \in 1..Len(stamp), ReadHistory(n) PROVE Typed' /\ Ringed'
  <2>1. UNCHANGED <<file, key, hist, log, disturbed, rd, start>>
    BY <1>11 DEF ReadHistory, ghosts, reader
  <2>2. faults' \in Nat
    BY <1>5, <1>11 DEF ReadHistory, Typed
  <2>3. cur # 0 => cur \in Objs
    BY RecordAssumption DEF Typed, Objs
  <2>4. prior' \in Seq(Parts)
    <3>1. cur # 0 /\ hist[cur] # None => hist[cur] \in Seq(Parts)
      BY <2>3 DEF Typed, HistType
    <3>2. prior' = <<>> \/ (cur # 0 /\ hist[cur] # None /\ prior' = hist[cur])
      BY <1>11 DEF ReadHistory
    <3>3. <<>> \in Seq(Parts)
      OBVIOUS
    <3> QED BY <3>1, <3>2, <3>3
  <2>5. key' \in [Objs -> KeyType]
    BY <2>1 DEF Typed
  <2> QED BY <1>1, <1>2, <1>3, <1>4, <1>6, <2>1, <2>2, <2>4, <2>5 DEF Typed
<1>12. ASSUME NEW n \in 1..Len(stamp), WriteHistory(n) PROVE Typed' /\ Ringed'
  <2>1. UNCHANGED <<file, key, faults, rd, start>> /\ prior' = <<>>
    BY <1>12 DEF WriteHistory, reader
  <2>2. PICK c \in Callers :
          /\ cur \in Objs /\ hist' \in [Objs -> HistType]
          /\ hist'[cur] = PushHistory(prior, Session[c], MAX_HISTORY)
          /\ \A o \in Objs : o # cur => hist'[o] = hist[o]
          /\ log' \in [Objs -> Seq(1..MaxStamps)]
          /\ disturbed' = IF prior = (IF hist[cur] = None THEN <<>> ELSE hist[cur])
                            THEN disturbed ELSE disturbed \cup {cur}
    BY <1>12, WriteHistoryEffect
  <2>3. disturbed' \in SUBSET Objs
    BY <2>2 DEF Typed
  <2>4. prior' \in Seq(Parts) /\ key' \in [Objs -> KeyType] /\ faults' \in Nat
    BY <2>1 DEF Typed
  <2>5. HistOK(hist'[cur])
    BY <2>2, PushTyped DEF Typed
  <2>6. Ringed'
    <3>1. ASSUME NEW o \in Objs, hist'[o] # None PROVE HistOK(hist'[o])
      BY <2>2, <2>5, <3>1 DEF Ringed
    <3> QED BY <3>1 DEF Ringed, HistOK
  <2> QED BY <1>1, <1>2, <1>3, <2>1, <2>2, <2>3, <2>4, <2>6 DEF Typed
<1>13. ASSUME NEW n \in 1..Len(stamp), WriteHistoryFails(n) PROVE Typed' /\ Ringed'
  <2>1. UNCHANGED <<file, key, hist, log, disturbed, rd, start>> /\ prior' = <<>>
    BY <1>13 DEF WriteHistoryFails, ghosts, reader
  <2>2. faults' \in Nat
    BY <1>5, <1>13 DEF WriteHistoryFails
  <2>3. key' \in [Objs -> KeyType] /\ prior' \in Seq(Parts)
    BY <2>1 DEF Typed
  <2> QED BY <1>1, <1>2, <1>3, <1>4, <1>6, <2>1, <2>2, <2>3 DEF Typed
<1>14. CASE ReadBegins \/ ProvExits
  <2>1. UNCHANGED <<file, key, hist, prior, faults, log, disturbed>>
    BY <1>14 DEF ReadBegins, ProvExits, ghosts
  <2>2. start' \in (SUBSET AllKeys) \cup {None}
    BY <1>14 DEF ReadBegins, ProvExits, Present
  <2>3. PICK z \in [AllKeys -> Values] : z = Nothing
    BY DEF Nothing, Values
  <2>4. <<>> \in Seq(1..MaxStamps)
    OBVIOUS
  <2>5. rd' \in ReadType
    <3>1. \E a \in 0..6, u \in {"idle", "reading", "done", "failed"} :
            rd' = [at |-> a, seen |-> z, log |-> <<>>, status |-> u]
      <4>1. CASE ReadBegins
        BY <2>3, <4>1 DEF ReadBegins
      <4>2. CASE ProvExits
        BY <2>3, <4>2 DEF ProvExits
      <4> QED BY <1>14, <4>1, <4>2
    <3> QED BY <2>3, <2>4, <3>1 DEF ReadType
  <2> QED BY <1>1, <1>2, <1>4, <1>6, <1>7, <2>1, <2>2, <2>5 DEF Typed
<1>15. CASE ReadKey
  <2>1. UNCHANGED <<file, key, hist, prior, faults, log, disturbed, start>>
    BY <1>15 DEF ReadKey, ghosts
  <2>2. rd' \in ReadType
    BY <1>15, ReadKeyEffect
  <2>3. start' \in (SUBSET AllKeys) \cup {None}
    BY <2>1 DEF Typed
  <2> QED BY <1>1, <1>2, <1>4, <1>6, <1>7, <2>1, <2>2, <2>3 DEF Typed
<1>16. CASE Replace \/ Remove
  <2>1. UNCHANGED <<access, key, hist, prior, rd, log, disturbed>>
    BY <1>16 DEF Replace, Remove, ghosts
  <2>2. made' \in Objs /\ cur' \in 0..made'
    BY <1>16, RecordAssumption DEF Replace, Remove, Typed, Objs
  <2>3. start' \in (SUBSET AllKeys) \cup {None}
    BY <1>16 DEF Replace, Remove, Typed, Changed
  <2>4. faults' \in Nat
    BY <1>16 DEF Replace, Remove, Typed
  <2>5. /\ key' \in [Objs -> KeyType] /\ prior' \in Seq(Parts)
        /\ access' \in Accesses /\ rd' \in ReadType
    BY <2>1 DEF Typed
  <2> QED BY <1>1, <1>4, <1>6, <2>1, <2>2, <2>3, <2>4, <2>5 DEF Typed
<1>17. CASE UNCHANGED vars
  <2>1. UNCHANGED <<file, key, hist, prior, faults, log, disturbed, rd, start>>
    BY <1>17 DEF vars, file
  <2> QED BY <1>1, <1>2, <1>3, <1>4, <1>6, <1>7, <2>1 DEF Typed
<1>18. DOMAIN stamp = 1..Len(stamp)
  BY DEF Typed
<1> QED BY <1>1, <1>8, <1>9, <1>10, <1>11, <1>12, <1>13, <1>14, <1>15, <1>16, <1>17, <1>18
     DEF Next, Calls

(* The ranges, the soundness of the stamps and the size of the histories   *)
(* together are an invariant.                                              *)
LEMMA TypedInvariant == Spec => [](Typed /\ Sound /\ Ringed)
<1>1. Init => Typed /\ Sound /\ Ringed
  BY RecordInit
<1>2. Typed /\ Sound /\ Ringed /\ [Next]_vars => (Typed /\ Sound /\ Ringed)'
  BY TypedStep
<1> QED BY <1>1, <1>2, PTL DEF Spec

(* The record, the stamps and the reader stay in their ranges, and the     *)
(* history attribute never holds more than one whole session and           *)
(* MAX_HISTORY - 1 other parts.                                            *)
THEOREM RecordTypeCorrect == Spec => []TypeOK
<1>1. Typed /\ Ringed => TypeOK
  <2> SUFFICES ASSUME Typed, Ringed PROVE TypeOK
    OBVIOUS
  <2>1. ASSUME NEW o \in Objs, hist[o] # None
        PROVE  /\ hist[o] \in Seq(Parts)
               /\ \E c \in Callers : Len(hist[o]) < MAX_HISTORY + Len(Session[c])
    <3>1. hist[o] \in HistType
      BY DEF Typed
    <3>2. \E c \in Callers : Len(hist[o]) < MAX_HISTORY + Len(Session[c])
      BY <2>1 DEF Ringed, HistOK
    <3> QED BY <2>1, <3>1, <3>2 DEF HistType
  <2>2. DOMAIN stamp = 1..Len(stamp) /\ \A n \in 1..Len(stamp) : stamp[n] \in StampType
    BY DEF Typed
  <2>3. rd.at \in 0..6 /\ rd.status \in {"idle", "reading", "done", "failed"}
    BY DEF Typed, ReadType
  <2> QED BY <2>1, <2>2, <2>3 DEF TypeOK, Typed, KeyType, Accesses
<1> QED BY <1>1, TypedInvariant, PTL
-----------------------------------------------------------------------------
(* The reader *)

NoEmptySession == \A c \in Callers : Session[c] # <<>>

(* What has been seen so far of the keys that were there when the read     *)
(* began.                                                                  *)
Witnessed ==
  access = "full" /\ start # None =>
    /\ rd.status = "reading" =>
         /\ start \subseteq Present
         /\ \A i \in 1..6 : i < rd.at /\ ReadOrder[i] \in start => rd.seen[ReadOrder[i]] # None
    /\ rd.status = "done" => \A k \in start : rd.seen[k] # None

SeenOK(h) == h \in HistType /\ (NoEmptySession => h # <<>>)

Reader ==
  /\ rd.at # 0 <=> rd.status = "reading"
  /\ rd.status = "reading" /\ cur = 0 => start = None
  /\ ExitCodeHonest
  /\ Witnessed
  /\ SeenOK(rd.seen["history"])

(* A key that is there stays, stamps only give it another value. *)
LEMMA KeysStay ==
  ASSUME Typed, Sound, [Next]_vars, NEW o \in Objs, NEW k \in AllKeys, Value(o, k) # None
  PROVE  Value(o, k)' # None
<1>1. ASSUME UNCHANGED <<key, hist>> PROVE Value(o, k)' # None
  BY <1>1 DEF Value
<1>2. ASSUME NEW n \in 1..Len(stamp), WriteKey(n) PROVE Value(o, k)' # None
  <2>1. PICK p \in Objs, j \in Keys :
          /\ key'[p][j] = n
          /\ \A q \in Objs, i \in Keys : q # p \/ i # j => key'[q][i] = key[q][i]
    BY <1>2, WriteKeyEffect
  <2>2. hist' = hist /\ n \in 1..MaxStamps
    BY <1>2, RecordAssumption DEF WriteKey, Typed
  <2>3. ASSUME k \in Keys, key[o][k] # None PROVE key'[o][k] # None
    BY <2>1, <2>2, <2>3, RecordAssumption
  <2>4. k \in Keys \/ k = "history"
    BY DEF AllKeys
  <2>5. CASE k = "history"
    BY <2>2, <2>5 DEF Value
  <2>6. CASE k \in Keys /\ k # "history"
    <3>1. key[o][k] # None
      BY <2>6 DEF Value
    <3>2. key'[o][k] # None
      BY <2>3, <2>6, <3>1
    <3> QED BY <2>6, <3>2, RecordAssumption DEF Value
  <2> QED BY <2>4, <2>5, <2>6
<1>3. ASSUME NEW n \in 1..Len(stamp), WriteHistory(n) PROVE Value(o, k)' # None
  <2>1. /\ hist'[cur] \in Seq(Parts)
        /\ \A q \in Objs : q # cur => hist'[q] = hist[q]
    BY <1>3, WriteHistoryEffect
  <2>2. key' = key
    BY <1>3 DEF WriteHistory
  <2>3. hist[o] # None => hist'[o] # None
    BY <2>1, RecordAssumption
  <2> QED BY <2>2, <2>3 DEF Value
<1>4. DOMAIN stamp = 1..Len(stamp)
  BY DEF Typed
<1> QED BY <1>1, <1>2, <1>3, <1>4
     DEF Next, Handle, Close, WriteKeyFails, ReadHistory, WriteHistoryFails, ReadBegins, ReadKey,
         ProvExits, Replace, Remove, vars

(* A history that is absent or not read yet is one a reader may have seen. *)
LEMMA NothingOK == SeenOK(None) /\ SeenOK(Nothing["history"])
<1>1. <<>> \in Seq(Parts)
  OBVIOUS
<1> QED BY <1>1, RecordAssumption DEF SeenOK, HistType, Nothing, AllKeys

(* No reader is at work at first. *)
LEMMA ReaderInit == Init => Reader
<1> SUFFICES ASSUME Init PROVE Reader
  OBVIOUS
<1>1. rd.at = 0 /\ rd.status = "idle" /\ rd.seen = Nothing
  BY DEF Init
<1>2. SeenOK(Nothing["history"])
  BY NothingOK
<1> QED BY <1>1, <1>2 DEF Reader, ExitCodeHonest, Witnessed

(* Every step keeps what a reader has seen witnessed by what is, or was,   *)
(* in the record.                                                          *)
LEMMA ReaderStep ==
  ASSUME Typed, Sound, Ringed, Reader, [Next]_vars
  PROVE  Reader'
<1>1. SeenOK(Nothing["history"])
  BY NothingOK
<1>2. ASSUME UNCHANGED <<file, rd, start>> PROVE Reader'
  <2>1. ASSUME rd.status = "reading", start # None PROVE Present \subseteq Present'
    <3>1. cur # 0
      BY <2>1 DEF Reader
    <3>2. cur \in Objs
      BY <3>1, RecordAssumption DEF Typed, Objs
    <3>3. \A k \in AllKeys : Value(cur, k) # None => Value(cur, k)' # None
      <4> TAKE k \in AllKeys
      <4>1. PICK o \in Objs : o = cur
        BY <3>2
      <4>2. Value(o, k) # None => Value(o, k)' # None
        BY KeysStay
      <4>3. cur' = o
        BY <1>2, <4>1 DEF file
      <4> QED BY <4>1, <4>2, <4>3 DEF Value
    <3>4. cur' = cur
      BY <1>2 DEF file
    <3> QED BY <3>1, <3>3, <3>4 DEF Present
  <2> QED BY <1>2, <2>1 DEF Reader, ExitCodeHonest, Witnessed, file
<1>3. CASE ReadBegins
  <2>1. UNCHANGED <<file, key, hist>>
    BY <1>3 DEF ReadBegins
  <2>2. /\ rd'.at = IF cur = 0 THEN 0 ELSE 1
        /\ rd'.status = IF cur = 0 THEN "failed" ELSE "reading"
        /\ rd'.seen = Nothing
        /\ start' = IF cur = 0 THEN None ELSE Present
    BY <1>3 DEF ReadBegins
  <2>3. Present' = Present
    BY <2>1 DEF Present, Value, file
  <2> QED BY <1>1, <2>1, <2>2, <2>3 DEF Reader, ExitCodeHonest, Witnessed, file
<1>4. CASE ReadKey
  <2>1. UNCHANGED <<file, key, hist, start>>
    BY <1>4 DEF ReadKey
  <2>2. PICK i \in 1..6 : i = rd.at /\ rd.status = "reading"
    BY <1>4, ReadKeyEffect DEF Reader
  <2>3. CASE cur = 0 \/ access = "denied"
    <3>1. rd'.at = 0 /\ rd'.status = "failed" /\ rd'.seen = Nothing
      BY <1>4, <2>3, ReadKeyEffect
    <3>2. access = "denied" \/ start = None
      BY <2>2, <2>3 DEF Reader
    <3> QED BY <1>1, <2>1, <3>1, <3>2 DEF Reader, ExitCodeHonest, Witnessed, file
  <2>4. CASE ~(cur = 0 \/ access = "denied")
    <3>1. /\ rd'.seen[ReadOrder[i]] = GetKey(ReadOrder[i])
          /\ \A k \in AllKeys : k # ReadOrder[i] => rd'.seen[k] = rd.seen[k]
          /\ IF i = 6 THEN rd'.at = 0 /\ rd'.status = "done"
             ELSE rd'.at = i + 1 /\ rd'.status = "reading"
      BY <1>4, <2>2, <2>4, ReadKeyEffect
    <3>2. SeenOK(rd'.seen["history"])
      <4>1. CASE i # 6
        <5>1. i \in 1..5 /\ "history" \in AllKeys
          BY <4>1 DEF AllKeys
        <5> QED BY <3>1, <5>1, ReadKeys DEF Reader
      <4>2. CASE i = 6
        <5>1. rd'.seen["history"] = GetKey("history")
          BY <3>1, <4>2, ReadKeys
        <5>2. cur \in Objs
          BY <2>4, RecordAssumption DEF Typed, Objs
        <5>3. GetKey("history") = None \/ GetKey("history") = hist[cur]
          BY <2>4 DEF GetKey, Value
        <5>4. ASSUME hist[cur] # None PROVE SeenOK(hist[cur])
          <6>1. PICK c \in Callers : Len(Session[c]) <= Len(hist[cur])
            BY <5>2, <5>4 DEF Ringed, HistOK
          <6>2. Session[c] \in Seq(Parts) /\ (NoEmptySession => Session[c] # <<>>)
            BY RecordAssumption DEF NoEmptySession
          <6>3. hist[cur] \in HistType
            BY <5>2 DEF Typed
          <6> QED BY <6>1, <6>2, <6>3 DEF SeenOK
        <5> QED BY <5>1, <5>3, <5>4, NothingOK
      <4> QED BY <4>1, <4>2
    <3>3. Present' = Present
      BY <2>1 DEF Present, Value, file
    <3>4. ASSUME access = "full", start # None
          PROVE  \A j \in 1..6 : j <= i /\ ReadOrder[j] \in start => rd'.seen[ReadOrder[j]] # None
      <4> SUFFICES ASSUME NEW j \in 1..6, j <= i, ReadOrder[j] \in start
                   PROVE  rd'.seen[ReadOrder[j]] # None
        OBVIOUS
      <4>1. start \subseteq Present
        BY <2>2, <3>4 DEF Reader, Witnessed
      <4>2. CASE j = i
        <5>1. GetKey(ReadOrder[i]) = Value(cur, ReadOrder[i])
          BY <2>4, <3>4 DEF GetKey
        <5>2. Value(cur, ReadOrder[i]) # None
          BY <2>4, <4>1, <4>2 DEF Present
        <5> QED BY <3>1, <4>2, <5>1, <5>2
      <4>3. CASE j # i
        <5>1. rd.seen[ReadOrder[j]] # None
          BY <2>2, <3>4, <4>3 DEF Reader, Witnessed
        <5>2. ReadOrder[j] \in AllKeys /\ ReadOrder[j] # ReadOrder[i]
          BY <4>3, ReadKeys
        <5> QED BY <3>1, <5>1, <5>2
      <4> QED BY <4>2, <4>3
    <3>5. CASE i # 6
      <4>1. rd'.at = i + 1 /\ rd'.status = "reading"
        BY <3>1, <3>5
      <4>2. Witnessed'
        <5>1. \A j \in 1..6 : j < i + 1 => j <= i
          OBVIOUS
        <5>2. access = "full" /\ start # None => start \subseteq Present
          BY <2>2 DEF Reader, Witnessed
        <5> QED BY <2>1, <3>3, <3>4, <4>1, <5>1, <5>2 DEF Witnessed, file
      <4>3. ExitCodeHonest' /\ cur' # 0
        BY <2>1, <2>4, <4>1 DEF ExitCodeHonest, file
      <4> QED BY <3>2, <4>1, <4>2, <4>3 DEF Reader
    <3>6. CASE i = 6
      <4>1. rd'.at = 0 /\ rd'.status = "done"
        BY <3>1, <3>6
      <4>2. Witnessed'
        <5> SUFFICES ASSUME access = "full", start # None, NEW k \in start
                     PROVE  rd'.seen[k] # None
          BY <2>1, <4>1 DEF Witnessed, file
        <5>1. k \in AllKeys
          BY DEF Typed
        <5>2. PICK j \in 1..6 : ReadOrder[j] = k
          BY <5>1, ReadKeys
        <5> QED BY <3>4, <3>6, <5>2
      <4>3. ExitCodeHonest'
        BY <2>1, <2>4, <4>1 DEF ExitCodeHonest, file
      <4> QED BY <3>2, <4>1, <4>2, <4>3 DEF Reader
    <3> QED BY <3>5, <3>6
  <2> QED BY <2>3, <2>4
<1>5. CASE ProvExits
  <2>1. rd'.at = 0 /\ rd'.status = "idle" /\ rd'.seen = Nothing
    BY <1>5 DEF ProvExits
  <2> QED BY <1>1, <2>1 DEF Reader, ExitCodeHonest, Witnessed
<1>6. CASE Replace \/ Remove
  <2>1. rd' = rd /\ access' = access /\ start' = Changed
    BY <1>6 DEF Replace, Remove
  <2>2. CASE rd.at # 0
    BY <2>1, <2>2 DEF Reader, ExitCodeHonest, Witnessed, Changed
  <2>3. CASE rd.at = 0
    BY <2>1, <2>3 DEF Reader, ExitCodeHonest, Witnessed, Changed
  <2> QED BY <2>2, <2>3
<1>7. CASE UNCHANGED vars
  BY <1>2, <1>7 DEF vars, file
<1> QED BY <1>2, <1>3, <1>4, <1>5, <1>6, <1>7
     DEF Next, Handle, Close, WriteKey, WriteKeyFails, ReadHistory, WriteHistory, WriteHistoryFails,
         reader

(* What a reader has seen is always witnessed. *)
LEMMA ReaderInvariant == Spec => [](Typed /\ Reader)
<1>1. Typed /\ Sound /\ Ringed /\ Reader /\ [Next]_vars => Reader'
  BY ReaderStep
<1> QED BY <1>1, TypedInvariant, ReaderInit, PTL DEF Spec

(* prov fails if and only if it has to, whatever stampers do to the file   *)
(* while it reads.                                                         *)
THEOREM ExitCodesAreHonest == Spec => []ExitCodeHonest
<1>1. Reader => ExitCodeHonest
  BY DEF Reader
<1> QED BY <1>1, ReaderInvariant, PTL

(* prov overlooks no key that was there when it began. *)
THEOREM EvidenceIsSeen == Spec => []EvidenceNotMissed
<1>1. Typed /\ Reader => EvidenceNotMissed
  <2> SUFFICES ASSUME Typed, Reader, rd.status = "done", access = "full", start # None
               PROVE  /\ start # {} => ~NoProvenance("show", rd.seen)
                      /\ "session" \in start => ~NoProvenance("who", rd.seen)
                      /\ "ts" \in start => ~NoProvenance("when", rd.seen)
                      /\ "history" \in start /\ NoEmptySession
                           => ~NoProvenance("chain", rd.seen)
    BY DEF EvidenceNotMissed, NoEmptySession
  <2>1. \A k \in start : rd.seen[k] # None
    BY DEF Reader, Witnessed
  <2>2. rd.seen \in [AllKeys -> Values] /\ start \subseteq AllKeys
    BY DEF Typed, ReadType
  <2>3. start # {} => ~NoProvenance("show", rd.seen)
    BY <2>1, <2>2 DEF NoProvenance, IsEmpty
  <2>4. "session" \in start => ~NoProvenance("who", rd.seen)
    BY <2>1 DEF NoProvenance
  <2>5. "ts" \in start => ~NoProvenance("when", rd.seen)
    BY <2>1 DEF NoProvenance
  <2>6. ASSUME "history" \in start, NoEmptySession PROVE ~NoProvenance("chain", rd.seen)
    <3>1. PICK h : h = rd.seen["history"]
      OBVIOUS
    <3>2. h # None /\ h \in Seq(Parts) /\ h # <<>>
      BY <2>1, <2>6, <3>1 DEF Reader, SeenOK, HistType
    <3>3. ParseHistory(h) # <<>>
      <4>1. PICK m \in Nat : m = (IF Len(h) < MAX_HISTORY THEN Len(h) ELSE MAX_HISTORY) /\ m # 0
        BY <3>2, RecordAssumption
      <4>2. Len(SubSeq(h, 1, m)) = m
        BY <3>2, <4>1, RecordAssumption
      <4> QED BY <4>1, <4>2 DEF ParseHistory, Take
    <3> QED BY <3>1, <3>2, <3>3 DEF NoProvenance
  <2> QED BY <2>3, <2>4, <2>5, <2>6
<1> QED BY <1>1, ReaderInvariant, PTL
-----------------------------------------------------------------------------
(* The history.  w are the sessions of those that wrote it, in order, h is *)
(* the ring they left.                                                     *)

(* A writer is as far back in the ring as there have been writers since,   *)
(* or less, if the sessions since have no commas.                          *)
Chain(w, h) ==
  \A i \in 1..Len(w) :
    Len(w) - i < MAX_HISTORY /\ (\A j \in i..Len(w) : Len(w[j]) = 1) =>
      \E p \in 1..Len(h) : p <= Len(w) - i + 1 /\ h[p] = w[i][1]

(* One more call keeps the history in the chain of sessions that wrote it. *)
LEMMA ChainPush ==
  ASSUME NEW w \in Seq(Seq(Parts)), NEW h \in Seq(Parts), Chain(w, h),
         NEW c \in Callers
  PROVE  Chain(Append(w, Session[c]), PushHistory(h, Session[c], MAX_HISTORY))
<1>1. PICK s \in Seq(Parts) : s = Session[c]
  BY RecordAssumption
<1>2. PICK rest \in Seq(Parts) : /\ PushHistory(h, s, MAX_HISTORY) = s \o rest
                                 /\ IsRest(rest, h, Len(h), s, MAX_HISTORY)
  BY <1>1, Pushed
<1>3. PICK g : g = s \o rest
  OBVIOUS
<1>4. PICK v : v = Append(w, s)
  OBVIOUS
<1>5. PICK n \in Nat : n = Len(w)
  OBVIOUS
<1>6. PICK m \in Nat : m = Len(h)
  OBVIOUS
<1>7. MAX_HISTORY \in Nat
  BY RecordAssumption
<1>8. Len(v) = n + 1 /\ v[n + 1] = s /\ \A i \in 1..n : v[i] = w[i]
  BY <1>4, <1>5
<1>9. Chain(v, g)
  <2> SUFFICES ASSUME NEW i \in 1..(n + 1), (n + 1) - i < MAX_HISTORY,
                      \A j \in i..(n + 1) : Len(v[j]) = 1
               PROVE  \E p \in 1..Len(g) : p <= (n + 1) - i + 1 /\ g[p] = v[i][1]
    BY <1>8, Zenon DEF Chain
  <2>1. Len(s) = 1
    BY <1>8
  <2>2. PICK x : x = s[1] /\ s = <<x>>
    BY <1>1, <2>1
  <2>3. /\ Len(g) = 1 + Len(rest) /\ Len(rest) \in Nat /\ g[1] = x
        /\ \A k \in 1..Len(rest) : g[k + 1] = rest[k]
    BY <1>3, <2>1, <2>2
  <2>4. CASE i = n + 1
    BY <1>8, <2>2, <2>3, <2>4
  <2>5. CASE i # n + 1
    <3>1. i \in 1..n /\ n - i < MAX_HISTORY
      BY <1>7, <2>5
    <3>2. \A j \in i..n : Len(w[j]) = 1
      <4> TAKE j \in i..n
      <4>1. j \in i..(n + 1) /\ j \in 1..n
        BY <3>1
      <4> QED BY <1>8, <4>1
    <3>3. PICK p \in 1..m : p <= n - i + 1 /\ h[p] = w[i][1]
      BY <1>5, <1>6, <3>1, <3>2 DEF Chain
    <3>4. v[i] = w[i]
      BY <1>8, <3>1
    <3>5. CASE h[p] = x
      <4>1. 1 \in 1..Len(g) /\ 1 <= n + 1 - i + 1
        BY <2>3, <3>1
      <4> QED BY <2>3, <3>3, <3>4, <3>5, <4>1
    <3>6. CASE h[p] # x
      <4>1. p < MAX_HISTORY
        BY <1>7, <3>1, <3>3
      <4>2. <<h[p]>> # s
        BY <2>2, <3>6
      <4>3. PICK k \in 1..Len(rest) : k <= p /\ rest[k] = h[p]
        BY <1>2, <1>6, <4>1, <4>2 DEF IsRest
      <4>4. k + 1 \in 1..Len(g) /\ k + 1 <= n + 1 - i + 1
        BY <2>3, <3>1, <3>3, <4>3
      <4>5. g[k + 1] = v[i][1]
        BY <2>3, <3>3, <3>4, <4>3
      <4> QED BY <4>4, <4>5
    <3> QED BY <3>5, <3>6
  <2> QED BY <2>4, <2>5
<1> QED BY <1>1, <1>2, <1>3, <1>4, <1>9

(* Session a has written after the last write of session b. *)
LaterIn(w, a, b) ==
  \E i \in 1..Len(w) : w[i] = <<a>> /\ \A j \in i..Len(w) : w[j] # <<b>>

(* The ring holds the latest writers, the latest first. *)
Recent(w, h) ==
  (\A i \in 1..Len(w) : Len(w[i]) = 1) =>
    /\ Len(h) <= MAX_HISTORY
    /\ \A i \in 1..Len(h) :
         /\ \E k \in 1..Len(w) : w[k] = <<h[i]>>
         /\ \A j \in 1..Len(h) : i < j => LaterIn(w, h[i], h[j])
    /\ \A k \in 1..Len(w) :
         \/ \E i \in 1..Len(h) : w[k] = <<h[i]>>
         \/ /\ Len(h) = MAX_HISTORY
            /\ \A i \in 1..Len(h) : LaterIn(w, h[i], w[k][1])

(* One more call keeps the history the most recent sessions, latest first. *)
LEMMA RecentPush ==
  ASSUME NEW w \in Seq(Seq(Parts)), NEW h \in Seq(Parts), Recent(w, h),
         NEW c \in Callers
  PROVE  Recent(Append(w, Session[c]), PushHistory(h, Session[c], MAX_HISTORY))
<1>1. PICK s \in Seq(Parts) : s = Session[c]
  BY RecordAssumption
<1>2. PICK rest \in Seq(Parts) : /\ PushHistory(h, s, MAX_HISTORY) = s \o rest
                                 /\ IsRest(rest, h, Len(h), s, MAX_HISTORY)
                                 /\ InOrder(rest, h, Len(h), s, MAX_HISTORY)
  BY <1>1, Pushed
<1>3. PICK g : g = s \o rest
  OBVIOUS
<1>4. PICK v : v = Append(w, s)
  OBVIOUS
<1>5. PICK n \in Nat : n = Len(w)
  OBVIOUS
<1>6. PICK m \in Nat : m = Len(h)
  OBVIOUS
<1>7. PICK r \in Nat : r = Len(rest)
  OBVIOUS
<1>8. PICK max \in Nat : max = MAX_HISTORY /\ 1 <= max
  BY RecordAssumption
<1>9. Len(v) = n + 1 /\ v[n + 1] = s /\ \A i \in 1..n : v[i] = w[i]
  BY <1>4, <1>5
<1>10. ASSUME \A i \in 1..(n + 1) : Len(v[i]) = 1
       PROVE  /\ Len(g) <= max
              /\ \A i \in 1..Len(g) :
                   /\ \E k \in 1..(n + 1) : v[k] = <<g[i]>>
                   /\ \A j \in 1..Len(g) : i < j => LaterIn(v, g[i], g[j])
              /\ \A k \in 1..(n + 1) :
                   \/ \E i \in 1..Len(g) : v[k] = <<g[i]>>
                   \/ Len(g) = max /\ \A i \in 1..Len(g) : LaterIn(v, g[i], v[k][1])
  <2>1. Len(s) = 1
    BY <1>9, <1>10
  <2>2. PICK x : s = <<x>>
    BY <1>1, <2>1
  <2>3. /\ Len(g) = 1 + r /\ g[1] = x
        /\ \A k \in 1..r : g[k + 1] = rest[k]
    BY <1>3, <1>7, <2>2
  <2>4. r < max /\ \A j \in 1..r : rest[j] # x /\ \E k \in 1..m : rest[j] = h[k]
    BY <1>2, <1>6, <1>7, <1>8, <2>2 DEF IsRest
  <2>5. \A i \in 1..n : Len(w[i]) = 1
    <3> TAKE i \in 1..n
    <3>1. i \in 1..(n + 1)
      OBVIOUS
    <3> QED BY <1>9, <1>10, <3>1
  <2>6. /\ m <= max
        /\ \A i \in 1..m :
             /\ \E k \in 1..n : w[k] = <<h[i]>>
             /\ \A j \in 1..m : i < j => LaterIn(w, h[i], h[j])
        /\ \A k \in 1..n :
             \/ \E i \in 1..m : w[k] = <<h[i]>>
             \/ m = max /\ \A i \in 1..m : LaterIn(w, h[i], w[k][1])
    BY <1>5, <1>6, <1>8, <2>5 DEF Recent
  <2>7. ASSUME NEW a, NEW b, b # x, LaterIn(w, a, b) PROVE LaterIn(v, a, b)
    <3>1. PICK i \in 1..n : w[i] = <<a>> /\ \A j \in i..n : w[j] # <<b>>
      BY <1>5, <2>7 DEF LaterIn
    <3>2. i \in 1..(n + 1) /\ v[i] = <<a>>
      BY <1>9, <3>1
    <3>3. ASSUME NEW j \in i..(n + 1) PROVE v[j] # <<b>>
      <4>1. CASE j = n + 1
        BY <1>9, <2>2, <2>7, <4>1
      <4>2. CASE j # n + 1
        <5>1. j \in i..n /\ j \in 1..n
          BY <4>2
        <5> QED BY <1>9, <3>1, <5>1
      <4> QED BY <4>1, <4>2
    <3> QED BY <1>9, <3>2, <3>3 DEF LaterIn
  <2>8. ASSUME NEW b, b # x PROVE LaterIn(v, x, b)
    <3>1. n + 1 \in 1..(n + 1) /\ \A j \in (n + 1)..(n + 1) : j = n + 1
      OBVIOUS
    <3>2. v[n + 1] = <<x>> /\ v[n + 1] # <<b>>
      BY <1>9, <2>2, <2>8
    <3> QED BY <1>9, <3>1, <3>2 DEF LaterIn
  <2>9. \A i \in 1..(r + 1) : i # 1 => i - 1 \in 1..r /\ g[i] = rest[i - 1]
    <3> TAKE i \in 1..(r + 1)
    <3> SUFFICES ASSUME i # 1 PROVE i - 1 \in 1..r /\ g[i] = rest[i - 1]
      OBVIOUS
    <3>1. i - 1 \in 1..r /\ (i - 1) + 1 = i
      OBVIOUS
    <3> QED BY <2>3, <3>1
  <2>10. ASSUME NEW i \in 1..(r + 1) PROVE \E k \in 1..(n + 1) : v[k] = <<g[i]>>
    <3>1. CASE i = 1
      <4>1. n + 1 \in 1..(n + 1)
        OBVIOUS
      <4> QED BY <1>9, <2>2, <2>3, <3>1, <4>1
    <3>2. CASE i # 1
      <4>1. PICK k \in 1..m : g[i] = h[k]
        BY <2>4, <2>9, <3>2
      <4>2. PICK j \in 1..n : w[j] = <<h[k]>>
        BY <2>6
      <4>3. j \in 1..(n + 1)
        OBVIOUS
      <4> QED BY <1>9, <4>1, <4>2, <4>3
    <3> QED BY <3>1, <3>2
  <2>11. ASSUME NEW i \in 1..(r + 1), NEW j \in 1..(r + 1), i < j
         PROVE  LaterIn(v, g[i], g[j])
    <3>1. j # 1 /\ j - 1 \in 1..r /\ g[j] = rest[j - 1]
      BY <2>9, <2>11
    <3>2. g[j] # x
      BY <2>4, <3>1
    <3>3. CASE i = 1
      BY <2>3, <2>8, <3>2, <3>3
    <3>4. CASE i # 1
      <4>1. i - 1 \in 1..r /\ g[i] = rest[i - 1] /\ i - 1 < j - 1
        BY <2>9, <2>11, <3>4
      <4>2. PICK a \in 1..m, b \in 1..m : a < b /\ g[i] = h[a] /\ g[j] = h[b]
        <5>1. PICK e \in 1..r, f \in 1..r : e = i - 1 /\ f = j - 1
          BY <3>1, <4>1
        <5>2. e < f /\ g[i] = rest[e] /\ g[j] = rest[f]
          BY <3>1, <4>1, <5>1
        <5>3. \E a \in 1..m, b \in 1..m : a < b /\ rest[e] = h[a] /\ rest[f] = h[b]
          BY <1>2, <1>6, <1>7, <5>2, Zenon DEF InOrder
        <5> QED BY <5>2, <5>3
      <4>3. LaterIn(w, h[a], h[b])
        BY <2>6, <4>2
      <4> QED BY <2>7, <3>2, <4>2, <4>3
    <3> QED BY <3>3, <3>4
  <2>12. NoRepeat(h)
    <3> SUFFICES ASSUME NEW i \in 1..m, NEW j \in 1..m, h[i] = h[j], i < j PROVE FALSE
      BY <1>6 DEF NoRepeat
    <3>1. LaterIn(w, h[i], h[i])
      BY <2>6
    <3>2. PICK k \in 1..n : w[k] = <<h[i]>> /\ \A q \in k..n : w[q] # <<h[i]>>
      BY <1>5, <3>1 DEF LaterIn
    <3> QED BY <3>2
  <2>13. ASSUME NEW k \in 1..(n + 1)
         PROVE  \/ \E i \in 1..(r + 1) : v[k] = <<g[i]>>
                \/ r + 1 = max /\ \A i \in 1..(r + 1) : LaterIn(v, g[i], v[k][1])
    <3>1. 1 \in 1..(r + 1)
      OBVIOUS
    <3>2. CASE v[k] = s
      BY <2>2, <2>3, <3>1, <3>2
    <3>3. CASE v[k] # s
      <4>1. k \in 1..n /\ v[k] = w[k]
        BY <1>9, <3>3
      <4>2. PICK y : v[k] = <<y>> /\ y = v[k][1]
        <5>1. Len(v[k]) = 1 /\ v[k] \in Seq(Parts)
          BY <1>5, <2>5, <4>1
        <5> QED BY <5>1
      <4>3. y # x
        BY <2>2, <3>3, <4>2
      <4>4. CASE \E i \in 1..m : w[k] = <<h[i]>>
        <5>1. PICK i \in 1..m : y = h[i]
          <6>1. PICK i \in 1..m : w[k] = <<h[i]>>
            BY <4>4
          <6>2. <<y>> = <<h[i]>>
            BY <4>1, <4>2, <6>1
          <6> QED BY <6>2
        <5>2. <<h[i]>> # s
          BY <2>2, <4>3, <5>1
        <5>3. \/ \E j \in 1..r : rest[j] = h[i]
              \/ r = max - 1 /\ \A j \in 1..r : \E a \in 1..m : a < i /\ rest[j] = h[a]
          BY <1>2, <1>6, <1>7, <1>8, <5>2 DEF InOrder
        <5>4. CASE \E j \in 1..r : rest[j] = h[i]
          <6>1. PICK j \in 1..r : rest[j] = h[i]
            BY <5>4
          <6>2. j + 1 \in 1..(r + 1) /\ g[j + 1] = y
            BY <2>3, <5>1, <6>1
          <6> QED BY <4>2, <6>2
        <5>5. CASE r = max - 1 /\ \A j \in 1..r : \E a \in 1..m : a < i /\ rest[j] = h[a]
          <6>1. ASSUME NEW j \in 1..(r + 1) PROVE LaterIn(v, g[j], y)
            <7>1. CASE j = 1
              BY <2>3, <2>8, <4>3, <7>1
            <7>2. CASE j # 1
              <8>1. PICK a \in 1..m : a < i /\ g[j] = h[a]
                BY <2>9, <5>5, <7>2
              <8>2. LaterIn(w, h[a], h[i])
                BY <2>6, <8>1
              <8> QED BY <2>7, <4>3, <5>1, <8>1, <8>2
            <7> QED BY <7>1, <7>2
          <6> QED BY <4>2, <5>5, <6>1
        <5> QED BY <5>3, <5>4, <5>5
      <4>5. CASE ~\E i \in 1..m : w[k] = <<h[i]>>
        <5>1. m = max /\ \A i \in 1..m : LaterIn(w, h[i], y)
          BY <2>6, <4>1, <4>2, <4>5
        <5>2. r = max - 1
          BY <1>2, <1>6, <1>7, <1>8, <2>4, <2>12, <5>1 DEF InOrder
        <5>3. ASSUME NEW j \in 1..(r + 1) PROVE LaterIn(v, g[j], y)
          <6>1. CASE j = 1
            BY <2>3, <2>8, <4>3, <6>1
          <6>2. CASE j # 1
            <7>1. PICK a \in 1..m : g[j] = h[a]
              BY <2>4, <2>9, <6>2
            <7> QED BY <2>7, <4>3, <5>1, <7>1
          <6> QED BY <6>1, <6>2
        <5> QED BY <4>2, <5>2, <5>3
      <4> QED BY <4>4, <4>5
    <3> QED BY <3>2, <3>3
  <2>14. Len(g) = r + 1 /\ r + 1 <= max
    BY <2>3, <2>4
  <2> QED BY <2>10, <2>11, <2>13, <2>14
<1>11. Recent(v, g)
  BY <1>8, <1>9, <1>10 DEF Recent
<1> QED BY <1>1, <1>2, <1>3, <1>4, <1>11

(* The sessions of the writers in a log, and the ring of a file. *)
WritersOf(l) == [i \in 1..Len(l) |-> Session[stamp[l[i]].id]]
Ring(h) == IF h = None THEN <<>> ELSE h
IsLog(l) == \A i \in 1..Len(l) : l[i] \in 1..Len(stamp) /\ stamp[l[i]].by = "overlay"

RecentRings == {p \in Seq(Seq(Parts)) \X Seq(Parts) : Recent(p[1], p[2])}

(* The logs are of calls, a file has a history if it has a log, and unless *)
(* it is disturbed the history is the ring its log leaves.  So is what     *)
(* prov has read.                                                          *)
Logged ==
  /\ \A o \in Objs : IsLog(log[o]) /\ (log[o] = <<>> <=> hist[o] = None)
  /\ access = "unsupported" => \A o \in Objs : log[o] = <<>>
  /\ \A o \in Objs \ disturbed : /\ Chain(WritersOf(log[o]), Ring(hist[o]))
                                 /\ <<WritersOf(log[o]), Ring(hist[o])>> \in RecentRings
  /\ IsLog(rd.log)
  /\ rd.status = "done" /\ disturbed = {} =>
       Chain(WritersOf(rd.log), Ring(rd.seen["history"]))

(* The writers in a log stay who they are. *)
LEMMA WritersStay ==
  ASSUME StampsKept, NEW l \in Seq(1..MaxStamps), IsLog(l)
  PROVE  WritersOf(l)' = WritersOf(l) /\ IsLog(l)'
<1>1. ASSUME NEW i \in 1..Len(l)
      PROVE  /\ l[i] \in 1..Len(stamp') /\ stamp'[l[i]].by = "overlay"
             /\ stamp'[l[i]].id = stamp[l[i]].id
  BY DEF IsLog, StampsKept
<1> QED BY <1>1 DEF WritersOf, IsLog

(* The writers of a log are sessions, one for each call in it. *)
LEMMA WritersTyped ==
  ASSUME Typed, Sound, NEW l \in Seq(1..MaxStamps), IsLog(l)
  PROVE  WritersOf(l) \in Seq(Seq(Parts)) /\ Len(WritersOf(l)) = Len(l)
<1>1. ASSUME NEW i \in 1..Len(l) PROVE Session[stamp[l[i]].id] \in Seq(Parts)
  <2>1. StampOK(stamp[l[i]], made) /\ stamp[l[i]].by = "overlay"
    BY DEF IsLog, Sound
  <2> QED BY <2>1, RecordAssumption DEF StampOK
<1>2. PICK n \in Nat : n = Len(l)
  OBVIOUS
<1>3. PICK f : f = [i \in 1..n |-> Session[stamp[l[i]].id]]
  OBVIOUS
<1>4. f \in [1..n -> Seq(Parts)]
  BY <1>1, <1>2, <1>3
<1>5. f \in Seq(Seq(Parts)) /\ Len(f) = n
  BY <1>4
<1> QED BY <1>2, <1>3, <1>5 DEF WritersOf

(* No call is logged and no history is there at first. *)
LEMMA LoggedInit == Init => Logged
<1> SUFFICES ASSUME Init PROVE Logged
  OBVIOUS
<1>1. /\ \A o \in Objs : log[o] = <<>> /\ hist[o] = None
      /\ rd.log = <<>> /\ rd.status = "idle"
  BY DEF Init
<1>2. Len(<<>>) = 0 /\ 1..0 = {}
  OBVIOUS
<1>3. IsLog(<<>>)
  BY <1>2 DEF IsLog
<1>4. WritersOf(<<>>) = <<>> /\ Ring(None) = <<>>
  BY DEF WritersOf, Ring
<1>5. Chain(<<>>, <<>>)
  BY <1>2 DEF Chain
<1>6. Recent(<<>>, <<>>)
  BY <1>2, RecordAssumption DEF Recent
<1>7. <<<<>>, <<>>>> \in RecentRings
  <2>1. <<>> \in Seq(Seq(Parts)) /\ <<>> \in Seq(Parts)
    OBVIOUS
  <2> QED BY <1>6, <2>1 DEF RecentRings
<1> QED BY <1>1, <1>3, <1>4, <1>5, <1>7 DEF Logged

(* Every step keeps each history the ring its log of calls leaves, and     *)
(* what prov has read the ring of an earlier log.                          *)
LEMMA LoggedStep ==
  ASSUME Typed, Sound, Reader, Logged, [Next]_vars
  PROVE  Logged'
<1>1. StampsKept
  BY StampStays
<1>2. \A o \in Objs : log[o] \in Seq(1..MaxStamps) /\ hist[o] \in HistType
  BY DEF Typed
<1>3. rd.log \in Seq(1..MaxStamps)
  BY DEF Typed, ReadType
<1>4. ASSUME NEW o \in Objs, UNCHANGED <<log, hist>>
      PROVE  /\ IsLog(log[o])' /\ (log'[o] = <<>> <=> hist'[o] = None)
             /\ o \notin disturbed => /\ Chain(WritersOf(log[o]), Ring(hist[o]))'
                                     /\ (<<WritersOf(log[o]), Ring(hist[o])>> \in RecentRings)'
  <2>1. PICK l \in Seq(1..MaxStamps), h \in HistType : l = log[o] /\ h = hist[o]
    BY <1>2
  <2>2. log'[o] = l /\ hist'[o] = h
    BY <1>4, <2>1
  <2>3. IsLog(l) /\ (l = <<>> <=> h = None)
    BY <2>1 DEF Logged
  <2>4. WritersOf(l)' = WritersOf(l) /\ IsLog(l)'
    BY <1>1, <2>3, WritersStay
  <2>5. o \notin disturbed => /\ Chain(WritersOf(l), Ring(h))
                              /\ <<WritersOf(l), Ring(h)>> \in RecentRings
    BY <2>1 DEF Logged
  <2>6. PICK w, g : w = WritersOf(l) /\ g = Ring(h)
    OBVIOUS
  <2>7. WritersOf(log[o])' = w /\ Ring(hist[o])' = g
    BY <2>2, <2>4, <2>6 DEF WritersOf, Ring
  <2>8. IsLog(log[o])'
    BY <2>2, <2>4 DEF IsLog
  <2>9. Chain(w, g) => Chain(WritersOf(log[o]), Ring(hist[o]))'
    BY <2>7 DEF Chain
  <2>10. <<w, g>> \in RecentRings => (<<WritersOf(log[o]), Ring(hist[o])>> \in RecentRings)'
    BY <2>7, Zenon
  <2> QED BY <2>2, <2>3, <2>5, <2>6, <2>8, <2>9, <2>10
<1>5. ASSUME UNCHANGED rd
      PROVE  /\ IsLog(rd.log)'
             /\ rd'.status = "done" /\ disturbed = {} =>
                  Chain(WritersOf(rd.log), Ring(rd.seen["history"]))'
  <2>1. PICK l \in Seq(1..MaxStamps), h \in HistType : l = rd.log /\ h = rd.seen["history"]
    BY <1>3 DEF Reader, SeenOK
  <2>2. rd'.log = l /\ rd'.seen["history"] = h
    BY <1>5, <2>1
  <2>3. WritersOf(l)' = WritersOf(l) /\ IsLog(l)'
    BY <1>1, <2>1, WritersStay DEF Logged
  <2>4. PICK w, g : w = WritersOf(l) /\ g = Ring(h)
    OBVIOUS
  <2>5. WritersOf(rd.log)' = w /\ Ring(rd.seen["history"])' = g /\ IsLog(rd.log)'
    BY <2>2, <2>3, <2>4 DEF WritersOf, Ring, IsLog
  <2>6. rd'.status = "done" /\ disturbed = {} => Chain(w, g)
    BY <1>5, <2>1, <2>4 DEF Logged
  <2> QED BY <2>5, <2>6 DEF Chain
<1>6. ASSUME UNCHANGED <<access, log, hist, disturbed, rd>> PROVE Logged'
  BY <1>4, <1>5, <1>6 DEF Logged
<1>7. ASSUME UNCHANGED <<access, log, hist, disturbed>>, rd'.log = <<>>, rd'.status # "done"
      PROVE  Logged'
  <2>1. IsLog(rd.log)'
    BY <1>7 DEF IsLog
  <2> QED BY <1>4, <1>7, <2>1 DEF Logged
<1>8. CASE ReadKey
  <2>1. UNCHANGED <<file, log, hist, disturbed, stamp>>
    BY <1>8 DEF ReadKey, ghosts
  <2>2. UNCHANGED <<access, log, hist, disturbed>>
    BY <2>1 DEF file
  <2>3. CASE rd'.status = "done" /\ rd'.log = log[cur] /\ cur # 0 /\ access # "denied"
               /\ rd'.seen["history"] = GetKey("history")
    <3>1. cur \in Objs
      BY <2>3, RecordAssumption DEF Typed, Objs
    <3>2. Ring(rd'.seen["history"]) = Ring(hist[cur])
      <4>1. access = "unsupported" => hist[cur] = None
        BY <3>1 DEF Logged
      <4> QED BY <2>3, <4>1 DEF GetKey, Value, Ring
    <3>3. IsLog(rd.log)'
      BY <2>1, <2>3, <3>1 DEF Logged, IsLog
    <3>4. ASSUME disturbed = {} PROVE Chain(WritersOf(rd.log), Ring(rd.seen["history"]))'
      <4>1. PICK w, g : w = WritersOf(log[cur]) /\ g = Ring(hist[cur])
        OBVIOUS
      <4>2. Chain(w, g)
        BY <3>1, <3>4, <4>1 DEF Logged
      <4>3. WritersOf(rd.log)' = w /\ Ring(rd.seen["history"])' = g
        BY <2>1, <2>3, <3>2, <4>1 DEF WritersOf, Ring
      <4> QED BY <4>2, <4>3 DEF Chain
    <3> QED BY <1>4, <2>2, <3>3, <3>4 DEF Logged
  <2>4. CASE rd'.status # "done" /\ rd'.log = rd.log
    <3>1. IsLog(rd.log)'
      BY <2>1, <2>4 DEF Logged, IsLog
    <3> QED BY <1>4, <2>2, <2>4, <3>1 DEF Logged
  <2>5. \/ /\ rd'.status = "done" /\ rd'.log = log[cur] /\ cur # 0 /\ access # "denied"
           /\ rd'.seen["history"] = GetKey("history")
        \/ rd'.status # "done" /\ rd'.log = rd.log
    <3>1. PICK i \in 1..6 : i = rd.at /\ rd.status = "reading"
      BY <1>8, ReadKeyEffect DEF Reader
    <3>2. CASE cur = 0 \/ access = "denied"
      BY <1>8, <3>2, ReadKeyEffect
    <3>3. CASE ~(cur = 0 \/ access = "denied") /\ i = 6
      <4>1. ReadOrder[6] = "history"
        BY ReadKeys
      <4> QED BY <1>8, <3>1, <3>3, <4>1, ReadKeyEffect
    <3>4. CASE ~(cur = 0 \/ access = "denied") /\ i # 6
      BY <1>8, <3>1, <3>4, ReadKeyEffect
    <3> QED BY <3>2, <3>3, <3>4
  <2> QED BY <2>3, <2>4, <2>5
<1>9. ASSUME NEW n \in 1..Len(stamp), WriteHistory(n) PROVE Logged'
  <2>1. PICK c \in Callers :
          /\ c = stamp[n].id /\ stamp[n].by = "overlay"
          /\ cur \in Objs /\ access # "unsupported" /\ n \in 1..MaxStamps
          /\ hist'[cur] \in Seq(Parts)
          /\ hist'[cur] = PushHistory(prior, Session[c], MAX_HISTORY)
          /\ \A o \in Objs : o # cur => hist'[o] = hist[o]
          /\ log'[cur] = Append(log[cur], n)
          /\ \A o \in Objs : o # cur => log'[o] = log[o]
          /\ disturbed' = IF prior = (IF hist[cur] = None THEN <<>> ELSE hist[cur])
                            THEN disturbed ELSE disturbed \cup {cur}
    BY <1>9, WriteHistoryEffect
  <2>2. UNCHANGED <<access, rd>>
    BY <1>9 DEF WriteHistory, file, reader
  <2>3. disturbed \subseteq disturbed'
    BY <2>1
  <2>4. ASSUME NEW o \in Objs, o # cur
        PROVE  /\ IsLog(log[o])' /\ (log'[o] = <<>> <=> hist'[o] = None)
               /\ o \notin disturbed' => /\ Chain(WritersOf(log[o]), Ring(hist[o]))'
                                        /\ (<<WritersOf(log[o]), Ring(hist[o])>> \in RecentRings)'
    <3>1. PICK l \in Seq(1..MaxStamps), h \in HistType : l = log[o] /\ h = hist[o]
      BY <1>2
    <3>2. log'[o] = l /\ hist'[o] = h
      BY <2>1, <2>4, <3>1
    <3>3. IsLog(l) /\ (l = <<>> <=> h = None)
      BY <3>1 DEF Logged
    <3>4. WritersOf(l)' = WritersOf(l) /\ IsLog(l)'
      BY <1>1, <3>3, WritersStay
    <3>5. o \notin disturbed' => /\ Chain(WritersOf(l), Ring(h))
                                 /\ <<WritersOf(l), Ring(h)>> \in RecentRings
      BY <2>3, <3>1 DEF Logged
    <3>6. PICK w, g : w = WritersOf(l) /\ g = Ring(h)
      OBVIOUS
    <3>7. WritersOf(log[o])' = w /\ Ring(hist[o])' = g
      BY <3>2, <3>4, <3>6 DEF WritersOf, Ring
    <3>8. IsLog(log[o])'
      BY <3>2, <3>4 DEF IsLog
    <3>9. Chain(w, g) => Chain(WritersOf(log[o]), Ring(hist[o]))'
      BY <3>7 DEF Chain
    <3>10. <<w, g>> \in RecentRings => (<<WritersOf(log[o]), Ring(hist[o])>> \in RecentRings)'
      BY <3>7, Zenon
    <3> QED BY <3>2, <3>3, <3>5, <3>6, <3>8, <3>9, <3>10
  <2>5. PICK o \in Objs, l \in Seq(1..MaxStamps), h \in HistType :
          o = cur /\ l = log[o] /\ h = hist[o]
    BY <1>2, <2>1
  <2>6. IsLog(l) /\ WritersOf(l)' = WritersOf(l) /\ IsLog(l)'
    BY <1>1, <2>5, WritersStay DEF Logged
  <2>7. PICK m : m = Append(l, n)
    OBVIOUS
  <2>8. PICK k \in Nat : k = Len(l)
    OBVIOUS
  <2>9. Len(m) = k + 1 /\ m[k + 1] = n /\ \A i \in 1..k : m[i] = l[i]
    BY <2>7, <2>8
  <2>10. log'[o] = m /\ m # <<>> /\ hist'[o] # None
    <3>1. m # <<>>
      BY <2>7
    <3> QED BY <2>1, <2>5, <2>7, <3>1, RecordAssumption
  <2>11. stamp'[n].id = c /\ stamp'[n].by = "overlay" /\ n \in 1..Len(stamp')
    BY <1>1, <2>1 DEF StampsKept
  <2>12. IsLog(log[o])'
    <3>1. ASSUME NEW i \in 1..(k + 1) PROVE m[i] \in 1..Len(stamp') /\ stamp'[m[i]].by = "overlay"
      <4>1. CASE i = k + 1
        BY <2>9, <2>11, <4>1
      <4>2. CASE i # k + 1
        <5>1. i \in 1..k
          BY <4>2
        <5> QED BY <2>6, <2>8, <2>9, <5>1 DEF IsLog
      <4> QED BY <4>1, <4>2
    <3> QED BY <2>9, <2>10, <3>1 DEF IsLog
  <2>13. ASSUME o \notin disturbed'
         PROVE  /\ Chain(WritersOf(log[o]), Ring(hist[o]))'
                /\ (<<WritersOf(log[o]), Ring(hist[o])>> \in RecentRings)'
    <3>1. o \notin disturbed /\ prior = Ring(h)
      BY <2>1, <2>5, <2>13 DEF Ring
    <3>2. PICK w \in Seq(Seq(Parts)) : w = WritersOf(l) /\ Len(w) = k
      BY <2>6, <2>8, WritersTyped
    <3>3. PICK g \in Seq(Parts) : g = Ring(h)
      <4>1. <<>> \in Seq(Parts)
        OBVIOUS
      <4> QED BY <2>5, <4>1 DEF Ring, HistType
    <3>4. Chain(w, g) /\ Recent(w, g)
      BY <2>5, <3>1, <3>2, <3>3 DEF Logged, RecentRings
    <3>5. PICK v, f : v = Append(w, Session[c]) /\ f = PushHistory(g, Session[c], MAX_HISTORY)
      OBVIOUS
    <3>6. Chain(v, f) /\ <<v, f>> \in RecentRings
      <4>1. Chain(v, f) /\ Recent(v, f)
        BY <3>4, <3>5, ChainPush, RecentPush
      <4>2. v \in Seq(Seq(Parts)) /\ f \in Seq(Parts)
        BY <3>5, PushTyped, RecordAssumption
      <4> QED BY <4>1, <4>2 DEF RecentRings
    <3>7. Ring(hist[o])' = f
      BY <2>1, <2>5, <2>10, <3>1, <3>3, <3>5 DEF Ring
    <3>8. WritersOf(log[o])' = v
      <4>1. WritersOf(l) = [i \in 1..k |-> Session[stamp[l[i]].id]]
        BY <2>8 DEF WritersOf
      <4>2. WritersOf(log[o])' = [i \in 1..(k + 1) |-> Session[stamp'[m[i]].id]]
        BY <2>9, <2>10 DEF WritersOf
      <4>3. \A i \in 1..k : w[i] = Session[stamp'[m[i]].id]
        <5> TAKE i \in 1..k
        <5>1. l[i] \in 1..Len(stamp) /\ m[i] = l[i]
          BY <2>6, <2>8, <2>9 DEF IsLog
        <5>2. stamp'[l[i]].id = stamp[l[i]].id
          BY <1>1, <5>1 DEF StampsKept
        <5> QED BY <3>2, <4>1, <5>1, <5>2
      <4>4. Session[stamp'[m[k + 1]].id] = Session[c]
        BY <2>9, <2>11
      <4>5. Session[c] \in Seq(Parts)
        BY RecordAssumption
      <4>6. v = [i \in 1..(k + 1) |-> IF i = k + 1 THEN Session[c] ELSE w[i]]
        BY <3>2, <3>5, <4>5
      <4>7. ASSUME NEW i \in 1..(k + 1)
            PROVE  Session[stamp'[m[i]].id] = IF i = k + 1 THEN Session[c] ELSE w[i]
        <5>1. i \in 1..k \/ i = k + 1
          OBVIOUS
        <5> QED BY <4>3, <4>4, <5>1
      <4> QED BY <4>2, <4>6, <4>7
    <3>9. Chain(v, f) => Chain(WritersOf(log[o]), Ring(hist[o]))'
      BY <3>7, <3>8 DEF Chain
    <3>10. <<v, f>> \in RecentRings => (<<WritersOf(log[o]), Ring(hist[o])>> \in RecentRings)'
      BY <3>7, <3>8, Zenon
    <3> QED BY <3>6, <3>9, <3>10
  <2>14. rd'.status = "done" /\ disturbed' = {} =>
           Chain(WritersOf(rd.log), Ring(rd.seen["history"]))'
    BY <1>5, <2>2, <2>3
  <2>15. IsLog(rd.log)'
    BY <1>5, <2>2
  <2>16. \A q \in Objs : q = o \/ q # cur
    BY <2>5
  <2> QED BY <2>1, <2>2, <2>4, <2>10, <2>12, <2>13, <2>14, <2>15, <2>16 DEF Logged
<1>10. CASE ReadBegins \/ ProvExits
  <2>1. UNCHANGED <<access, log, hist, disturbed>>
    BY <1>10 DEF ReadBegins, ProvExits, file, ghosts
  <2>2. rd'.log = <<>> /\ rd'.status # "done"
    BY <1>10 DEF ReadBegins, ProvExits
  <2> QED BY <1>7, <2>1, <2>2
<1>11. DOMAIN stamp = 1..Len(stamp)
  BY DEF Typed
<1> QED BY <1>6, <1>8, <1>9, <1>10, <1>11
     DEF Next, Handle, Close, WriteKey, WriteKeyFails, ReadHistory, WriteHistoryFails,
         Replace, Remove, vars, file, ghosts, reader

(* The histories are always the rings their logs leave. *)
LEMMA LoggedInvariant == Spec => [](Typed /\ Sound /\ Reader /\ Logged)
<1>1. Typed /\ Sound /\ Ringed /\ Reader /\ [Next]_vars => Reader'
  BY ReaderStep
<1>2. Typed /\ Sound /\ Reader /\ Logged /\ [Next]_vars => Logged'
  BY LoggedStep
<1> QED BY <1>1, <1>2, TypedInvariant, ReaderInit, LoggedInit, PTL DEF Spec

(* prov chain names the session prov who shows, however many stamps ran    *)
(* between its reads of the two, up to the size of the ring.               *)
THEOREM WhoStaysInChain == Spec => []WhoIsInChain
<1>1. Typed /\ Sound /\ Reader /\ Logged => WhoIsInChain
  <2> SUFFICES ASSUME Typed, Sound, Reader, Logged, rd.status = "done", disturbed = {},
                      NEW i \in DOMAIN rd.log, rd.log[i] = rd.seen["session"],
                      Len(rd.log) - i < MAX_HISTORY,
                      \A j \in i..Len(rd.log) : Plain(stamp[rd.log[j]].id)
               PROVE  /\ rd.seen["history"] # None
                      /\ \E j \in DOMAIN ParseHistory(rd.seen["history"]) :
                           rd.seen["history"][j] = Session[stamp[rd.seen["session"]].id][1]
    BY DEF WhoIsInChain
  <2>1. PICK l \in Seq(1..MaxStamps) : l = rd.log /\ IsLog(l)
    BY DEF Typed, ReadType, Logged
  <2>2. PICK h \in HistType : h = rd.seen["history"]
    BY DEF Reader, SeenOK
  <2>3. PICK w \in Seq(Seq(Parts)) : w = WritersOf(l) /\ Len(w) = Len(l)
    BY <2>1, WritersTyped
  <2>4. i \in 1..Len(l) /\ \A j \in 1..Len(l) : w[j] = Session[stamp[l[j]].id]
    BY <2>1, <2>3 DEF WritersOf
  <2>5. \A j \in i..Len(l) : Len(w[j]) = 1
    <3> TAKE j \in i..Len(l)
    <3>1. j \in 1..Len(l) /\ Plain(stamp[l[j]].id)
      BY <2>1, <2>4
    <3> QED BY <2>4, <3>1 DEF Plain
  <2>6. Chain(w, Ring(h))
    BY <2>1, <2>2, <2>3 DEF Logged
  <2>7. PICK p \in 1..Len(Ring(h)) : p <= Len(l) - i + 1 /\ Ring(h)[p] = w[i][1]
    BY <2>1, <2>3, <2>4, <2>5, <2>6 DEF Chain
  <2>8. h # None /\ h \in Seq(Parts) /\ Ring(h) = h
    BY <2>7 DEF Ring, HistType
  <2>9. p \in DOMAIN ParseHistory(h)
    <3>1. MAX_HISTORY \in Nat /\ p <= MAX_HISTORY /\ p <= Len(h)
      BY <2>1, <2>4, <2>7, <2>8, RecordAssumption
    <3>2. PICK m \in Nat : m = (IF Len(h) < MAX_HISTORY THEN Len(h) ELSE MAX_HISTORY)
                             /\ m <= Len(h) /\ p <= m
      BY <2>8, <3>1
    <3>3. DOMAIN SubSeq(h, 1, m) = 1..m
      BY <2>8, <3>2
    <3> QED BY <3>2, <3>3 DEF ParseHistory, Take
  <2> QED BY <2>1, <2>2, <2>4, <2>7, <2>8, <2>9
<1> QED BY <1>1, LoggedInvariant, PTL
-----------------------------------------------------------------------------
(* What is left of the stamps *)

Calm == cur # 0 /\ access # "unsupported" /\ faults = 0

(* Only ended stamps were over when another began, and only the latest     *)
(* call can be running.                                                    *)
Ordered ==
  /\ \A n \in 1..Len(stamp) : \A i \in stamp[n].after : i \in 1..Len(stamp) /\ stamp[i].ended
  /\ \A n \in 1..Len(stamp) : stamp[n].by = "overlay" /\ ~stamp[n].ended =>
       \A i \in 1..Len(stamp) : stamp[i].by = "overlay" => i <= n

(* Key k of file o is there, and not of a stamp that was over when stamp n *)
(* began.                                                                  *)
Standing(n, k, o) == key[o][k] # None /\ key[o][k] \notin stamp[n].after

(* Stamp n has written the history of its file. *)
Done(n) == \E i \in 1..Len(log[stamp[n].obj]) : log[stamp[n].obj][i] = n

(* Stamp n has written all the keys it has come by, in its own file: for a *)
(* call, as long as it runs and the file is at the path, and for good once *)
(* it has written the history.                                             *)
Sure(n) ==
  IF stamp[n].by = "lsm" THEN faults = 0 /\ access # "unsupported"
  ELSE /\ stamp[n].obj # 0
       /\ (~stamp[n].ended /\ cur = stamp[n].obj) \/ Done(n)

StandsOf(n) ==
  /\ Sure(n) =>
       /\ \A i \in 1..Len(WriteOrder(stamp[n])) :
            i < stamp[n].at => Standing(n, WriteOrder(stamp[n])[i], stamp[n].obj)
       /\ stamp[n].ended => stamp[n].at > Len(WriteOrder(stamp[n]))
  /\ stamp[n].by = "overlay" /\ stamp[n].obj # 0 /\ Done(n) => stamp[n].ended

Stands == \A n \in 1..Len(stamp) : StandsOf(n)

(* No stamp has begun at first. *)
LEMMA StandsInit == Init => Ordered /\ Stands
<1> SUFFICES ASSUME Init PROVE Ordered /\ Stands
  OBVIOUS
<1>1. 1..Len(stamp) = {}
  BY DEF Init
<1> QED BY <1>1 DEF Ordered, Stands

(* Ordered is kept by every step. *)
LEMMA OrderedStep ==
  ASSUME Typed, Sound, Ordered, [Next]_vars
  PROVE  Ordered'
<1>1. StampsKept /\ stamp \in Seq(StampType) /\ DOMAIN stamp = 1..Len(stamp)
  BY StampStays DEF Typed
<1>2. PICK N \in Nat : N = Len(stamp)
  BY DEF Typed
<1>3. ASSUME Len(stamp') = N,
             \A i \in 1..N : stamp'[i].by = "overlay" /\ ~stamp'[i].ended => ~stamp[i].ended
      PROVE  Ordered'
  <2>1. ASSUME NEW n \in 1..N, NEW i \in stamp'[n].after
        PROVE  i \in 1..N /\ stamp'[i].ended
    <3>1. i \in stamp[n].after
      BY <1>1, <1>2, <2>1 DEF StampsKept
    <3>2. i \in 1..N /\ stamp[i].ended
      BY <1>2, <3>1 DEF Ordered
    <3> QED BY <1>1, <1>2, <3>2 DEF StampsKept
  <2>2. ASSUME NEW n \in 1..N, stamp'[n].by = "overlay", ~stamp'[n].ended,
               NEW i \in 1..N, stamp'[i].by = "overlay"
        PROVE  i <= n
    <3>1. stamp[n].by = "overlay" /\ ~stamp[n].ended /\ stamp[i].by = "overlay"
      BY <1>1, <1>2, <1>3, <2>2 DEF StampsKept
    <3> QED BY <1>2, <3>1 DEF Ordered
  <2> QED BY <1>3, <2>1, <2>2 DEF Ordered
<1>4. CASE stamp' = stamp
  BY <1>2, <1>3, <1>4
<1>5. ASSUME NEW n \in 1..Len(stamp), StampMove(n) PROVE Ordered'
  <2>1. /\ Len(stamp') = Len(stamp) /\ Moved(stamp[n], stamp'[n])
        /\ \A i \in 1..Len(stamp) : i # n => stamp'[i] = stamp[i]
    BY <1>5, MoveEffect
  <2>2. ~stamp[n].ended
    BY <2>1 DEF Moved
  <2> QED BY <1>2, <1>3, <2>1, <2>2
<1>6. ASSUME Calls PROVE Ordered'
  <2>1. Grown
    BY <1>6, CallsGrow
  <2>2. PICK M \in Nat : M = Len(stamp') /\ N < M
    BY <1>2, <2>1 DEF Grown
  <2>3. \A i \in 1..N : stamp'[i] = stamp[i]
    BY <1>2, <2>1 DEF Grown
  <2>4. \A i \in (N + 1)..M :
          /\ stamp'[i].after = {n \in DOMAIN stamp : stamp[n].ended}
          /\ stamp'[i].by = "overlay" => i = M
    BY <1>2, <2>1, <2>2 DEF Grown, Fresh
  <2>5. \A n \in 1..N : stamp[n].by = "overlay" => stamp[n].ended
    BY <1>1, <1>2, <1>6 DEF Calls, Handle, Close, OverlayIdle
  <2>6. ASSUME NEW n \in 1..M, NEW i \in stamp'[n].after
        PROVE  i \in 1..M /\ stamp'[i].ended
    <3>1. i \in 1..N /\ stamp[i].ended
      <4>1. CASE n \in 1..N
        BY <1>2, <2>3, <2>6, <4>1 DEF Ordered
      <4>2. CASE n \notin 1..N
        <5>1. n \in (N + 1)..M
          BY <4>2
        <5>2. i \in {x \in DOMAIN stamp : stamp[x].ended}
          BY <2>4, <2>6, <5>1
        <5> QED BY <1>1, <1>2, <5>2
      <4> QED BY <4>1, <4>2
    <3>2. i \in 1..M
      BY <2>2, <3>1
    <3> QED BY <2>3, <3>1, <3>2
  <2>7. ASSUME NEW n \in 1..M, stamp'[n].by = "overlay", ~stamp'[n].ended,
               NEW i \in 1..M
        PROVE  i <= n
    <3>1. n \notin 1..N
      BY <2>3, <2>5, <2>7
    <3>2. n \in (N + 1)..M
      BY <3>1
    <3>3. n = M
      BY <2>4, <2>7, <3>2
    <3> QED BY <3>3
  <2> QED BY <2>2, <2>6, <2>7 DEF Ordered
<1> QED BY <1>1, <1>4, <1>5, <1>6, StampSteps
     DEF Next, Calls, ReadBegins, ReadKey, ProvExits, Replace, Remove, vars

(* While it is calm nothing fails and the file stays. *)
LEMMA CalmStep ==
  ASSUME Typed, Sound, [Next]_vars, Calm'
  PROVE  /\ Calm /\ cur' = cur
         /\ \A n \in 1..Len(stamp) : ~WriteKeyFails(n) /\ ~WriteHistoryFails(n)
<1>1. faults \in Nat /\ faults' = 0 /\ cur' # 0 /\ access' # "unsupported"
  BY DEF Typed, Calm
<1>2. \/ faults' = faults /\ cur' = cur /\ access' = access
      \/ faults' = faults + 1
  BY DEF Next, Handle, Close, WriteKey, WriteKeyFails, ReadHistory, WriteHistory, WriteHistoryFails,
         ReadBegins, ReadKey, ProvExits, Replace, Remove, vars, file, Fails
<1>3. faults' = faults /\ cur' = cur /\ access' = access
  BY <1>1, <1>2
<1>4. Calm
  BY <1>1, <1>3 DEF Calm
<1>5. ASSUME NEW o, o # 0, Fails(o) PROVE FALSE
  BY <1>1, <1>3, <1>5 DEF Fails
<1>6. ASSUME NEW n \in 1..Len(stamp), WriteKeyFails(n) PROVE FALSE
  <2>1. PICK s \in StampType : s = stamp[n] /\ StampOK(s, made)
    BY DEF Typed, Sound
  <2>2. s.by \in {"overlay", "lsm"} /\ cur # 0
    BY <1>1, <1>3 DEF StampType
  <2>3. Target(s) # 0
    BY <2>1, <2>2 DEF Target, StampOK
  <2> QED BY <1>5, <1>6, <2>1, <2>3 DEF WriteKeyFails
<1>7. ASSUME NEW n \in 1..Len(stamp), WriteHistoryFails(n) PROVE FALSE
  BY <1>1, <1>3, <1>5, <1>7 DEF WriteHistoryFails
<1> QED BY <1>3, <1>4, <1>6, <1>7

(* A key that stands for stamp n does so after every step: what takes its  *)
(* place is of a stamp that is running, and so was not over before n.      *)
LEMMA StandingStays ==
  ASSUME Typed, Sound, Ordered, [Next]_vars,
         NEW n \in 1..Len(stamp), NEW k \in Keys, NEW o \in Objs, Standing(n, k, o)
  PROVE  key'[o][k] # None /\ key'[o][k] \notin stamp'[n].after
<1>1. stamp'[n].after = stamp[n].after
  BY StampStays DEF StampsKept
<1>2. DOMAIN stamp = 1..Len(stamp)
  BY DEF Typed
<1>3. CASE key' = key
  BY <1>1, <1>3 DEF Standing
<1>4. ASSUME NEW m \in 1..Len(stamp), WriteKey(m)
      PROVE  key'[o][k] # None /\ key'[o][k] \notin stamp[n].after
  <2>1. PICK p \in Objs, j \in Keys :
          /\ ~stamp[m].ended /\ key'[p][j] = m
          /\ \A q \in Objs, x \in Keys : q # p \/ x # j => key'[q][x] = key[q][x]
    BY <1>4, WriteKeyEffect
  <2>2. m # None /\ m \notin stamp[n].after
    <3>1. m \in 1..MaxStamps
      BY RecordAssumption DEF Typed
    <3> QED BY <2>1, <3>1, RecordAssumption DEF Ordered
  <2>3. key'[o][k] = m \/ key'[o][k] = key[o][k]
    BY <2>1
  <2> QED BY <2>2, <2>3 DEF Standing
<1>5. key' = key \/ \E m \in DOMAIN stamp : WriteKey(m)
  BY DEF Next, Handle, Close, WriteKeyFails, ReadHistory, WriteHistory, WriteHistoryFails,
         ReadBegins, ReadKey, ProvExits, Replace, Remove, vars
<1> QED BY <1>1, <1>2, <1>3, <1>4, <1>5

(* stamp() is over with the history. *)
LEMMA HistoryEnds ==
  ASSUME Typed, NEW n \in 1..Len(stamp), WriteHistory(n)
  PROVE  stamp'[n].ended
<1>1. stamp \in Seq(StampType) /\ stamp' = [stamp EXCEPT ![n].ended = TRUE]
  BY DEF Typed, WriteHistory
<1>2. PICK s \in StampType : s = stamp[n]
  BY <1>1
<1>3. PICK e : e = [s EXCEPT !.ended = TRUE]
  OBVIOUS
<1>4. stamp' = [stamp EXCEPT ![n] = e]
  BY <1>1, <1>2, <1>3
<1>5. stamp'[n] = e
  BY <1>1, <1>4
<1>6. e.ended
  BY <1>3 DEF StampType
<1> QED BY <1>5, <1>6

(* A call is done by writing the history of its file. *)
LEMMA DoneBefore ==
  ASSUME Typed, Sound, [Next]_vars, NEW n \in 1..Len(stamp), stamp[n].obj # 0, Done(n)'
  PROVE  Done(n) \/ (WriteHistory(n) /\ cur = stamp[n].obj)
<1>1. DOMAIN stamp = 1..Len(stamp) /\ stamp[n] \in StampType
  BY DEF Typed
<1>2. PICK o \in Objs : o = stamp[n].obj /\ o = stamp'[n].obj
  <2>1. stamp'[n].obj = stamp[n].obj
    BY StampStays DEF StampsKept
  <2> QED BY <1>1, <2>1 DEF StampType, Objs
<1>3. PICK l \in Seq(1..MaxStamps) : l = log[o]
  BY DEF Typed
<1>4. PICK i \in 1..Len(log'[o]) : log'[o][i] = n
  BY <1>2 DEF Done
<1>5. CASE log'[o] = l
  BY <1>2, <1>3, <1>4, <1>5 DEF Done
<1>6. ASSUME NEW m \in 1..Len(stamp), WriteHistory(m), log'[o] # l
      PROVE  Done(n) \/ (WriteHistory(n) /\ cur = o)
  <2>1. /\ cur \in Objs /\ m \in 1..MaxStamps /\ log'[cur] = Append(log[cur], m)
        /\ \A p \in Objs : p # cur => log'[p] = log[p]
    BY <1>6, WriteHistoryEffect
  <2>2. cur = o /\ log'[o] = Append(l, m)
    BY <1>3, <1>6, <2>1
  <2>3. (i \in 1..Len(l) /\ l[i] = n) \/ m = n
    BY <1>4, <2>1, <2>2
  <2> QED BY <1>2, <1>3, <1>6, <2>2, <2>3 DEF Done
<1>7. log' = log \/ \E m \in DOMAIN stamp : WriteHistory(m)
  BY DEF Next, Handle, Close, WriteKey, WriteKeyFails, ReadHistory, WriteHistoryFails,
         ReadBegins, ReadKey, ProvExits, Replace, Remove, vars, ghosts
<1> QED BY <1>1, <1>2, <1>3, <1>5, <1>6, <1>7

(* A stamp that is sure of its keys has been so from the start: the file   *)
(* at the path does not come back once it has gone.                        *)
LEMMA SureBefore ==
  ASSUME Typed, Sound, [Next]_vars, NEW n \in 1..Len(stamp), Sure(n)'
  PROVE  Sure(n)
<1>1. /\ stamp'[n].by = stamp[n].by /\ stamp'[n].obj = stamp[n].obj
      /\ stamp[n].ended => stamp'[n].ended
  BY StampStays DEF StampsKept
<1>2. access' = access /\ (faults' = faults \/ faults' = faults + 1)
  BY DEF Next, Handle, Close, WriteKey, WriteKeyFails, ReadHistory, WriteHistory, WriteHistoryFails,
         ReadBegins, ReadKey, ProvExits, Replace, Remove, vars, file, Fails
<1>3. cur' = cur \/ cur' = 0 \/ cur' = made + 1
  BY DEF Next, Handle, Close, WriteKey, WriteKeyFails, ReadHistory, WriteHistory, WriteHistoryFails,
         ReadBegins, ReadKey, ProvExits, Replace, Remove, vars, file
<1>4. faults \in Nat /\ made \in Nat /\ stamp[n].obj \in 0..made
  BY RecordAssumption DEF Typed, Sound, StampOK, Objs
<1>5. CASE stamp[n].by = "lsm"
  <2>1. faults' = 0 /\ access' # "unsupported"
    BY <1>1, <1>5 DEF Sure
  <2> QED BY <1>2, <1>4, <1>5, <2>1 DEF Sure
<1>6. CASE stamp[n].by # "lsm"
  <2>1. stamp[n].obj # 0 /\ ((~stamp[n].ended /\ cur' = stamp[n].obj) \/ Done(n)')
    BY <1>1, <1>6 DEF Sure
  <2>2. cur' = stamp[n].obj => cur = stamp[n].obj
    BY <1>3, <1>4, <2>1
  <2>3. Done(n)' => Done(n) \/ (~stamp[n].ended /\ cur = stamp[n].obj)
    BY <2>1, DoneBefore DEF WriteHistory
  <2> QED BY <1>6, <2>1, <2>2, <2>3 DEF Sure
<1> QED BY <1>5, <1>6

(* What a step of its own does to a stamp that is sure of its keys: it     *)
(* goes past a key only by writing it.                                     *)
LEMMA SureMoves ==
  ASSUME Typed, Sound, Ordered, Stands, [Next]_vars, NEW n \in 1..Len(stamp), Sure(n)',
         WriteKey(n) \/ WriteKeyFails(n) \/ ReadHistory(n) \/ WriteHistory(n) \/ WriteHistoryFails(n)
  PROVE  /\ \A i \in 1..Len(WriteOrder(stamp[n])) :
              i < stamp'[n].at =>
                \/ i < stamp[n].at
                \/ /\ key'[stamp[n].obj][WriteOrder(stamp[n])[i]] # None
                   /\ key'[stamp[n].obj][WriteOrder(stamp[n])[i]] \notin stamp[n].after
         /\ stamp'[n].ended => stamp'[n].at > Len(WriteOrder(stamp[n]))
<1>1. PICK s \in StampType, t \in StampType : s = stamp[n] /\ t = stamp'[n] /\ Moved(s, t)
  <2>1. StampMove(n)
    BY StampSteps
  <2>2. Moved(stamp[n], stamp'[n])
    BY <2>1, MoveEffect
  <2> QED BY <2>2 DEF Typed, Moved
<1>2. Sure(n)
  BY SureBefore
<1>3. PICK L \in 2..5, a \in 1..7, b \in 1..7 :
        L = Len(WriteOrder(s)) /\ a = s.at /\ b = t.at /\ (b = a \/ b = a + 1)
  BY <1>1, OrderOfKeys DEF StampType, Moved
<1>4. ~s.ended /\ StampOK(s, made) /\ s.by \in {"overlay", "lsm"}
  BY <1>1 DEF Moved, Sound, StampType
<1>5. s.by # "lsm" => s.obj # 0 /\ cur = s.obj /\ ~Done(n)
  BY <1>1, <1>2, <1>4 DEF Sure, Stands, StandsOf
<1>6. ASSUME WriteKeyFails(n) PROVE FALSE
  <2>1. Fails(Target(s)) /\ log' = log
    BY <1>1, <1>6 DEF WriteKeyFails, ghosts
  <2>2. CASE s.by = "lsm"
    <3>1. faults = 0 /\ access # "unsupported" /\ Target(s) # 0
      BY <1>1, <1>2, <1>4, <2>2 DEF Sure, Target, StampOK
    <3>2. faults' = 1
      BY <2>1, <3>1 DEF Fails
    <3>3. stamp'[n].by = "lsm"
      BY <1>1, <2>2 DEF Moved
    <3> QED BY <3>2, <3>3 DEF Sure
  <2>3. CASE s.by # "lsm"
    <3>1. stamp' = [stamp EXCEPT ![n] = [s EXCEPT !.ended = TRUE]] /\ stamp \in Seq(StampType)
      BY <1>1, <1>6, <2>3 DEF WriteKeyFails, Typed
    <3>2. PICK e : e = [s EXCEPT !.ended = TRUE]
      OBVIOUS
    <3>3. t.ended
      <4>1. stamp' = [stamp EXCEPT ![n] = e] /\ stamp \in Seq(StampType)
        BY <3>1, <3>2
      <4>2. stamp'[n] = e
        BY <4>1
      <4>3. e.ended
        BY <3>2 DEF StampType
      <4> QED BY <1>1, <4>2, <4>3
    <3>4. Done(n)'
      BY <1>1, <2>3, <3>3 DEF Sure, Moved
    <3>5. Done(n)
      BY <1>1, <2>1, <3>4 DEF Done, Moved
    <3> QED BY <1>5, <2>3, <3>5
  <2> QED BY <2>2, <2>3
<1>7. CASE WriteKey(n)
  <2>1. PICK o \in Objs, k \in Keys :
          /\ o = Target(s) /\ k = WriteOrder(s)[s.at] /\ key'[o][k] = n
    BY <1>1, <1>7, WriteKeyEffect
  <2>2. o = s.obj
    BY <1>4, <1>5, <2>1 DEF Target
  <2>3. n # None /\ n \notin s.after
    <3>1. n \in 1..MaxStamps
      BY RecordAssumption DEF Typed
    <3> QED BY <1>1, <1>4, <3>1, RecordAssumption DEF Ordered
  <2>4. \A i \in 1..L : i < b => i < a \/ i = a
    BY <1>3
  <2>5. t.ended => t.at > L
    <3>1. stamp' = [stamp EXCEPT ![n] = Advanced(s)] /\ stamp \in Seq(StampType)
      BY <1>1, <1>7 DEF WriteKey, Typed
    <3>2. t = Advanced(s)
      BY <1>1, <3>1
    <3>3. t.at = a + 1 /\ (t.ended => a = L)
      BY <1>3, <3>2 DEF Advanced, StampType
    <3> QED BY <3>3
  <2> QED BY <1>1, <1>3, <2>1, <2>2, <2>3, <2>4, <2>5
<1>8. CASE ReadHistory(n) \/ WriteHistory(n) \/ WriteHistoryFails(n)
  <2>1. a > L
    BY <1>1, <1>3, <1>8 DEF ReadHistory, WriteHistory, WriteHistoryFails
  <2> QED BY <1>1, <1>3, <2>1
<1> QED BY <1>6, <1>7, <1>8

(* Every step keeps what the stamps that are sure have written.            *)
LEMMA StandsStep ==
  ASSUME Typed, Sound, Logged, Ordered, Stands, [Next]_vars
  PROVE  Stands'
<1>1. StampsKept /\ stamp \in Seq(StampType) /\ stamp' \in Seq(StampType)
  BY StampStays, StampsTyped DEF Typed
<1>2. PICK N \in Nat, M \in Nat : N = Len(stamp) /\ M = Len(stamp') /\ DOMAIN stamp = 1..N
  BY <1>1
<1>3. ASSUME NEW n \in 1..N PROVE StandsOf(n)'
  <2>1. PICK s \in StampType, t \in StampType :
          /\ s = stamp[n] /\ t = stamp'[n] /\ t.id = s.id /\ t.by = s.by /\ t.obj = s.obj
          /\ s.ended => t.ended
    <3>1. n \in 1..Len(stamp')
      BY <1>1, <1>2 DEF StampsKept
    <3> QED BY <1>1, <1>2, <3>1 DEF StampsKept
  <2>2. WriteOrder(t) = WriteOrder(s) /\ WriteOrder(s) \in Seq(Keys)
    BY <2>1, SameOrder, OrderOfKeys
  <2>3. ASSUME t.by = "overlay", t.obj # 0, Done(n)' PROVE t.ended
    <3>1. Done(n) \/ WriteHistory(n)
      BY <1>2, <2>1, <2>3, DoneBefore
    <3>2. Done(n) => s.ended
      BY <1>2, <2>1, <2>3 DEF Stands, StandsOf
    <3>3. WriteHistory(n) => t.ended
      BY <1>2, <2>1, HistoryEnds
    <3> QED BY <2>1, <3>1, <3>2, <3>3
  <2>4. ASSUME Sure(n)'
        PROVE  /\ \A i \in 1..Len(WriteOrder(s)) : i < t.at => Standing(n, WriteOrder(s)[i], t.obj)'
               /\ t.ended => t.at > Len(WriteOrder(s))
    <3>1. Sure(n)
      BY <1>2, <2>4, SureBefore
    <3>2. /\ \A i \in 1..Len(WriteOrder(s)) : i < s.at => Standing(n, WriteOrder(s)[i], s.obj)
          /\ s.ended => s.at > Len(WriteOrder(s))
      BY <1>2, <2>1, <3>1 DEF Stands, StandsOf
    <3>3. s.obj \in Objs
      <4>1. s.obj \in 0..MaxObj /\ s.by \in {"overlay", "lsm"} /\ StampOK(s, made)
        BY <1>2, <2>1 DEF StampType, Sound
      <4>2. s.obj # 0
        BY <2>1, <3>1, <4>1 DEF Sure, StampOK
      <4> QED BY <4>1, <4>2, RecordAssumption DEF Objs
    <3>4. ASSUME NEW i \in 1..Len(WriteOrder(s)), i < s.at
          PROVE  Standing(n, WriteOrder(s)[i], t.obj)'
      <4>1. PICK k \in Keys : k = WriteOrder(s)[i]
        BY <2>2
      <4>2. Standing(n, k, s.obj)
        BY <3>2, <3>4, <4>1
      <4>3. key'[s.obj][k] # None /\ key'[s.obj][k] \notin stamp'[n].after
        BY <1>2, <3>3, <4>2, StandingStays
      <4> QED BY <2>1, <2>2, <4>1, <4>3 DEF Standing
    <3>5. CASE t = s
      BY <3>2, <3>4, <3>5
    <3>6. CASE WriteKey(n) \/ WriteKeyFails(n) \/ ReadHistory(n) \/ WriteHistory(n) \/ WriteHistoryFails(n)
      <4>1. /\ \A i \in 1..Len(WriteOrder(s)) :
                 i < t.at =>
                   \/ i < s.at
                   \/ /\ key'[s.obj][WriteOrder(s)[i]] # None
                      /\ key'[s.obj][WriteOrder(s)[i]] \notin s.after
            /\ t.ended => t.at > Len(WriteOrder(s))
        BY <1>2, <2>1, <2>4, <3>6, SureMoves
      <4>2. stamp'[n].after = s.after
        BY <1>1, <1>2, <2>1 DEF StampsKept
      <4>3. ASSUME NEW i \in 1..Len(WriteOrder(s)), i < t.at
            PROVE  Standing(n, WriteOrder(s)[i], t.obj)'
        <5>1. CASE i < s.at
          BY <3>4, <5>1
        <5>2. CASE ~(i < s.at)
          BY <2>1, <2>2, <4>1, <4>2, <4>3, <5>2 DEF Standing
        <5> QED BY <5>1, <5>2
      <4> QED BY <4>1, <4>3
    <3>7. t = s \/ WriteKey(n) \/ WriteKeyFails(n) \/ ReadHistory(n) \/ WriteHistory(n)
            \/ WriteHistoryFails(n)
      <4>1. CASE Calls
        BY <1>2, <2>1, <4>1, CallsGrow DEF Grown
      <4>2. ASSUME NEW m \in 1..N, m # n,
                   WriteKey(m) \/ WriteKeyFails(m) \/ ReadHistory(m) \/ WriteHistory(m)
                     \/ WriteHistoryFails(m)
            PROVE  t = s
        <5>1. StampMove(m)
          BY <1>2, <4>2, StampSteps
        <5> QED BY <1>2, <2>1, <4>2, <5>1, MoveEffect
      <4>3. CASE stamp' = stamp
        BY <2>1, <4>3
      <4> QED BY <1>2, <4>1, <4>2, <4>3
           DEF Next, Calls, ReadBegins, ReadKey, ProvExits, Replace, Remove, vars
    <3> QED BY <3>5, <3>6, <3>7
  <2> QED BY <2>1, <2>2, <2>3, <2>4 DEF StandsOf
<1>4. ASSUME NEW n \in 1..M, n \notin 1..N PROVE StandsOf(n)'
  <2>1. Calls
    <3>1. M # N
      BY <1>4
    <3>2. \A m \in 1..N : ~StampMove(m)
      BY <1>2, <3>1, MoveEffect
    <3> QED BY <1>2, <3>1, <3>2, StampSteps
         DEF Next, Calls, ReadBegins, ReadKey, ProvExits, Replace, Remove, vars
  <2>2. n \in (N + 1)..M
    BY <1>4
  <2>3. PICK s \in StampType : s = stamp'[n] /\ s.at = 1 /\ ~s.ended
    BY <1>2, <2>1, <2>2, CallsGrow DEF Grown, Fresh
  <2>4. ASSUME s.obj # 0, Done(n)' PROVE FALSE
    <3>1. log' = log
      BY <2>1 DEF Calls, Handle, Close, ghosts
    <3>2. s.obj \in Objs
      BY <2>4, RecordAssumption DEF StampType, Objs
    <3>3. PICK i \in 1..Len(log[s.obj]) : log[s.obj][i] = n
      BY <2>3, <2>4, <3>1 DEF Done
    <3>4. n \in 1..N
      BY <1>2, <3>2, <3>3 DEF Logged, IsLog
    <3> QED BY <1>4, <3>4
  <2>5. \A i \in 1..Len(WriteOrder(s)) : ~(i < s.at)
    BY <2>3
  <2> QED BY <2>3, <2>4, <2>5 DEF StandsOf
<1> QED BY <1>2, <1>3, <1>4 DEF Stands

(* Nothing older stands over a stamp that has gone through, whatever runs, *)
(* fails or replaces the file: what takes the place of its values later is *)
(* of a stamp that was running when it began, or began later.              *)
THEOREM OlderValuesAreGone == Spec => []OlderNeverStands
<1>1. Typed /\ Sound /\ Stands => OlderNeverStands
  <2> SUFFICES ASSUME Typed, Sound, Stands, NEW n \in DOMAIN stamp, Settled(n),
                      NEW i \in DOMAIN WriteOrder(stamp[n])
               PROVE  Standing(n, WriteOrder(stamp[n])[i], stamp[n].obj)
    BY DEF OlderNeverStands, Standing
  <2>1. n \in 1..Len(stamp) /\ stamp[n] \in StampType
    BY DEF Typed
  <2>2. PICK s \in StampType : s = stamp[n] /\ s.by \in {"overlay", "lsm"} /\ StampOK(s, made)
    BY <2>1 DEF StampType, Sound
  <2>3. WriteOrder(s) \in Seq(Keys) /\ i \in 1..Len(WriteOrder(s)) /\ s.at \in 1..7
    BY <2>2, OrderOfKeys DEF StampType
  <2>4. Sure(n) /\ s.ended
    <3>1. CASE s.by = "lsm"
      BY <2>2, <3>1 DEF Settled, Sure
    <3>2. CASE s.by = "overlay"
      <4>1. s.obj # 0 /\ \E j \in DOMAIN log[s.obj] : log[s.obj][j] = n
        BY <2>2, <3>2 DEF Settled
      <4>2. s.obj \in Objs
        BY <4>1, RecordAssumption DEF StampType, Objs
      <4>3. DOMAIN log[s.obj] = 1..Len(log[s.obj])
        BY <4>2 DEF Typed
      <4>4. Done(n)
        BY <2>2, <4>1, <4>3 DEF Done
      <4> QED BY <2>1, <2>2, <3>2, <4>1, <4>4 DEF Sure, Stands, StandsOf
    <3> QED BY <2>2, <3>1, <3>2
  <2>5. s.at > Len(WriteOrder(s))
    BY <2>1, <2>2, <2>4 DEF Stands, StandsOf
  <2>6. i < s.at
    BY <2>3, <2>5
  <2> QED BY <2>1, <2>2, <2>3, <2>4, <2>6 DEF Stands, StandsOf
<1>2. Typed /\ Sound /\ Ordered /\ [Next]_vars => Ordered'
  BY OrderedStep
<1>3. Typed /\ Sound /\ Logged /\ Ordered /\ Stands /\ [Next]_vars => Stands'
  BY StandsStep
<1> QED BY <1>1, <1>2, <1>3, LoggedInvariant, StandsInit, PTL DEF Spec
-----------------------------------------------------------------------------
(* The history a stamp() replaces is the one it has read. *)

(* A call that has read the history and not yet written it. *)
Pending(s) == s.by = "overlay" /\ ~s.ended /\ s.at = Len(WriteOrder(s)) + 2

Undisturbed ==
  faults = 0 =>
    /\ disturbed = {}
    /\ Calm => \A n \in 1..Len(stamp) : Pending(stamp[n]) => prior = Ring(hist[cur])

(* Only the call that is running writes the history, so unless something   *)
(* fails nothing comes between its read and its write.                     *)
LEMMA UndisturbedStep ==
  ASSUME Typed, Sound, Ordered, Undisturbed, [Next]_vars
  PROVE  Undisturbed'
<1> SUFFICES ASSUME faults' = 0 PROVE Undisturbed'
  BY DEF Undisturbed
<1>1. faults = 0 /\ disturbed = {}
  <2>1. faults' = faults \/ faults' = faults + 1
    BY DEF Next, Handle, Close, WriteKey, WriteKeyFails, ReadHistory, WriteHistory, WriteHistoryFails,
           ReadBegins, ReadKey, ProvExits, Replace, Remove, vars, file, Fails
  <2>2. faults \in Nat
    BY DEF Typed
  <2> QED BY <2>1, <2>2 DEF Undisturbed
<1>2. DOMAIN stamp = 1..Len(stamp) /\ Len(stamp) \in Nat
  BY DEF Typed
<1>3. disturbed' = {}
  <2>1. ASSUME NEW n \in 1..Len(stamp), WriteHistory(n) PROVE disturbed' = disturbed
    <3>1. Calm /\ Pending(stamp[n])
      BY <1>1, <2>1 DEF WriteHistory, Calm, Pending
    <3>2. prior = Ring(hist[cur])
      BY <1>1, <3>1 DEF Undisturbed
    <3> QED BY <2>1, <3>2 DEF WriteHistory, Ring
  <2>2. UNCHANGED disturbed \/ \E n \in DOMAIN stamp : WriteHistory(n)
    BY DEF Next, Handle, Close, WriteKey, WriteKeyFails, ReadHistory, WriteHistoryFails,
           ReadBegins, ReadKey, ProvExits, Replace, Remove, vars, ghosts
  <2> QED BY <1>1, <1>2, <2>1, <2>2
<1>4. ASSUME Calm', NEW m \in 1..Len(stamp'), Pending(stamp'[m])
      PROVE  prior' = Ring(hist'[cur'])
  <2>1. /\ Calm /\ cur' = cur
        /\ \A n \in 1..Len(stamp) : ~WriteKeyFails(n) /\ ~WriteHistoryFails(n)
    BY <1>4, CalmStep
  <2>2. ASSUME m \in 1..Len(stamp), Pending(stamp[m]), UNCHANGED <<prior, hist>>
        PROVE  prior' = Ring(hist'[cur'])
    BY <1>1, <2>1, <2>2 DEF Undisturbed
  <2>3. CASE UNCHANGED <<stamp, prior, hist>>
    BY <1>4, <2>2, <2>3
  <2>4. ASSUME Calls PROVE prior' = Ring(hist'[cur'])
    <3>1. Grown /\ UNCHANGED <<prior, hist>>
      BY <2>4, CallsGrow DEF Calls, Handle, Close
    <3>2. \A i \in 1..Len(stamp) : stamp'[i] = stamp[i]
      BY <3>1 DEF Grown
    <3>3. CASE m \in 1..Len(stamp)
      BY <1>4, <2>2, <3>1, <3>2, <3>3
    <3>4. CASE m \notin 1..Len(stamp)
      <4>1. m \in (Len(stamp) + 1)..Len(stamp')
        BY <1>2, <1>4, <3>1, <3>4 DEF Grown
      <4>2. stamp'[m].at = 1 /\ stamp'[m] \in StampType
        BY <3>1, <4>1 DEF Grown, Fresh
      <4>3. Len(WriteOrder(stamp'[m])) \in 2..5
        BY <4>2, OrderOfKeys
      <4> QED BY <1>4, <4>2, <4>3 DEF Pending
    <3> QED BY <3>3, <3>4
  <2>5. ASSUME NEW n \in 1..Len(stamp), WriteKey(n) PROVE prior' = Ring(hist'[cur'])
    <3>1. StampMove(n)
      BY <2>5, StampSteps
    <3>2. /\ Len(stamp') = Len(stamp) /\ \A i \in 1..Len(stamp) : i # n => stamp'[i] = stamp[i]
          /\ Moved(stamp[n], stamp'[n])
      BY <3>1, MoveEffect
    <3>3. UNCHANGED <<prior, hist>> /\ stamp[n].at <= Len(WriteOrder(stamp[n]))
      BY <2>5 DEF WriteKey, AtKey
    <3>4. m # n
      <4>1. PICK s \in StampType, t \in StampType : s = stamp[n] /\ t = stamp'[n]
        BY <3>2 DEF Typed, Moved
      <4>2. WriteOrder(t) = WriteOrder(s) /\ Len(WriteOrder(s)) \in 2..5
        BY <3>2, <4>1, SameOrder, OrderOfKeys DEF Moved
      <4>3. s.at \in 1..7 /\ t.at \in 1..7 /\ (t.at = s.at \/ t.at = s.at + 1)
        BY <3>2, <4>1 DEF Moved, StampType
      <4>4. t.at # Len(WriteOrder(t)) + 2
        BY <3>3, <4>1, <4>2, <4>3
      <4> QED BY <1>4, <4>1, <4>4 DEF Pending
    <3> QED BY <1>4, <2>2, <3>2, <3>3, <3>4
  <2>6. ASSUME NEW n \in 1..Len(stamp), ReadHistory(n) PROVE prior' = Ring(hist'[cur'])
    <3>1. hist' = hist /\ cur # 0 /\ access # "unsupported"
      BY <2>1, <2>6 DEF ReadHistory, Calm
    <3>2. prior' = IF hist[cur] = None THEN <<>> ELSE hist[cur]
      BY <1>1, <2>6, <3>1 DEF ReadHistory, Fails
    <3> QED BY <2>1, <3>1, <3>2 DEF Ring
  <2>7. ASSUME NEW n \in 1..Len(stamp), WriteHistory(n) PROVE FALSE
    <3>1. StampMove(n)
      BY <2>7, StampSteps
    <3>2. /\ Len(stamp') = Len(stamp) /\ \A i \in 1..Len(stamp) : i # n => stamp'[i] = stamp[i]
      BY <3>1, MoveEffect
    <3>3. stamp[n].by = "overlay" /\ ~stamp[n].ended
      BY <2>7 DEF WriteHistory
    <3>4. m = n
      <4>1. ASSUME m # n PROVE FALSE
        <5>1. m \in 1..Len(stamp) /\ stamp[m].by = "overlay" /\ ~stamp[m].ended
          BY <1>4, <3>2, <4>1 DEF Pending
        <5>2. m <= n /\ n <= m
          BY <3>3, <5>1 DEF Ordered
        <5> QED BY <1>2, <4>1, <5>1, <5>2
      <4> QED BY <4>1
    <3>5. stamp'[n].ended
      BY <2>7, HistoryEnds
    <3> QED BY <1>4, <3>4, <3>5 DEF Pending
  <2>8. \/ UNCHANGED <<stamp, prior, hist>>
        \/ Calls
        \/ \E n \in 1..Len(stamp) : WriteKey(n) \/ ReadHistory(n) \/ WriteHistory(n)
    BY <1>2, <2>1 DEF Next, Calls, ReadBegins, ReadKey, ProvExits, Replace, Remove, vars
  <2> QED BY <2>3, <2>4, <2>5, <2>6, <2>7, <2>8
<1> QED BY <1>3, <1>4 DEF Undisturbed

(* Unless something fails every stamp() replaces the history it has read,  *)
(* and as long as it does and sessions have no commas the ring holds the   *)
(* last distinct sessions that wrote it, the latest first, whatever the    *)
(* LSM's items and prov did in between.                                    *)
THEOREM HistoryStaysRecent == Spec => []HistoryIsMostRecent
<1>1. Typed /\ Sound /\ Logged /\ Undisturbed => HistoryIsMostRecent
  <2> SUFFICES ASSUME Typed, Sound, Logged, Undisturbed, NEW o \in Objs \ disturbed,
                      log[o] # <<>>, \A i \in DOMAIN log[o] : Plain(stamp[log[o][i]].id)
               PROVE  /\ hist[o] # None /\ Len(hist[o]) <= MAX_HISTORY
                      /\ \A i \in DOMAIN hist[o] :
                           /\ \E k \in DOMAIN log[o] : Writer(log[o], k) = <<hist[o][i]>>
                           /\ \A j \in DOMAIN hist[o] : i < j => Later(log[o], hist[o][i], hist[o][j])
                      /\ \A k \in DOMAIN log[o] :
                           \/ \E i \in DOMAIN hist[o] : Writer(log[o], k) = <<hist[o][i]>>
                           \/ /\ Len(hist[o]) = MAX_HISTORY
                              /\ \A i \in DOMAIN hist[o] :
                                   Later(log[o], hist[o][i], Writer(log[o], k)[1])
    BY DEF HistoryIsMostRecent, Undisturbed
  <2>1. PICK l \in Seq(1..MaxStamps), h \in Seq(Parts) : l = log[o] /\ h = hist[o] /\ h # None
    BY DEF Typed, Logged, HistType
  <2>2. IsLog(l) /\ <<WritersOf(l), Ring(h)>> \in RecentRings
    BY <2>1 DEF Logged
  <2>3. PICK w \in Seq(Seq(Parts)) : w = WritersOf(l) /\ Len(w) = Len(l)
    BY <2>2, WritersTyped
  <2>4. DOMAIN l = 1..Len(l) /\ DOMAIN h = 1..Len(h) /\ Ring(h) = h
    BY <2>1 DEF Ring
  <2>5. \A i \in 1..Len(l) : Writer(l, i) = w[i] /\ Len(w[i]) = 1
    <3> TAKE i \in 1..Len(l)
    <3>1. w[i] = Session[stamp[l[i]].id]
      BY <2>3 DEF WritersOf
    <3>2. Plain(stamp[l[i]].id)
      BY <2>1, <2>4
    <3> QED BY <3>1, <3>2 DEF Writer, Plain
  <2>6. Recent(w, h)
    BY <2>2, <2>3, <2>4 DEF RecentRings
  <2>7. ASSUME NEW a, NEW b, LaterIn(w, a, b) PROVE Later(l, a, b)
    <3>1. PICK i \in 1..Len(l) : w[i] = <<a>> /\ \A j \in i..Len(l) : w[j] # <<b>>
      BY <2>3, <2>7 DEF LaterIn
    <3>2. \A j \in i..Len(l) : j \in 1..Len(l)
      OBVIOUS
    <3> QED BY <2>4, <2>5, <3>1, <3>2 DEF Later
  <2>8. /\ Len(h) <= MAX_HISTORY
        /\ \A i \in 1..Len(h) :
             /\ \E k \in 1..Len(l) : w[k] = <<h[i]>>
             /\ \A j \in 1..Len(h) : i < j => LaterIn(w, h[i], h[j])
        /\ \A k \in 1..Len(l) :
             \/ \E i \in 1..Len(h) : w[k] = <<h[i]>>
             \/ /\ Len(h) = MAX_HISTORY
                /\ \A i \in 1..Len(h) : LaterIn(w, h[i], w[k][1])
    BY <2>3, <2>5, <2>6 DEF Recent
  <2>9. ASSUME NEW i \in DOMAIN h
        PROVE  /\ \E k \in DOMAIN l : Writer(l, k) = <<h[i]>>
               /\ \A j \in DOMAIN h : i < j => Later(l, h[i], h[j])
    BY <2>4, <2>5, <2>7, <2>8
  <2>10. ASSUME NEW k \in DOMAIN l
         PROVE  \/ \E i \in DOMAIN h : Writer(l, k) = <<h[i]>>
                \/ /\ Len(h) = MAX_HISTORY
                   /\ \A i \in DOMAIN h : Later(l, h[i], Writer(l, k)[1])
    <3>1. k \in 1..Len(l) /\ Writer(l, k) = w[k]
      BY <2>4, <2>5
    <3>2. \/ \E i \in 1..Len(h) : w[k] = <<h[i]>>
          \/ Len(h) = MAX_HISTORY /\ \A i \in 1..Len(h) : LaterIn(w, h[i], w[k][1])
      BY <2>8, <3>1, Zenon
    <3>3. ASSUME NEW i \in 1..Len(h), LaterIn(w, h[i], w[k][1]) PROVE Later(l, h[i], w[k][1])
      BY <2>7, <3>3, Zenon
    <3> QED BY <2>4, <3>1, <3>2, <3>3, Zenon
  <2> QED BY <2>1, <2>8, <2>9, <2>10
<1>2. Init => Undisturbed
  <2> SUFFICES ASSUME Init PROVE Undisturbed
    OBVIOUS
  <2>1. disturbed = {} /\ 1..Len(stamp) = {}
    BY DEF Init
  <2> QED BY <2>1 DEF Undisturbed
<1>3. Typed /\ Sound /\ Ordered /\ [Next]_vars => Ordered'
  BY OrderedStep
<1>4. Typed /\ Sound /\ Ordered /\ Undisturbed /\ [Next]_vars => Undisturbed'
  BY UndisturbedStep
<1> QED BY <1>1, <1>2, <1>3, <1>4, LoggedInvariant, StandsInit, PTL DEF Spec
=============================================================================
