------------------------ MODULE ProvfsSessionProofs ------------------------
(***************************************************************************)
(* Proofs about the LSM hook for any set of releases: environments of any  *)
(* length, any ancestry, and any buffer sizes that satisfy the assumptions.*)
(* The inductive invariant says how far provfs_stamp() has come:           *)
(*   Placed   a release is handled exactly when the hook is not idle, and  *)
(*            an idle hook has everything as at the start;                 *)
(*   Scanned  pos is where entry next begins, and every target holds its   *)
(*            first match among the entries passed, cut where it must be;  *)
(*   Ended    the scan stopped because nothing more can be read, or never  *)
(*            started;                                                     *)
(*   Filled   how many bytes the fields appended so far take, which of     *)
(*            them are held, and which field the truncated tail can be of; *)
(*   Kept     the session value that is queued is the one rendered.        *)
(***************************************************************************)
EXTENDS ProvfsSession, LoopProofs

Hit(j, t) ==
  LET at == Offsets(close.env)
  IN at[j] < Got /\ Matches(close.env[j], at[j], t)

Chosen(t) ==
  LET k == target[t].entry
      e == close.env[k]
      p == Offsets(close.env)[k]
  IN /\ k \in 1..(next - 1) /\ Hit(k, t)
     /\ \A j \in 1..(k - 1) : ~Hit(j, t)
     /\ target[t].len = Capped(t, Visible(e, p) - KeyLen[e.key])

Placed ==
  /\ pc # "idle" => close \in Closes
  /\ pc = "idle" =>
       /\ close = NULL /\ pos = 0 /\ next = 1 /\ level = 1 /\ chain = 0
       /\ target = [t \in Targets |-> Unfilled]

Scanned ==
  pc # "idle" =>
    /\ next \in 1..(Len(close.env) + 1)
    /\ pos = Offsets(close.env)[next]
    /\ \A t \in Targets :
         IF target[t] = Unfilled THEN \A j \in 1..(next - 1) : ~Hit(j, t)
                                 ELSE Chosen(t)

Ended ==
  pc \notin {"idle", "scan"} =>
    next > Len(close.env) \/ pos >= Got \/ next = 1

(* Bytes taken by the comm-chain, and by the env field behind it. *)
ChainEnd == IF chain = 0 THEN 0 ELSE 11 + chain
EnvEnd ==
  IF target.envsig = Unfilled THEN ChainEnd
  ELSE ChainEnd + (IF ChainEnd = 0 THEN 4 ELSE 5) + EnvSigLen

AfterChain == {"env", "cwd", "pid", "uid", "rendered"}
AfterEnv == AfterChain \ {"env"}

Filled ==
  /\ pc \notin AfterChain \cup {"enqueue"} =>
       off = 0 /\ held = [f \in Fields |-> Absent] /\ tail = NoTail
  /\ pc \in AfterChain =>
       held["comm-chain"] = IF chain = 0 THEN Absent ELSE chain
  /\ pc \in AfterEnv =>
       held["env"] = IF target.envsig = Unfilled THEN Absent ELSE EnvSigLen
  /\ pc = "env" => off = ChainEnd /\ tail = NoTail /\ held["env"] = Absent
  /\ pc \in {"env", "cwd"} =>
       held["cwd"] = Absent /\ held["pid"] = Absent /\ held["uid"] = Absent
  /\ pc = "cwd" => off = EnvEnd /\ tail = NoTail
  /\ pc = "pid" => /\ tail.key \in {"none", "cwd"}
                   /\ held["cwd"] = Absent => off = EnvEnd
                   /\ held["pid"] = Absent /\ held["uid"] = Absent
  /\ pc \in {"pid", "uid", "rendered"} =>
       held["cwd"] = Absent \/ (close.cwd > 0 /\ held["cwd"] = close.cwd)
  /\ pc = "uid" => /\ tail.key \in {"none", "pid"}
                   /\ held["cwd"] = Absent =>
                        off <= EnvEnd + 15 /\ held["pid"] = close.pid
  /\ pc \in {"uid", "rendered"} => held["pid"] \in {Absent, close.pid}
  /\ pc = "rendered" => /\ tail.key \in {"none", "uid"}
                        /\ held["cwd"] = Absent =>
                             /\ tail = NoTail /\ held["pid"] = close.pid
                             /\ held["uid"] = close.uid

Kept ==
  /\ queued.kind # "none" => pc = "enqueue"
  /\ HasFallback =>
       /\ queued.tail.key \in {"none", "uid"}
       /\ queued.held["comm-chain"] = IF chain = 0 THEN Absent ELSE chain
       /\ queued.held["env"] =
            IF target.envsig = Unfilled THEN Absent ELSE EnvSigLen
       /\ \/ queued.held["cwd"] = Absent
          \/ close.cwd > 0 /\ queued.held["cwd"] = close.cwd
       /\ queued.held["pid"] \in {Absent, close.pid}
       /\ queued.held["cwd"] = Absent =>
            /\ queued.tail.key = "none" /\ queued.held["pid"] = close.pid
            /\ queued.held["uid"] = close.uid

Inv == TypeOK /\ Placed /\ Scanned /\ Ended /\ Filled /\ Kept

-----------------------------------------------------------------------------
Entry == [key : DOMAIN KeyLen, len : Nat]
Ancestor == [root : BOOLEAN, pid1 : BOOLEAN, len : 1..15]

(* "KEY=" is between 5 and 18 bytes long. *)
LEMMA KeyLens == \A k \in DOMAIN KeyLen : KeyLen[k] \in 5..18
BY DEF KeyLen

(* An entry of the environment has a length, and the keys have theirs. *)
LEMMA EntryLens == \A e \in Entry : EntryLen(e) \in Nat /\ KeyLen[e.key] \in 5..18
<1> TAKE e \in Entry
<1>1. e.key \in DOMAIN KeyLen /\ e.len \in Nat
  BY DEF Entry
<1>2. KeyLen[e.key] \in 5..18
  BY <1>1, KeyLens, Zenon
<1> QED BY <1>1, <1>2 DEF EntryLen

(* What the properties need to know of a release. *)
LEMMA CloseParts ==
  ASSUME NEW c \in Closes
  PROVE  /\ c.env \in Seq(Entry) /\ c.got \in Nat /\ c.cwd \in Nat
         /\ c.pid \in 1..10 /\ c.uid \in 1..10 /\ c.agentns \in BOOLEAN
         /\ c.ancestry \in Seq(Ancestor)
BY SessionAssumption, Zenon DEF CloseType, Entry, Ancestor

(* The recursive definition of Offsets has a solution: the first entry     *)
(* begins at 0 and each other one behind the NUL of the one before it.     *)
LEMMA OffsetsRecurrence ==
  ASSUME NEW env \in Seq(Entry)
  PROVE  /\ Offsets(env) \in [1..(Len(env) + 1) -> Nat]
         /\ Offsets(env)[1] = 0
         /\ \A n \in 1..Len(env) :
              Offsets(env)[n + 1] = Offsets(env)[n] + EntryLen(env[n]) + 1
<1>1. PICK m \in Nat : m = Len(env)
  OBVIOUS
<1> DEFINE step == [x \in Nat \X (1..m) |-> x[1] + EntryLen(env[x[2]]) + 1]
<1>2. \A i \in 1..m : EntryLen(env[i]) \in Nat
  BY <1>1, EntryLens
<1>3. IsStep(step, Nat, m)
  BY <1>2 DEF IsStep
<1>4. \A v \in Nat, i \in 1..m : step[<<v, i>>] = v + EntryLen(env[i]) + 1
  OBVIOUS
<1> HIDE DEF step
<1>5. PICK f : IsHistory(f, step, Nat, 0, m)
  BY <1>3, LoopExists
<1>6. \A i \in 1..m : f[i] = f[i - 1] + EntryLen(env[i]) + 1
  <2> TAKE i \in 1..m
  <2>1. f[i - 1] \in Nat
    BY <1>5 DEF IsHistory
  <2>2. f[i] = step[<<f[i - 1], i>>]
    BY <1>5, Zenon DEF IsHistory
  <2> QED BY <1>4, <2>1, <2>2, Zenon
<1> DEFINE Rec(at) ==
      at = [n \in 1..(m + 1) |-> IF n = 1 THEN 0
                                  ELSE at[n - 1] + EntryLen(env[n - 1]) + 1]
           g == [n \in 1..(m + 1) |-> f[n - 1]]
<1>7. \A n \in 1..(m + 1) :
        g[n] = IF n = 1 THEN 0 ELSE g[n - 1] + EntryLen(env[n - 1]) + 1
  <2> TAKE n \in 1..(m + 1)
  <2>1. CASE n = 1
    BY <1>5, <2>1 DEF IsHistory
  <2>2. CASE n # 1
    <3>1. n - 1 \in 1..m /\ n - 1 \in 1..(m + 1)
      BY <2>2
    <3>2. g[n] = f[n - 1] /\ g[n - 1] = f[(n - 1) - 1]
      BY <3>1
    <3>3. f[n - 1] = f[(n - 1) - 1] + EntryLen(env[n - 1]) + 1
      BY <1>6, <3>1
    <3> QED BY <2>2, <3>2, <3>3
  <2> QED BY <2>1, <2>2
<1>8. Rec(g)
  BY <1>7
<1> DEFINE at == CHOOSE h : Rec(h)
<1>9. Rec(at)
  BY <1>8, Zenon
<1>10. Offsets(env) = at
  BY <1>1 DEF Offsets
<1> HIDE DEF g
<1>11. \A n \in 1..(m + 1) :
         at[n] = IF n = 1 THEN 0 ELSE at[n - 1] + EntryLen(env[n - 1]) + 1
  BY <1>9, Zenon
<1> HIDE DEF at
<1>12. at[1] = 0 /\ \A n \in 1..m : at[n + 1] = at[n] + EntryLen(env[n]) + 1
  <2>1. at[1] = 0
    BY <1>11
  <2>2. ASSUME NEW n \in 1..m PROVE at[n + 1] = at[n] + EntryLen(env[n]) + 1
    <3>1. n + 1 \in 1..(m + 1) /\ n + 1 # 1 /\ (n + 1) - 1 = n
      OBVIOUS
    <3> QED BY <1>11, <3>1
  <2> QED BY <2>1, <2>2
<1>13. \A n \in 1..(m + 1) : at[n] \in Nat
  <2> DEFINE S == {i \in 0..m : at[i + 1] \in Nat}
  <2>1. 0 \in S
    BY <1>12
  <2>2. \A i \in 1..m : i - 1 \in S => i \in S
    BY <1>2, <1>12
  <2> HIDE DEF S
  <2>3. \A i \in 0..m : i \in S
    BY <2>1, <2>2, UpTo
  <2> USE DEF S
  <2>4. ASSUME NEW n \in 1..(m + 1) PROVE at[n] \in Nat
    <3>1. n - 1 \in 0..m /\ (n - 1) + 1 = n
      OBVIOUS
    <3> QED BY <2>3, <3>1
  <2> QED BY <2>4
<1>14. at = [n \in 1..(m + 1) |-> at[n]]
  BY <1>9, Zenon
<1>15. at \in [1..(m + 1) -> Nat]
  BY <1>13, <1>14
<1> QED BY <1>1, <1>10, <1>12, <1>15

(* An entry further on begins further on. *)
LEMMA OffsetsMonotone ==
  ASSUME NEW env \in Seq(Entry),
         NEW i \in 1..(Len(env) + 1), NEW j \in 1..(Len(env) + 1), i <= j
  PROVE  Offsets(env)[i] <= Offsets(env)[j]
<1>1. PICK m \in Nat : m = Len(env)
  OBVIOUS
<1> DEFINE at == Offsets(env)
           S == {k \in 0..m : i <= k + 1 => at[i] <= at[k + 1]}
<1>2. at \in [1..(m + 1) -> Nat] /\ at[1] = 0
  BY <1>1, OffsetsRecurrence
<1>3. \A n \in 1..m : at[n + 1] = at[n] + EntryLen(env[n]) + 1
  BY <1>1, OffsetsRecurrence
<1>4. \A n \in 1..m : EntryLen(env[n]) \in Nat
  BY <1>1, EntryLens
<1>5. i \in 1..(m + 1) /\ j \in 1..(m + 1)
  BY <1>1
<1> HIDE DEF at
<1>6. 0 \in S
  BY <1>2, <1>5
<1>7. \A k \in 1..m : k - 1 \in S => k \in S
  <2> TAKE k \in 1..m
  <2>1. at[k + 1] >= at[k] /\ at[k] \in Nat /\ at[k + 1] \in Nat /\ at[i] \in Nat
    <3>1. PICK d \in Nat : d = EntryLen(env[k])
      BY <1>4
    <3>2. at[k + 1] = at[k] + d + 1
      BY <1>3, <3>1
    <3>3. at[k] \in Nat /\ at[k + 1] \in Nat /\ at[i] \in Nat
      BY <1>2, <1>5
    <3> QED BY <3>2, <3>3
  <2>2. (k - 1) + 1 = k
    OBVIOUS
  <2> QED BY <1>5, <2>1, <2>2
<1> HIDE DEF S
<1>8. \A k \in 0..m : k \in S
  BY <1>6, <1>7, UpTo
<1>9. j - 1 \in S /\ (j - 1) + 1 = j
  BY <1>5, <1>8
<1> QED BY <1>9 DEF S, at
-----------------------------------------------------------------------------
TailType == [key : Fields \cup {"none"}, len : Int]
HeldType == [Fields -> Nat \cup {Absent}]

(* The sizes are positive, and the actor fields fit with pid and uid. *)
LEMMA Sizes ==
  /\ PROV_IDENT_MAX \in Nat /\ PROV_CHAIN_MAX \in Nat /\ PROV_ENV_VAL_MAX \in Nat
  /\ PROV_FIELD_MAX \in Nat /\ PROV_ENV_SCAN_MAX \in Nat
  /\ PROV_CHAIN_MAX >= 1 /\ PROV_FIELD_MAX >= 1 /\ PROV_IDENT_MAX >= 1
  /\ 64 + PROV_CHAIN_MAX + PROV_ENV_VAL_MAX < PROV_IDENT_MAX
BY SessionAssumption, PidUidRoom

(* What one snprintf() into the session buffer does: either the field is   *)
(* appended whole and nothing is left behind it, or only the truncated     *)
(* tail changes.                                                           *)
LEMMA PutOutcome ==
  ASSUME NEW f \in Fields, NEW len \in Nat,
         off \in 0..(PROV_IDENT_MAX - 1), held \in HeldType, Put(f, len)
  PROVE  /\ Header(f) \in {4, 5, 11, 12}
         /\ off' \in 0..(PROV_IDENT_MAX - 1)
         /\ held' \in HeldType /\ tail' \in TailType
         /\ \A g \in Fields : g # f => held'[g] = held[g]
         /\ IF Header(f) + len < PROV_IDENT_MAX - off
              THEN off' = off + Header(f) + len /\ held'[f] = len /\ tail' = NoTail
              ELSE off' = off /\ held' = held /\ tail'.key = f
<1>1. PICK h \in {4, 5, 11, 12} : h = Header(f)
  BY DEF Header
<1>2. NoTail \in TailType
  BY DEF NoTail, TailType
<1>3. CASE h + len < PROV_IDENT_MAX - off
  <2>1. off' = off + h + len /\ held' = [held EXCEPT ![f] = len] /\ tail' = NoTail
    BY <1>1, <1>3 DEF Put
  <2>2. off' \in 0..(PROV_IDENT_MAX - 1)
    BY <1>3, <2>1, Sizes
  <2>3. held' \in HeldType /\ held'[f] = len /\ \A g \in Fields : g # f => held'[g] = held[g]
    BY <2>1 DEF HeldType
  <2> QED BY <1>1, <1>2, <1>3, <2>1, <2>2, <2>3
<1>4. CASE ~(h + len < PROV_IDENT_MAX - off)
  <2>1. /\ off' = off /\ held' = held
        /\ tail' = [key |-> f, len |-> PROV_IDENT_MAX - off - 1 - h]
    BY <1>1, <1>4 DEF Put
  <2>2. PROV_IDENT_MAX - off - 1 - h \in Int
    BY Sizes
  <2>3. tail' \in TailType /\ tail'.key = f
    BY <2>1, <2>2 DEF TailType
  <2> QED BY <1>1, <1>4, <2>1, <2>3
<1> QED BY <1>3, <1>4

(* What the scan has found is not changed by the rest of the hook. *)
LEMMA ScanKept ==
  ASSUME Scanned, pc # "idle", UNCHANGED <<close, pos, next, target>>
  PROVE  Scanned'
<1>1. Got' = Got
  BY DEF Got
<1>2. ASSUME NEW j, NEW t PROVE Hit(j, t)' <=> Hit(j, t)
  BY <1>1 DEF Hit, Matches, Visible
<1>3. ASSUME NEW t PROVE Chosen(t)' <=> Chosen(t)
  BY <1>1, <1>2 DEF Chosen, Visible
<1> QED BY <1>2, <1>3, Zenon DEF Scanned
(* A value that is visible and not empty is kept to at least one byte and  *)
(* at most its own length and the target's cap.                            *)
LEMMA CappedRange ==
  ASSUME NEW t, NEW v \in Nat, v >= 1
  PROVE  /\ Capped(t, v) \in 0..v
         /\ t = "envsig" => Capped(t, v) <= PROV_ENV_VAL_MAX
         /\ t # "envsig" => Capped(t, v) < PROV_FIELD_MAX
         /\ t # "envsig" /\ Capped(t, v) # v => Capped(t, v) = PROV_FIELD_MAX - 1
BY Sizes DEF Capped, LenMin

(* The entry in a target, its place, and how much of it can be seen. *)
LEMMA ChosenParts ==
  ASSUME close \in Closes, next \in 1..(Len(close.env) + 1),
         NEW t \in Targets, Chosen(t),
         NEW k, k = target[t].entry
  PROVE  /\ k \in 1..Len(close.env) /\ close.env[k] \in Entry
         /\ Offsets(close.env)[k] \in Nat
         /\ close.env[k].key \in TargetKeys[t]
         /\ Visible(close.env[k], Offsets(close.env)[k]) \in Nat
         /\ KeyLen[close.env[k].key] \in 5..18
         /\ Visible(close.env[k], Offsets(close.env)[k]) > KeyLen[close.env[k].key]
<1> DEFINE e == close.env[k]
           p == Offsets(close.env)[k]
<1>1. close.env \in Seq(Entry) /\ close.got \in Nat
  BY CloseParts
<1>2. PICK m \in Nat : m = Len(close.env)
  BY <1>1
<1>3. k \in 1..(next - 1) /\ Hit(k, t)
  BY DEF Chosen
<1>4. k \in 1..m
  BY <1>2, <1>3
<1>5. e \in Entry
  BY <1>1, <1>2, <1>4
<1>6. p \in Nat
  BY <1>1, <1>2, <1>4, OffsetsRecurrence
<1>7. Got \in Nat
  BY <1>1, Sizes DEF Got, LenMin
<1>8. p < Got /\ Matches(e, p, t)
  BY <1>3 DEF Hit
<1> HIDE DEF e, p
<1>9. EntryLen(e) \in Nat /\ KeyLen[e.key] \in 5..18
  BY <1>5, EntryLens
<1>10. Visible(e, p) \in Nat
  BY <1>6, <1>7, <1>8, <1>9 DEF Visible, LenMin
<1>11. e.key \in TargetKeys[t] /\ Visible(e, p) > KeyLen[e.key]
  BY <1>8 DEF Matches
<1> QED BY <1>2, <1>4, <1>5, <1>6, <1>9, <1>10, <1>11 DEF e, p

(* The env field takes at most the longest key and its capped value. *)
LEMMA EnvSigRange ==
  ASSUME close \in Closes, next \in 1..(Len(close.env) + 1), Chosen("envsig")
  PROVE  EnvSigLen \in 0..(18 + PROV_ENV_VAL_MAX)
<1> DEFINE k == target.envsig.entry
           e == close.env[k]
           v == Visible(e, Offsets(close.env)[k])
<1>1. "envsig" \in Targets
  BY DEF Targets, TargetKeys
<1>2. v \in Nat /\ KeyLen[e.key] \in 5..18 /\ v > KeyLen[e.key]
  BY <1>1, ChosenParts
<1>3. target.envsig.len = Capped("envsig", v - KeyLen[e.key])
  BY DEF Chosen
<1>4. EnvSigLen = KeyLen[e.key] + target.envsig.len
  BY DEF EnvSigLen
<1> HIDE DEF v, e, k
<1>5. PICK n \in 5..18 : n = KeyLen[e.key]
  BY <1>2
<1>6. v - n \in Nat /\ v - n >= 1
  BY <1>2, <1>5
<1>7. target.envsig.len \in Nat /\ target.envsig.len <= PROV_ENV_VAL_MAX
  BY <1>3, <1>5, <1>6, CappedRange
<1>8. PICK l \in 0..PROV_ENV_VAL_MAX : l = target.envsig.len
  BY <1>7, Sizes
<1>9. EnvSigLen = n + l
  BY <1>4, <1>5, <1>8
<1>10. PROV_ENV_VAL_MAX \in Nat
  BY Sizes
<1>11. n + l \in 0..(18 + PROV_ENV_VAL_MAX)
  BY <1>10
<1> QED BY <1>9, <1>11

(* One turn of the scan loop: the entries passed stay decided, and the new *)
(* one is taken by exactly the targets that have found nothing before it.  *)
LEMMA ScanStep ==
  ASSUME TypeOK, Placed, Scanned, ScanEntry
  PROVE  Scanned' /\ target' \in [Targets -> [entry : Nat, len : Nat]] /\ pos' \in Nat
<1> DEFINE e == close.env[next]
           at == Offsets(close.env)
           new(t) == [entry |-> next, len |-> Capped(t, Visible(e, pos) - KeyLen[e.key])]
<1>1. pc = "scan" /\ pc' = "scan" /\ close' = close /\ close \in Closes
  BY DEF ScanEntry, Placed
<1>2. close.env \in Seq(Entry) /\ close.got \in Nat
  BY <1>1, CloseParts
<1>3. PICK m \in Nat : m = Len(close.env)
  BY <1>2
<1>4. next \in 1..m /\ pos < Got /\ next' = next + 1
  BY <1>3 DEF ScanEntry, TypeOK
<1>5. e \in Entry
  BY <1>2, <1>3, <1>4
<1>6. EntryLen(e) \in Nat /\ KeyLen[e.key] \in 5..18
  BY <1>5, EntryLens
<1>7. pos \in Nat /\ pos = at[next] /\ Got \in Nat
  BY <1>1, <1>2, Sizes DEF Scanned, TypeOK, Got, LenMin
<1>8. pos' = at[next'] /\ pos' \in Nat
  <2>1. at[next + 1] = at[next] + EntryLen(e) + 1
    BY <1>2, <1>3, <1>4, OffsetsRecurrence
  <2>2. pos' = pos + EntryLen(e) + 1
    BY DEF ScanEntry
  <2> QED BY <1>4, <1>6, <1>7, <2>1, <2>2
<1>9. Got' = Got
  BY <1>1 DEF Got
<1>10. ASSUME NEW j, NEW t PROVE Hit(j, t)' <=> Hit(j, t)
  BY <1>1, <1>9 DEF Hit, Matches, Visible
<1>11. ASSUME NEW t PROVE Hit(next, t) <=> Matches(e, pos, t)
  BY <1>4, <1>7 DEF Hit
<1>12. Visible(e, pos) \in Nat
  BY <1>4, <1>6, <1>7 DEF Visible, LenMin
<1>13. ASSUME NEW t \in Targets
       PROVE  target'[t] = IF target[t] = Unfilled /\ Matches(e, pos, t)
                             THEN new(t) ELSE target[t]
  BY Zenon DEF ScanEntry
<1>14. ASSUME NEW t \in Targets, Matches(e, pos, t)
       PROVE  new(t) \in [entry : Nat, len : Nat]
  <2>1. PICK n \in 5..18 : n = KeyLen[e.key]
    BY <1>6
  <2>2. Visible(e, pos) > n
    BY <1>14, <2>1 DEF Matches
  <2>3. Visible(e, pos) - n \in Nat /\ Visible(e, pos) - n >= 1
    BY <1>12, <2>2
  <2>4. Capped(t, Visible(e, pos) - n) \in Nat
    BY <2>3, CappedRange
  <2> HIDE DEF e
  <2>5. next \in Nat
    BY <1>4
  <2> QED BY <2>1, <2>4, <2>5
<1>15. target' \in [Targets -> [entry : Nat, len : Nat]]
  <2>1. ASSUME NEW t \in Targets PROVE target'[t] \in [entry : Nat, len : Nat]
    <3>1. target[t] \in [entry : Nat, len : Nat]
      BY DEF TypeOK
    <3> HIDE DEF new, e
    <3> QED BY <1>13, <1>14, <3>1
  <2>2. target' = [t \in Targets |-> target'[t]]
    BY Zenon DEF ScanEntry
  <2> QED BY <2>1, <2>2
<1>16. ASSUME NEW t \in Targets
       PROVE  IF target'[t] = Unfilled
                THEN \A j \in 1..(next' - 1) : ~Hit(j, t)'
                ELSE Chosen(t)'
  <2>1. next' - 1 = next
    BY <1>4
  <2>2. CASE target[t] = Unfilled /\ Matches(e, pos, t)
    <3>1. target'[t] = new(t) /\ target'[t].entry = next
      BY <1>13, <2>2
    <3>2. target'[t] # Unfilled
      BY <1>4, <3>1 DEF Unfilled
    <3>3. \A j \in 1..(next - 1) : ~Hit(j, t)
      BY <1>1, <2>2 DEF Scanned
    <3>4. PICK k \in 1..m : k = next
      BY <1>4
    <3>5. Hit(k, t)'
      BY <1>10, <1>11, <2>2, <3>4
    <3>6. \A j \in 1..(k - 1) : ~Hit(j, t)'
      BY <1>10, <3>3, <3>4
    <3>7. PICK x : x = e
      OBVIOUS
    <3>8. PICK q : q = pos
      OBVIOUS
    <3>9. Visible(x, q)' = Visible(x, q)
      BY <1>9 DEF Visible
    <3>10. target'[t].len = Capped(t, Visible(x, q)' - KeyLen[x.key])
      BY <3>1, <3>7, <3>8, <3>9
    <3>11. close'.env[k] = x /\ Offsets(close'.env)[k] = q
      BY <1>1, <1>7, <3>4, <3>7, <3>8
    <3>12. k \in 1..(next' - 1) /\ target'[t].entry = k
      BY <1>4, <3>1, <3>4
    <3>13. Chosen(t)'
      BY <3>5, <3>6, <3>10, <3>11, <3>12 DEF Chosen
    <3> QED BY <3>2, <3>13
  <2>3. CASE target[t] = Unfilled /\ ~Matches(e, pos, t)
    <3>1. target'[t] = Unfilled
      BY <1>13, <2>3, Zenon
    <3>2. \A j \in 1..(next - 1) : ~Hit(j, t)
      BY <1>1, <2>3 DEF Scanned
    <3>3. ~Hit(next, t)
      BY <1>11, <2>3
    <3>4. \A j \in 1..next : ~Hit(j, t)
      <4> TAKE j \in 1..next
      <4>1. j \in 1..(next - 1) \/ j = next
        BY <1>4
      <4> QED BY <3>2, <3>3, <4>1, Zenon
    <3> QED BY <1>10, <2>1, <3>1, <3>4
  <2>4. CASE target[t] # Unfilled
    <3>1. target'[t] = target[t]
      BY <1>13, <2>4, Zenon
    <3>2. Chosen(t)
      BY <1>1, <2>4 DEF Scanned
    <3>3. PICK k : k = target[t].entry
      OBVIOUS
    <3>4. k \in 1..(next' - 1)
      BY <1>4, <3>2, <3>3 DEF Chosen
    <3>5. Chosen(t)'
      <4>1. Hit(k, t)' /\ \A j \in 1..(k - 1) : ~Hit(j, t)'
        BY <1>10, <3>2, <3>3 DEF Chosen
      <4>2. PICK x : x = close.env[k]
        OBVIOUS
      <4>3. PICK q : q = Offsets(close.env)[k]
        OBVIOUS
      <4>4. Visible(x, q)' = Visible(x, q)
        BY <1>9 DEF Visible
      <4>5. target[t].len = Capped(t, Visible(x, q)' - KeyLen[x.key])
        BY <3>2, <3>3, <4>2, <4>3, <4>4 DEF Chosen
      <4>6. close'.env[k] = x /\ Offsets(close'.env)[k] = q
        BY <1>1, <4>2, <4>3
      <4> QED BY <3>1, <3>3, <3>4, <4>1, <4>5, <4>6 DEF Chosen
    <3> QED BY <2>4, <3>1, <3>5
  <2> QED BY <2>2, <2>3, <2>4
<1>17. next' \in 1..(Len(close'.env) + 1)
  BY <1>1, <1>3, <1>4
<1>18. Scanned'
  BY <1>1, <1>8, <1>16, <1>17 DEF Scanned
<1> QED BY <1>8, <1>15, <1>18
-----------------------------------------------------------------------------
(* Nothing is queued before the value is rendered. *)
LEMMA NotYetQueued ==
  ASSUME Kept, pc # "enqueue", queued' = queued
  PROVE  Kept'
<1>1. queued.kind = "none"
  BY DEF Kept
<1> QED BY <1>1 DEF Kept, HasFallback

(* The initial state satisfies the invariant. *)
LEMMA SessionInit == Init => Inv
<1> SUFFICES ASSUME Init PROVE Inv
  OBVIOUS
<1> USE DEF Init
<1>1. TypeOK
  <2>1. [t \in Targets |-> Unfilled] \in [Targets -> [entry : Nat, len : Nat]]
    BY DEF Unfilled
  <2>2. NoTail \in [key : Fields \cup {"none"}, len : Int]
    BY DEF NoTail
  <2>3. [f \in Fields |-> Absent] \in [Fields -> Nat \cup {Absent}]
    OBVIOUS
  <2>4. NoValue \in [kind : {"none", "agentns", "fallback"},
                     held : [Fields -> Nat \cup {Absent}],
                     tail : [key : Fields \cup {"none"}, len : Int]]
    BY <2>2, <2>3 DEF NoValue
  <2>5. 0 \in 0..(PROV_CHAIN_MAX - 1) /\ 0 \in 0..(PROV_IDENT_MAX - 1)
    BY Sizes
  <2> QED BY <2>1, <2>2, <2>3, <2>4, <2>5 DEF TypeOK
<1>2. Placed /\ Scanned /\ Ended
  BY DEF Placed, Scanned, Ended
<1>3. Filled
  BY DEF Filled, AfterChain, AfterEnv
<1>4. Kept
  BY DEF Kept, HasFallback, NoValue
<1> QED BY <1>1, <1>2, <1>3, <1>4 DEF Inv

(* Until the first field is appended, a step that leaves the buffer and    *)
(* the queue alone keeps what is known of them.                            *)
LEMMA FilledKept ==
  ASSUME Filled, pc \notin AfterChain \cup {"enqueue"},
         pc' \notin AfterChain \cup {"enqueue"}, UNCHANGED <<off, held, tail>>
  PROVE  Filled'
BY DEF Filled, AfterChain, AfterEnv

(* The hook takes a close while its buffers are fresh; the invariant holds *)
(* again afterwards.                                                       *)
LEMMA ReleaseStep ==
  ASSUME Inv, NEW c \in Closes, Release(c)
  PROVE  Inv'
<1> USE DEF Inv
<1>1. pc = "idle" /\ pc' = "scan" /\ close' = c
  BY DEF Release
<1>2. TypeOK'
  BY <1>1 DEF TypeOK, Release
<1>3. Placed'
  BY <1>1 DEF Placed
<1>4. Scanned'
  <2>1. pos' = 0 /\ next' = 1 /\ \A t \in Targets : target'[t] = Unfilled
    BY <1>1 DEF Placed, Release
  <2>2. c.env \in Seq(Entry)
    BY CloseParts
  <2>3. Offsets(c.env)[1] = 0
    BY <2>2, OffsetsRecurrence
  <2>4. 1 \in 1..(Len(c.env) + 1)
    BY <2>2
  <2>5. 1..(1 - 1) = {}
    OBVIOUS
  <2> QED BY <1>1, <2>1, <2>3, <2>4, <2>5 DEF Scanned
<1>5. Ended' /\ Filled'
  BY <1>1, FilledKept DEF Ended, Release, AfterChain
<1>6. Kept'
  BY <1>1, NotYetQueued DEF Release
<1> QED BY <1>2, <1>3, <1>4, <1>5, <1>6

(* One entry of the environment is scanned; the invariant holds again      *)
(* afterwards.                                                             *)
LEMMA ScanEntryStep ==
  ASSUME Inv, ScanEntry
  PROVE  Inv'
<1> USE DEF Inv
<1>1. pc = "scan" /\ pc' = "scan" /\ close' = close
  BY DEF ScanEntry
<1>2. Scanned' /\ target' \in [Targets -> [entry : Nat, len : Nat]] /\ pos' \in Nat
  BY ScanStep
<1>3. next' \in Nat \ {0}
  BY DEF TypeOK, ScanEntry
<1>4. TypeOK'
  BY <1>1, <1>2, <1>3 DEF TypeOK, ScanEntry
<1>5. Placed' /\ Ended'
  BY <1>1 DEF Placed, Ended
<1>6. Filled'
  BY <1>1, FilledKept DEF ScanEntry, AfterChain
<1>7. Kept'
  BY <1>1, NotYetQueued DEF ScanEntry
<1> QED BY <1>2, <1>4, <1>5, <1>6, <1>7

(* The scan ends at the end of the environment or of the window; the       *)
(* invariant holds again afterwards.                                       *)
LEMMA ScanEndStep ==
  ASSUME Inv, ScanEnd
  PROVE  Inv'
<1> USE DEF Inv
<1>1. pc = "scan" /\ pc' \in {"agentns", "walk"}
  BY DEF ScanEnd
<1>2. TypeOK'
  BY <1>1 DEF TypeOK, ScanEnd
<1>3. Placed'
  BY <1>1 DEF Placed, ScanEnd
<1>4. Scanned'
  BY <1>1, ScanKept DEF ScanEnd
<1>5. Ended'
  BY <1>1 DEF Ended, ScanEnd, Got
<1>6. Filled'
  BY <1>1, FilledKept DEF ScanEnd, AfterChain
<1>7. Kept'
  BY <1>1, NotYetQueued DEF ScanEnd
<1> QED BY <1>2, <1>3, <1>4, <1>5, <1>6, <1>7

(* The agent name space is read, or there is none; the invariant holds     *)
(* again afterwards.                                                       *)
LEMMA AgentNsStep ==
  ASSUME Inv, AgentNsId \/ AgentNsIdFails
  PROVE  Inv'
<1> USE DEF Inv
<1>1. /\ pc = "agentns" /\ pc' \in {"enqueue", "walk"}
      /\ UNCHANGED <<close, pos, next, target, level, chain, off, held, tail>>
  BY DEF AgentNsId, AgentNsIdFails
<1>2. \/ pc' = "walk" /\ queued' = queued
      \/ pc' = "enqueue" /\ queued' = [NoValue EXCEPT !.kind = "agentns"]
  BY DEF AgentNsId, AgentNsIdFails
<1>3. Placed'
  BY <1>1 DEF Placed
<1>4. Scanned'
  BY <1>1, ScanKept
<1>5. Ended'
  BY <1>1 DEF Ended, Got
<1>6. CASE pc' = "walk" /\ queued' = queued
  <2>1. TypeOK'
    BY <1>1, <1>6 DEF TypeOK
  <2>2. Filled'
    BY <1>1, <1>6, FilledKept DEF AfterChain
  <2>3. Kept'
    BY <1>1, <1>6, NotYetQueued
  <2> QED BY <1>3, <1>4, <1>5, <2>1, <2>2, <2>3
<1>7. CASE pc' = "enqueue" /\ queued' = [NoValue EXCEPT !.kind = "agentns"]
  <2>1. queued'.kind = "agentns" /\ queued' = [kind |-> "agentns",
           held |-> [f \in Fields |-> Absent], tail |-> NoTail]
    BY <1>7 DEF NoValue
  <2>2. NoTail \in [key : Fields \cup {"none"}, len : Int]
    BY DEF NoTail
  <2>3. TypeOK'
    <3>1. [f \in Fields |-> Absent] \in [Fields -> Nat \cup {Absent}]
      OBVIOUS
    <3>2. queued' \in [kind : {"none", "agentns", "fallback"},
                       held : [Fields -> Nat \cup {Absent}],
                       tail : [key : Fields \cup {"none"}, len : Int]]
      BY <2>1, <2>2, <3>1
    <3> QED BY <1>1, <1>7, <3>2 DEF TypeOK
  <2>4. Filled'
    BY <1>7 DEF Filled, AfterChain, AfterEnv
  <2>5. Kept'
    BY <1>7, <2>1 DEF Kept, HasFallback
  <2> QED BY <1>3, <1>4, <1>5, <2>3, <2>4, <2>5
<1> QED BY <1>2, <1>6, <1>7
(* The walk to the ancestors takes one step; the invariant holds again     *)
(* afterwards.                                                             *)
LEMMA WalkStep ==
  ASSUME Inv, Walk
  PROVE  Inv'
<1> USE DEF Inv
<1>1. /\ pc = "walk" /\ pc' \in {"walk", "comm-chain"}
      /\ UNCHANGED <<close, pos, next, target, off, held, tail, queued>>
  BY DEF Walk
<1>2. level' \in Nat \ {0} /\ chain' \in 0..(PROV_CHAIN_MAX - 1)
  <2>1. CASE WalkGoesOn /\ ChainStep < PROV_CHAIN_MAX - chain
    <3>1. chain' = chain + ChainStep /\ level' = level + 1
      BY <2>1 DEF Walk
    <3>2. ChainStep \in Nat
      <4>1. close \in Closes
        BY <1>1 DEF Placed
      <4>2. close.ancestry \in Seq(Ancestor)
        BY <4>1, CloseParts
      <4>3. level \in 1..Len(close.ancestry)
        BY <2>1, <4>2 DEF WalkGoesOn, TypeOK
      <4>4. close.ancestry[level] \in Ancestor
        BY <4>2, <4>3
      <4>5. close.ancestry[level].len \in 1..15
        BY <4>4 DEF Ancestor
      <4> QED BY <4>5 DEF ChainStep
    <3>3. chain \in 0..(PROV_CHAIN_MAX - 1) /\ level \in Nat \ {0}
      BY DEF TypeOK
    <3> QED BY <2>1, <3>1, <3>2, <3>3, Sizes
  <2>2. CASE ~(WalkGoesOn /\ ChainStep < PROV_CHAIN_MAX - chain)
    BY <2>2 DEF Walk, TypeOK
  <2> QED BY <2>1, <2>2
<1>3. TypeOK'
  BY <1>1, <1>2 DEF TypeOK
<1>4. Placed'
  BY <1>1 DEF Placed
<1>5. Scanned'
  BY <1>1, ScanKept
<1>6. Ended'
  BY <1>1 DEF Ended, Got
<1>7. Filled'
  BY <1>1, FilledKept DEF AfterChain
<1>8. Kept'
  BY <1>1, NotYetQueued
<1> QED BY <1>3, <1>4, <1>5, <1>6, <1>7, <1>8

(* What the appending steps have in common: of the invariant, only what it *)
(* says of the buffer is left to show.                                     *)
LEMMA AppendFrame ==
  ASSUME Inv, pc \in AfterChain \cup {"comm-chain"}, pc' \in AfterChain,
         UNCHANGED <<close, pos, next, target, level, chain, queued>>,
         off' \in 0..(PROV_IDENT_MAX - 1), held' \in HeldType, tail' \in TailType
  PROVE  /\ TypeOK' /\ Placed' /\ Scanned' /\ Ended' /\ Kept'
         /\ EnvSigLen' = EnvSigLen /\ ChainEnd' = ChainEnd /\ EnvEnd' = EnvEnd
<1> USE DEF Inv, AfterChain
<1>1. TypeOK'
  BY DEF TypeOK, HeldType, TailType
<1>2. Placed'
  BY DEF Placed
<1>3. Scanned'
  BY ScanKept
<1>4. Ended'
  BY DEF Ended, Got
<1>5. Kept'
  BY NotYetQueued
<1>6. EnvSigLen' = EnvSigLen /\ ChainEnd' = ChainEnd
  BY DEF EnvSigLen, ChainEnd
<1>7. EnvEnd' = EnvEnd
  BY <1>6 DEF EnvEnd
<1> QED BY <1>1, <1>2, <1>3, <1>4, <1>5, <1>6, <1>7

(* Where the actor fields end, in numbers. *)
LEMMA ActorEnd ==
  ASSUME Inv, pc # "idle"
  PROVE  /\ ChainEnd \in 0..(10 + PROV_CHAIN_MAX)
         /\ target.envsig # Unfilled =>
              EnvSigLen \in 0..(18 + PROV_ENV_VAL_MAX)
         /\ EnvEnd \in 0..(33 + PROV_CHAIN_MAX + PROV_ENV_VAL_MAX)
<1> USE DEF Inv
<1>1. PICK a \in 0..(10 + PROV_CHAIN_MAX) : a = ChainEnd
  BY Sizes DEF TypeOK, ChainEnd
<1>2. ASSUME target.envsig # Unfilled
      PROVE  EnvSigLen \in 0..(18 + PROV_ENV_VAL_MAX)
  <2>1. "envsig" \in Targets
    BY DEF Targets, TargetKeys
  <2>2. Chosen("envsig") /\ next \in 1..(Len(close.env) + 1)
    BY <1>2, <2>1 DEF Scanned
  <2> QED BY <2>2, EnvSigRange DEF Placed
<1>3. EnvEnd \in 0..(33 + PROV_CHAIN_MAX + PROV_ENV_VAL_MAX)
  <2>1. CASE target.envsig = Unfilled
    BY <1>1, <2>1, Sizes DEF EnvEnd
  <2>2. CASE target.envsig # Unfilled
    <3>1. PICK b \in 0..(18 + PROV_ENV_VAL_MAX) : b = EnvSigLen
      BY <1>2, <2>2
    <3>2. EnvEnd = a + (IF a = 0 THEN 4 ELSE 5) + b
      BY <1>1, <2>2, <3>1 DEF EnvEnd
    <3> QED BY <3>2, Sizes
  <2> QED BY <2>1, <2>2
<1> QED BY <1>1, <1>2, <1>3
(* The chain of ancestors is appended to the value; the invariant holds    *)
(* again afterwards.                                                       *)
LEMMA PutChainStep ==
  ASSUME Inv, PutChain
  PROVE  Inv'
<1>1. /\ pc = "comm-chain" /\ pc' = "env"
      /\ UNCHANGED <<close, pos, next, target, level, chain, queued>>
  BY DEF PutChain
<1>2. off = 0 /\ held = [f \in Fields |-> Absent] /\ tail = NoTail
  BY <1>1 DEF Inv, Filled, AfterChain
<1>3. /\ off \in 0..(PROV_IDENT_MAX - 1) /\ held \in HeldType /\ tail \in TailType
      /\ chain \in 0..(PROV_CHAIN_MAX - 1)
  BY DEF Inv, TypeOK, HeldType, TailType
<1>4. /\ off' \in 0..(PROV_IDENT_MAX - 1) /\ held' \in HeldType /\ tail' = NoTail
      /\ off' = ChainEnd
      /\ held'["comm-chain"] = IF chain = 0 THEN Absent ELSE chain
      /\ \A g \in Fields : g # "comm-chain" => held'[g] = Absent
  <2>1. CASE chain = 0
    <3>1. UNCHANGED <<off, held, tail>>
      BY <1>3, <2>1 DEF PutChain
    <3> QED BY <1>2, <1>3, <2>1, <3>1 DEF ChainEnd, Fields
  <2>2. CASE chain # 0
    <3>1. chain \in Nat /\ Put("comm-chain", chain) /\ "comm-chain" \in Fields
      BY <1>3, <2>2, Sizes DEF PutChain, Fields
    <3>2. Header("comm-chain") = 11
      BY <1>2 DEF Header
    <3>3. 11 + chain < PROV_IDENT_MAX - off
      BY <1>2, <1>3, Sizes
    <3>4. /\ off' \in 0..(PROV_IDENT_MAX - 1) /\ held' \in HeldType
          /\ off' = off + 11 + chain /\ held'["comm-chain"] = chain
          /\ tail' = NoTail
          /\ \A g \in Fields : g # "comm-chain" => held'[g] = held[g]
      BY <1>3, <3>1, <3>2, <3>3, PutOutcome
    <3>5. off' = ChainEnd
      BY <1>2, <1>3, <2>2, <3>4 DEF ChainEnd
    <3> QED BY <1>2, <2>2, <3>4, <3>5
  <2> QED BY <2>1, <2>2
<1>5. NoTail \in TailType
  BY DEF NoTail, TailType
<1>6. /\ TypeOK' /\ Placed' /\ Scanned' /\ Ended' /\ Kept'
      /\ ChainEnd' = ChainEnd
  BY <1>1, <1>4, <1>5, AppendFrame DEF AfterChain
<1>7. Filled'
  BY <1>1, <1>4, <1>6 DEF Filled, AfterChain, AfterEnv, Fields
<1> QED BY <1>6, <1>7 DEF Inv

(* A target of the environment is appended to it; the invariant holds      *)
(* again afterwards.                                                       *)
LEMMA PutEnvStep ==
  ASSUME Inv, PutEnv
  PROVE  Inv'
<1>1. /\ pc = "env" /\ pc' = "cwd"
      /\ UNCHANGED <<close, pos, next, target, level, chain, queued>>
  BY DEF PutEnv
<1>2. /\ off = ChainEnd /\ tail = NoTail
      /\ held["comm-chain"] = IF chain = 0 THEN Absent ELSE chain
      /\ \A g \in Fields : g # "comm-chain" => held[g] = Absent
  BY <1>1 DEF Inv, Filled, AfterChain, Fields
<1>3. off \in 0..(PROV_IDENT_MAX - 1) /\ held \in HeldType
  BY DEF Inv, TypeOK, HeldType
<1>4. PICK a \in 0..(10 + PROV_CHAIN_MAX) : a = ChainEnd
  BY <1>1, ActorEnd
<1>5. /\ off' \in 0..(PROV_IDENT_MAX - 1) /\ held' \in HeldType /\ tail' = NoTail
      /\ off' = EnvEnd
      /\ held'["env"] = IF target.envsig = Unfilled THEN Absent ELSE EnvSigLen
      /\ \A g \in Fields : g # "env" => held'[g] = held[g]
  <2>1. CASE target.envsig = Unfilled
    BY <1>2, <1>3, <2>1 DEF PutEnv, EnvEnd, Fields
  <2>2. CASE target.envsig # Unfilled
    <3>1. PICK b \in 0..(18 + PROV_ENV_VAL_MAX) : b = EnvSigLen
      BY <1>1, <2>2, ActorEnd
    <3>2. b \in Nat /\ Put("env", b) /\ "env" \in Fields
      BY <2>2, <3>1, Sizes DEF PutEnv, Fields
    <3>3. Header("env") = IF a = 0 THEN 4 ELSE 5
      BY <1>2, <1>4 DEF Header
    <3>4. Header("env") + b < PROV_IDENT_MAX - off
      BY <1>2, <1>4, <3>3, Sizes
    <3>5. /\ off' \in 0..(PROV_IDENT_MAX - 1) /\ held' \in HeldType
          /\ off' = off + Header("env") + b /\ held'["env"] = b
          /\ tail' = NoTail
          /\ \A g \in Fields : g # "env" => held'[g] = held[g]
      BY <1>3, <3>2, <3>4, PutOutcome
    <3>6. off' = EnvEnd
      BY <1>2, <1>4, <2>2, <3>1, <3>3, <3>5 DEF EnvEnd
    <3> QED BY <2>2, <3>1, <3>5, <3>6
  <2> QED BY <2>1, <2>2
<1>6. NoTail \in TailType
  BY DEF NoTail, TailType
<1>7. /\ TypeOK' /\ Placed' /\ Scanned' /\ Ended' /\ Kept'
      /\ EnvSigLen' = EnvSigLen /\ EnvEnd' = EnvEnd
  BY <1>1, <1>5, <1>6, AppendFrame DEF AfterChain
<1>8. Filled'
  BY <1>1, <1>2, <1>5, <1>7 DEF Filled, AfterChain, AfterEnv, Fields
<1> QED BY <1>7, <1>8 DEF Inv

(* The working directory is appended, or could not be had; the invariant   *)
(* holds again afterwards.                                                 *)
LEMMA CwdStep ==
  ASSUME Inv, PutCwd \/ CwdFails
  PROVE  Inv'
<1>1. /\ pc = "cwd" /\ pc' = "pid"
      /\ UNCHANGED <<close, pos, next, target, level, chain, queued>>
  BY DEF PutCwd, CwdFails
<1>2. /\ off = EnvEnd /\ tail = NoTail
      /\ held["comm-chain"] = IF chain = 0 THEN Absent ELSE chain
      /\ held["env"] = IF target.envsig = Unfilled THEN Absent ELSE EnvSigLen
      /\ held["cwd"] = Absent /\ held["pid"] = Absent /\ held["uid"] = Absent
  BY <1>1 DEF Inv, Filled, AfterChain, AfterEnv
<1>3. /\ off \in 0..(PROV_IDENT_MAX - 1) /\ held \in HeldType /\ tail \in TailType
  BY DEF Inv, TypeOK, HeldType, TailType
<1>4. close.cwd \in Nat /\ "cwd" \in Fields
  BY <1>1, CloseParts DEF Inv, Placed, Fields
<1>5. /\ off' \in 0..(PROV_IDENT_MAX - 1) /\ held' \in HeldType /\ tail' \in TailType
      /\ tail'.key \in {"none", "cwd"}
      /\ held'["cwd"] = Absent => off' = EnvEnd
      /\ held'["cwd"] = Absent \/ (close.cwd > 0 /\ held'["cwd"] = close.cwd)
      /\ \A g \in Fields : g # "cwd" => held'[g] = held[g]
  <2>1. CASE close.cwd > 0 /\ Put("cwd", close.cwd)
    <3>1. close.cwd # Absent
      BY <1>4 DEF Absent
    <3> QED BY <1>2, <1>3, <1>4, <2>1, <3>1, PutOutcome DEF NoTail
  <2>2. CASE UNCHANGED <<off, held, tail>>
    BY <1>2, <1>3, <2>2 DEF NoTail
  <2>3. \/ close.cwd > 0 /\ Put("cwd", close.cwd)
        \/ UNCHANGED <<off, held, tail>>
    BY DEF PutCwd, CwdFails
  <2> QED BY <2>1, <2>2, <2>3
<1>6. /\ TypeOK' /\ Placed' /\ Scanned' /\ Ended' /\ Kept'
      /\ EnvSigLen' = EnvSigLen /\ EnvEnd' = EnvEnd
  BY <1>1, <1>5, AppendFrame DEF AfterChain
<1>7. Filled'
  BY <1>1, <1>2, <1>5, <1>6 DEF Filled, AfterChain, AfterEnv, Fields
<1> QED BY <1>6, <1>7 DEF Inv
(* The pid is appended where it fits; the invariant holds again            *)
(* afterwards.                                                             *)
LEMMA PutPidStep ==
  ASSUME Inv, PutPid
  PROVE  Inv'
<1>1. /\ pc = "pid" /\ pc' = "uid" /\ Put("pid", close.pid)
      /\ UNCHANGED <<close, pos, next, target, level, chain, queued>>
  BY DEF PutPid
<1>2. /\ held["comm-chain"] = IF chain = 0 THEN Absent ELSE chain
      /\ held["env"] = IF target.envsig = Unfilled THEN Absent ELSE EnvSigLen
      /\ held["cwd"] = Absent => off = EnvEnd
      /\ held["cwd"] = Absent \/ (close.cwd > 0 /\ held["cwd"] = close.cwd)
      /\ held["pid"] = Absent /\ held["uid"] = Absent
  BY <1>1 DEF Inv, Filled, AfterChain, AfterEnv
<1>3. off \in 0..(PROV_IDENT_MAX - 1) /\ held \in HeldType
  BY DEF Inv, TypeOK, HeldType
<1>4. close.pid \in 1..10 /\ close.pid \in Nat /\ "pid" \in Fields
  BY <1>1, CloseParts DEF Inv, Placed, Fields
<1>5. /\ off' \in 0..(PROV_IDENT_MAX - 1) /\ held' \in HeldType /\ tail' \in TailType
      /\ \A g \in Fields : g # "pid" => held'[g] = held[g]
      /\ tail'.key \in {"none", "pid"}
      /\ held'["pid"] \in {Absent, close.pid}
  BY <1>1, <1>2, <1>3, <1>4, PutOutcome DEF NoTail
<1>6. ASSUME held["cwd"] = Absent
      PROVE  off' <= EnvEnd + 15 /\ held'["pid"] = close.pid
  <2>1. PICK b \in 0..(33 + PROV_CHAIN_MAX + PROV_ENV_VAL_MAX) : b = EnvEnd
    BY <1>1, ActorEnd
  <2>2. off = b
    BY <1>2, <1>6, <2>1
  <2>3. Header("pid") \in {4, 5}
    BY DEF Header
  <2>4. Header("pid") + close.pid < PROV_IDENT_MAX - off
    BY <1>4, <2>2, <2>3, Sizes
  <2>5. off' = off + Header("pid") + close.pid /\ held'["pid"] = close.pid
    BY <1>1, <1>3, <1>4, <2>4, PutOutcome
  <2> QED BY <1>4, <2>1, <2>2, <2>3, <2>5, Sizes
<1>7. /\ TypeOK' /\ Placed' /\ Scanned' /\ Ended' /\ Kept'
      /\ EnvSigLen' = EnvSigLen /\ EnvEnd' = EnvEnd
  BY <1>1, <1>5, AppendFrame DEF AfterChain
<1>8. Filled'
  BY <1>1, <1>2, <1>5, <1>6, <1>7 DEF Filled, AfterChain, AfterEnv, Fields
<1> QED BY <1>7, <1>8 DEF Inv

(* The uid is appended, and cut where the buffer ends; the invariant holds *)
(* again afterwards.                                                       *)
LEMMA PutUidStep ==
  ASSUME Inv, PutUid
  PROVE  Inv'
<1>1. /\ pc = "uid" /\ pc' = "rendered" /\ Put("uid", close.uid)
      /\ UNCHANGED <<close, pos, next, target, level, chain, queued>>
  BY DEF PutUid
<1>2. /\ held["comm-chain"] = IF chain = 0 THEN Absent ELSE chain
      /\ held["env"] = IF target.envsig = Unfilled THEN Absent ELSE EnvSigLen
      /\ held["cwd"] = Absent => off <= EnvEnd + 15 /\ held["pid"] = close.pid
      /\ held["cwd"] = Absent \/ (close.cwd > 0 /\ held["cwd"] = close.cwd)
      /\ held["pid"] \in {Absent, close.pid}
  BY <1>1 DEF Inv, Filled, AfterChain, AfterEnv
<1>3. off \in 0..(PROV_IDENT_MAX - 1) /\ held \in HeldType
  BY DEF Inv, TypeOK, HeldType
<1>4. close.uid \in 1..10 /\ close.uid \in Nat /\ "uid" \in Fields
  BY <1>1, CloseParts DEF Inv, Placed, Fields
<1>5. /\ off' \in 0..(PROV_IDENT_MAX - 1) /\ held' \in HeldType /\ tail' \in TailType
      /\ \A g \in Fields : g # "uid" => held'[g] = held[g]
      /\ tail'.key \in {"none", "uid"}
  BY <1>1, <1>3, <1>4, PutOutcome DEF NoTail
<1>6. ASSUME held["cwd"] = Absent
      PROVE  tail' = NoTail /\ held'["uid"] = close.uid
  <2>1. PICK b \in 0..(33 + PROV_CHAIN_MAX + PROV_ENV_VAL_MAX) : b = EnvEnd
    BY <1>1, ActorEnd
  <2>2. off <= b + 15
    BY <1>2, <1>6, <2>1
  <2>3. Header("uid") \in {4, 5}
    BY DEF Header
  <2>4. Header("uid") + close.uid < PROV_IDENT_MAX - off
    BY <1>3, <1>4, <2>2, <2>3, Sizes
  <2> QED BY <1>1, <1>3, <1>4, <2>4, PutOutcome
<1>7. /\ TypeOK' /\ Placed' /\ Scanned' /\ Ended' /\ Kept'
      /\ EnvSigLen' = EnvSigLen
  BY <1>1, <1>5, AppendFrame DEF AfterChain
<1>8. Filled'
  BY <1>1, <1>2, <1>5, <1>6, <1>7 DEF Filled, AfterChain, AfterEnv, Fields
<1> QED BY <1>7, <1>8 DEF Inv

(* The value is taken as it is, or pid and uid for an empty one; the       *)
(* invariant holds again afterwards.                                       *)
LEMMA RenderedStep ==
  ASSUME Inv, Rendered
  PROVE  Inv'
<1>1. /\ pc = "rendered" /\ pc' = "enqueue"
      /\ UNCHANGED <<close, pos, next, target, level, chain, off, held, tail>>
  BY DEF Rendered
<1>2. PICK h : h = IF off = 0 /\ tail = NoTail
                     THEN [held EXCEPT !["pid"] = close.pid, !["uid"] = close.uid]
                     ELSE held
  OBVIOUS
<1>3. queued' = [kind |-> "fallback", tail |-> tail, held |-> h]
  BY <1>2 DEF Rendered
<1>4. close.pid \in 1..10 /\ close.uid \in 1..10
  BY <1>1, CloseParts DEF Inv, Placed
<1>5. held \in [Fields -> Nat \cup {Absent}] /\ tail \in TailType
  BY DEF Inv, TypeOK, TailType
<1>6. h \in [Fields -> Nat \cup {Absent}]
  <2>1. close.pid \in Nat \cup {Absent} /\ close.uid \in Nat \cup {Absent}
    BY <1>4
  <2>2. [held EXCEPT !["pid"] = close.pid, !["uid"] = close.uid]
          \in [Fields -> Nat \cup {Absent}]
    BY <1>5, <2>1, Zenon
  <2> QED BY <1>2, <1>5, <2>2
<1>7. /\ \A g \in Fields : g \notin {"pid", "uid"} => h[g] = held[g]
      /\ h["pid"] \in {held["pid"], close.pid}
      /\ h["uid"] \in {held["uid"], close.uid}
  BY <1>2, <1>5 DEF Fields
<1>8. /\ tail.key \in {"none", "uid"}
      /\ held["comm-chain"] = IF chain = 0 THEN Absent ELSE chain
      /\ held["env"] = IF target.envsig = Unfilled THEN Absent ELSE EnvSigLen
      /\ held["cwd"] = Absent \/ (close.cwd > 0 /\ held["cwd"] = close.cwd)
      /\ held["pid"] \in {Absent, close.pid}
      /\ held["cwd"] = Absent => /\ tail = NoTail /\ held["pid"] = close.pid
                                 /\ held["uid"] = close.uid
  BY <1>1 DEF Inv, Filled, AfterChain, AfterEnv
<1>9. TypeOK'
  <2>1. queued' \in [kind : {"none", "agentns", "fallback"},
                     held : [Fields -> Nat \cup {Absent}],
                     tail : [key : Fields \cup {"none"}, len : Int]]
    BY <1>3, <1>5, <1>6 DEF TailType
  <2> QED BY <1>1, <2>1 DEF Inv, TypeOK
<1>10. Placed' /\ Ended'
  BY <1>1 DEF Inv, Placed, Ended, Got
<1>11. Scanned'
  BY <1>1, ScanKept DEF Inv
<1>12. Filled'
  BY <1>1 DEF Filled, AfterChain, AfterEnv
<1>13. Kept'
  <2>1. EnvSigLen' = EnvSigLen
    BY <1>1 DEF EnvSigLen
  <2>2. queued'.held = h /\ queued'.tail = tail /\ queued'.kind = "fallback"
    BY <1>3
  <2>3. /\ h["comm-chain"] = held["comm-chain"] /\ h["env"] = held["env"]
        /\ h["cwd"] = held["cwd"]
    BY <1>7 DEF Fields
  <2> QED BY <1>1, <1>7, <1>8, <2>1, <2>2, <2>3 DEF Kept, NoTail
<1> QED BY <1>9, <1>10, <1>11, <1>12, <1>13 DEF Inv

(* The item is queued with the value and the hook returns; the invariant   *)
(* holds again afterwards.                                                 *)
LEMMA EnqueueStep ==
  ASSUME Inv, Enqueue
  PROVE  Inv'
<1>1. Init'
  BY DEF Enqueue, Init
<1>2. Init' => Inv'
  BY SessionInit, PTL
<1> QED BY <1>1, <1>2

(* Every step of the hook preserves the invariant. *)
LEMMA SessionStep == Inv /\ [Next]_vars => Inv'
<1> SUFFICES ASSUME Inv, [Next]_vars PROVE Inv'
  OBVIOUS
<1>1. CASE UNCHANGED vars
  <2> USE <1>1 DEF Inv, vars
  <2>1. TypeOK' /\ Placed' /\ Ended'
    BY DEF TypeOK, Placed, Ended, Got
  <2>2. Scanned'
    BY ScanKept DEF Scanned
  <2>3. EnvSigLen' = EnvSigLen /\ ChainEnd' = ChainEnd /\ EnvEnd' = EnvEnd
    BY DEF EnvSigLen, ChainEnd, EnvEnd
  <2>4. Filled'
    BY <2>3 DEF Filled, AfterChain, AfterEnv
  <2>5. Kept'
    BY <2>3 DEF Kept, HasFallback
  <2> QED BY <2>1, <2>2, <2>4, <2>5
<1> QED
  BY <1>1, ReleaseStep, ScanEntryStep, ScanEndStep, AgentNsStep, WalkStep,
     PutChainStep, PutEnvStep, CwdStep, PutPidStep, PutUidStep, RenderedStep,
     EnqueueStep, Zenon
     DEF Next
(* provfs_stamp() keeps every variable in its range for every release: in  *)
(* particular off stays below the size of the buffer, so that buflen - off *)
(* never wraps around in the size passed to snprintf().                    *)
THEOREM SessionTypeCorrect == Spec => []TypeOK
<1>1. Inv => TypeOK
  BY DEF Inv
<1> QED BY <1>1, SessionInit, SessionStep, PTL DEF Spec

(* provfs_scan_env() fills every target with its first match in block      *)
(* order, as if each were scanned for alone, for every environment.        *)
THEOREM TargetsCorrect == Spec => []TargetsAreFirstMatches
<1>1. Inv => TargetsAreFirstMatches
  <2> SUFFICES ASSUME Inv, pc \notin {"idle", "scan"}, next > 1, NEW t \in Targets
               PROVE  LET hits == {j \in 1..Len(close.env) : Hit(j, t)}
                      IN IF hits = {} THEN target[t] = Unfilled
                         ELSE /\ target[t].entry \in hits
                              /\ \A j \in hits : target[t].entry <= j
    <3>1. Inv /\ pc \notin {"idle", "scan"} => close # NULL
      BY SessionAssumption DEF Inv, Placed
    <3> QED BY <3>1, Zenon DEF TargetsAreFirstMatches, Hit
  <2> DEFINE hits == {j \in 1..Len(close.env) : Hit(j, t)}
  <2>1. close \in Closes /\ close.env \in Seq(Entry)
    BY CloseParts DEF Inv, Placed
  <2>2. PICK m \in Nat : m = Len(close.env)
    BY <2>1
  <2>3. next \in 1..(m + 1) /\ pos = Offsets(close.env)[next]
    BY <2>2 DEF Inv, Scanned
  <2>4. next > m \/ pos >= Got
    BY <2>2 DEF Inv, Ended
  <2>5. \A j \in hits : j \in 1..(next - 1)
    <3> SUFFICES ASSUME NEW j \in hits, ~(j \in 1..(next - 1)) PROVE FALSE
      OBVIOUS
    <3>1. j \in 1..m /\ j >= next /\ next <= m
      BY <2>2, <2>3
    <3>2. Offsets(close.env)[next] <= Offsets(close.env)[j]
      <4>1. next \in 1..(Len(close.env) + 1) /\ j \in 1..(Len(close.env) + 1)
        BY <2>2, <2>3, <3>1
      <4>2. next <= j
        BY <2>3, <3>1
      <4> QED BY <2>1, <4>1, <4>2, OffsetsMonotone
    <3>3. Offsets(close.env)[j] < Got
      BY DEF Hit
    <3>4. /\ Offsets(close.env)[next] \in Nat /\ Offsets(close.env)[j] \in Nat
          /\ Got \in Nat
      <4>1. Offsets(close.env) \in [1..(m + 1) -> Nat]
        BY <2>1, <2>2, OffsetsRecurrence
      <4>2. Got \in Nat
        BY <2>1, CloseParts, Sizes DEF Got, LenMin
      <4> QED BY <2>3, <3>1, <4>1, <4>2
    <3>5. pos >= Got
      BY <2>3, <2>4, <3>1
    <3> QED BY <2>3, <3>2, <3>3, <3>4, <3>5
  <2>6. CASE target[t] = Unfilled
    <3>1. \A j \in 1..(next - 1) : ~Hit(j, t)
      BY <2>6 DEF Inv, Scanned
    <3>2. hits = {}
      BY <2>5, <3>1
    <3> QED BY <2>6, <3>2
  <2>7. CASE target[t] # Unfilled
    <3>1. Chosen(t)
      BY <2>7 DEF Inv, Scanned
    <3>2. PICK k \in 1..m : k = target[t].entry
      BY <2>2, <2>3, <3>1 DEF Chosen
    <3>3. Hit(k, t) /\ \A j \in 1..(k - 1) : ~Hit(j, t)
      BY <3>1, <3>2 DEF Chosen
    <3>4. k \in hits
      BY <2>2, <3>2, <3>3
    <3>5. \A j \in hits : k <= j
      BY <2>2, <3>3
    <3> QED BY <3>2, <3>4, <3>5
  <2> QED BY <2>6, <2>7
<1> QED BY <1>1, SessionInit, SessionStep, PTL DEF Spec

(* A stored tool, turn or intent is a prefix of what was read, cut only at *)
(* the field's cap or where the scanned block ends.                        *)
THEOREM CutsCorrect == Spec => []CutAtCapOrWindow
<1>1. Inv => CutAtCapOrWindow
  <2> SUFFICES ASSUME Inv, NEW t \in Targets \ {"envsig"}, target[t] # Unfilled
               PROVE  LET e == close.env[target[t].entry]
                          n == target[t].len
                          last == Offsets(close.env)[target[t].entry]
                                    + KeyLen[e.key] + n
                      IN /\ n < PROV_FIELD_MAX /\ last <= Got
                         /\ n # e.len => n = PROV_FIELD_MAX - 1 \/ last = Got
    BY Zenon DEF CutAtCapOrWindow
  <2>1. pc # "idle"
    BY DEF Inv, Placed
  <2>2. close \in Closes /\ Chosen(t) /\ next \in 1..(Len(close.env) + 1)
    BY <2>1 DEF Inv, Placed, Scanned
  <2>3. PICK k : k = target[t].entry
    OBVIOUS
  <2>4. PICK e : e = close.env[k]
    OBVIOUS
  <2>5. PICK p : p = Offsets(close.env)[k]
    OBVIOUS
  <2>6. /\ e \in Entry /\ p \in Nat /\ Visible(e, p) \in Nat
        /\ KeyLen[e.key] \in 5..18 /\ Visible(e, p) > KeyLen[e.key]
    BY <2>2, <2>3, <2>4, <2>5, ChosenParts
  <2>7. target[t].len = Capped(t, Visible(e, p) - KeyLen[e.key])
    BY <2>2, <2>3, <2>4, <2>5 DEF Chosen
  <2>8. PICK l \in 5..18 : l = KeyLen[e.key]
    BY <2>6
  <2>9. PICK v \in Nat : v = e.len
    BY <2>6 DEF Entry
  <2>10. Got \in Nat
    BY <2>2, CloseParts, Sizes DEF Got, LenMin
  <2>11. PICK w \in Nat : w = Visible(e, p)
    BY <2>6
  <2>12. w > l /\ w <= Got - p /\ (w = Got - p \/ w = l + v)
    BY <2>6, <2>8, <2>9, <2>10, <2>11 DEF Visible, LenMin, EntryLen
  <2>13. PICK n : n = target[t].len
    OBVIOUS
  <2>14. /\ n \in 0..(w - l) /\ n < PROV_FIELD_MAX
         /\ n # w - l => n = PROV_FIELD_MAX - 1
    <3>1. n = Capped(t, w - l) /\ w - l \in Nat /\ w - l >= 1
      BY <2>7, <2>8, <2>11, <2>12, <2>13
    <3> QED BY <3>1, CappedRange
  <2>15. p + l + n <= Got
    BY <2>6, <2>10, <2>12, <2>14
  <2>16. n # v => n = PROV_FIELD_MAX - 1 \/ p + l + n = Got
    BY <2>6, <2>10, <2>12, <2>14
  <2> QED BY <2>3, <2>4, <2>5, <2>8, <2>9, <2>13, <2>14, <2>15, <2>16
<1> QED BY <1>1, SessionInit, SessionStep, PTL DEF Spec

(* lsm/README.md's promise, for every release: a chain that was walked and *)
(* an env signal that was found are stored and read back whole, or shown   *)
(* whole when there is no chain.                                           *)
THEOREM ActorSignalCorrect == Spec => []ActorSignalSurvives
<1>1. Inv => ActorSignalSurvives
  <2> SUFFICES ASSUME Inv, HasFallback PROVE ActorSignalSurvives
    BY DEF ActorSignalSurvives
  <2> DEFINE env == IF target.envsig = Unfilled THEN Absent ELSE EnvSigLen
             parsed == ParseEnriched(queued)
  <2>1. parsed["comm-chain"] = queued.held["comm-chain"] /\ parsed["env"] = queued.held["env"]
    BY DEF ParseEnriched, Inv, Kept, Fields
  <2>2. chain \in Nat /\ (chain > 0 => chain # Absent) /\ queued.kind = "fallback"
    BY Sizes DEF Inv, TypeOK, Absent, HasFallback
  <2>3. queued.held["comm-chain"] = (IF chain = 0 THEN Absent ELSE chain) /\ queued.held["env"] = env
    BY DEF Inv, Kept
  <2>4. CASE chain > 0
    <3>1. parsed["comm-chain"] = chain /\ Classify(queued) = "EnrichedFallback"
      BY <2>1, <2>2, <2>3, <2>4 DEF Classify
    <3>2. ReadBack(queued) = parsed
      BY <3>1 DEF ReadBack
    <3> QED BY <2>1, <2>3, <2>4, <3>1, <3>2 DEF ActorSignalSurvives
  <2>5. CASE chain = 0
    <3>1. Classify(queued) = "Opaque"
      BY <2>1, <2>2, <2>3, <2>5 DEF Classify
    <3> QED BY <2>3, <2>5, <3>1 DEF ActorSignalSurvives
  <2> QED BY <2>2, <2>4, <2>5
<1> QED BY <1>1, SessionInit, SessionStep, PTL DEF Spec

(* The value never holds part of a chain, env, cwd or pid, however long    *)
(* the fields are: the truncated tail can only be that of the uid.         *)
THEOREM OnlyUidCut == Spec => []OnlyUidMayBeCut
<1>1. Inv => OnlyUidMayBeCut
  BY DEF OnlyUidMayBeCut, Inv, Kept
<1> QED BY <1>1, SessionInit, SessionStep, PTL DEF Spec

(* Without a whole cwd in the value there is always room for pid and uid.  *)
THEOREM OnlyCwdSqueezes == Spec => []OnlyCwdSqueezesPidUid
<1>1. Inv => OnlyCwdSqueezesPidUid
  <2> SUFFICES ASSUME Inv, HasFallback PROVE OnlyCwdSqueezesPidUid
    BY DEF OnlyCwdSqueezesPidUid
  <2>1. CASE queued.held["cwd"] = Absent
    <3>1. queued.held["pid"] = close.pid /\ queued.held["uid"] = close.uid
      BY <2>1 DEF Inv, Kept
    <3>2. close.pid # Absent /\ close.uid # Absent
      <4>1. close \in Closes
        BY DEF Inv, Kept, HasFallback, Placed
      <4> QED BY <4>1, CloseParts DEF Absent
    <3> QED BY <3>1, <3>2 DEF OnlyCwdSqueezesPidUid
  <2>2. CASE queued.held["cwd"] # Absent
    BY <2>2 DEF OnlyCwdSqueezesPidUid, Inv, Kept
  <2> QED BY <2>1, <2>2
<1> QED BY <1>1, SessionInit, SessionStep, PTL DEF Spec
=============================================================================
