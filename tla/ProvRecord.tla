----------------------------- MODULE ProvRecord -----------------------------
(***************************************************************************)
(* The record of one path, key by key: the overlay's stamp()               *)
(* (src/xattrs.rs), the items of the LSM's queue (lsm/provfs_work.c) and   *)
(* the prov reader (src/reader.rs, src/bin/prov.rs) at work on it at once. *)
(*                                                                         *)
(* stamp() and prov go by path, so each of their steps acts on the file    *)
(* that is at the path then; an LSM item keeps the dentry of the file that *)
(* was closed.  The overlay's session thread runs one stamp at a time; the *)
(* items run on any number of kworkers.                                    *)
(*                                                                         *)
(* Stamps are numbered in the order they begin, and the value of a key is  *)
(* the number of the stamp it was rendered for.  The history and sessions  *)
(* are sequences of parts, as in module History; sessions have no blanks   *)
(* around them.                                                            *)
(***************************************************************************)
EXTENDS Integers, Sequences, FiniteSets, History

CONSTANTS
  Callers,      \* processes that change files through the overlay
  Daemon,       \* the overlay daemon, as the LSM sees it
  Session,      \* the session of each caller, as its comma-separated parts
  Env,          \* the optional keys each identity's environment sets
  Lsm,          \* whether the kernel has the LSM
  MAX_HISTORY,  \* length of the history ring (5)
  MaxStamps,    \* bound: stamps begun
  MaxObj,       \* bound: files ever at the path
  MaxFaults,    \* bound: faults
  None, Error   \* no value; an error other than a missing attribute

Keys == {"session", "tool", "turn", "intent", "ts"}
AllKeys == Keys \cup {"history"}
Objs == 1..MaxObj
Ids == Callers \cup {Daemon}
Parts == UNION {{Session[c][i] : i \in DOMAIN Session[c]} : c \in Callers}

ASSUME RecordAssumption ==
  /\ Daemon \notin Callers
  /\ \A c \in Callers : Session[c] \in Seq(Parts)
  /\ Env \in [Ids -> SUBSET {"tool", "turn", "intent"}]
  /\ Lsm \in BOOLEAN
  /\ {MAX_HISTORY, MaxStamps, MaxObj} \subseteq Nat \ {0}
  /\ MaxFaults \in Nat
  /\ None \notin 1..MaxStamps /\ None \notin Seq(Parts) /\ None # "set"
  /\ Error \notin 1..MaxStamps /\ Error \notin Seq(Parts) /\ Error \notin {None, "set"}
  /\ \A S \in SUBSET AllKeys : None # S

VARIABLES
  cur,     \* the file at the path, 0 when there is none
  made,    \* files made so far
  access,  \* what extended attributes of the file a caller of prov gets at
  key,     \* user.prov.* of each file, without the history
  hist,    \* user.prov.history of each file
  stamp,   \* the stamps begun, see StampType
  prior,   \* the history the running stamp() has read
  rd,      \* the read_record() of one prov process
  faults,  \* stamper's xattr calls that failed, and changes of the file
  \* History variables, read by the properties only.
  log,       \* the stamps that wrote the history of each file, in order
  disturbed, \* files whose history does not continue their own
  start      \* keys there when the read began, None once the file changed

vars == <<cur, made, access, key, hist, stamp, prior, rd, faults, log, disturbed, start>>
file == <<cur, made, access>>
ghosts == <<log, disturbed>>
reader == <<rd, start>>

StampType ==
  [id : Ids, by : {"overlay", "lsm"},
   obj : 0..MaxObj,               \* the item's dentry; for the overlay, the
                                  \* file at the path when the stamp began
   at : 1..7, ended : BOOLEAN,
   after : SUBSET (1..MaxStamps)] \* the stamps that ended before it began

Nothing == [k \in AllKeys |-> None]

Init ==
  /\ cur \in 0..1 /\ made = 1
  /\ access \in {"full", "denied", "unsupported"}
  /\ key = [o \in Objs |-> [k \in Keys |-> None]]
  /\ hist = [o \in Objs |-> None]
  /\ stamp = <<>> /\ prior = <<>> /\ faults = 0
  /\ rd = [at |-> 0, seen |-> Nothing, status |-> "idle", log |-> <<>>]
  /\ log = [o \in Objs |-> <<>>] /\ disturbed = {}
  /\ start = {}

-----------------------------------------------------------------------------
(* Stamps *)

(* The keys of stamp s in the order they are written. *)
WriteOrder(s) ==
  LET Opt(k) == IF k \in Env[s.id] THEN <<k>> ELSE <<>>
  IN IF s.by = "overlay"
       THEN <<"session", "tool">> \o Opt("turn") \o Opt("intent") \o <<"ts">>
       ELSE <<"session", "ts">> \o Opt("tool") \o Opt("turn") \o Opt("intent")

Begun(id, by, o) ==
  [id |-> id, by |-> by, obj |-> o, at |-> 1, ended |-> FALSE,
   after |-> {n \in DOMAIN stamp : stamp[n].ended}]

OverlayIdle == \A n \in DOMAIN stamp : stamp[n].by = "overlay" => stamp[n].ended

(* maybe_stamp() of a handler for caller c begins.  If the handler is the  *)
(* release() of a writable descriptor of file o, it has closed it before,  *)
(* which has run the LSM's hook; o is 0 for the others.                    *)
Handle(c, o) ==
  /\ OverlayIdle
  /\ stamp' = stamp
       \o (IF Lsm /\ o # 0 THEN <<Begun(Daemon, "lsm", o)>> ELSE <<>>)
       \o <<Begun(c, "overlay", cur)>>
  /\ Len(stamp') <= MaxStamps
  /\ UNCHANGED <<file, key, hist, prior, faults, ghosts, reader>>

(* A release() of a writable descriptor of file o that does not stamp,     *)
(* because another release, which did, has taken the mark its open() set,  *)
(* or because the file was unlinked and its number has no path any more.   *)
(* The LSM's hook runs all the same.  (The path is not on the skip list.)  *)
Close(o) ==
  /\ Lsm /\ OverlayIdle /\ Len(stamp) < MaxStamps
  /\ o # cur \/ \E n \in DOMAIN stamp : stamp[n].by = "overlay"
  /\ stamp' = Append(stamp, Begun(Daemon, "lsm", o))
  /\ UNCHANGED <<file, key, hist, prior, faults, ghosts, reader>>

(* The file a step of stamp s writes, 0 when there is none at the path. *)
Target(s) == IF s.by = "overlay" THEN cur ELSE s.obj

AtKey(s) == ~s.ended /\ s.at <= Len(WriteOrder(s))

(* s when it has written or failed to write one more key.  An item ends    *)
(* with its last key; stamp() goes on with the history.                    *)
Advanced(s) ==
  [s EXCEPT !.at = @ + 1, !.ended = s.by = "lsm" /\ s.at = Len(WriteOrder(s))]

MutWriteKeyIfAbsent(n) ==
  LET s == stamp[n]
      k == WriteOrder(s)[s.at]
      o == Target(s)
  IN /\ AtKey(s) /\ o # 0 /\ access # "unsupported"
     /\ key' = IF key[o][k] = None THEN [key EXCEPT ![o][k] = n] ELSE key
     /\ stamp' = [stamp EXCEPT ![n] = Advanced(s)]
     /\ UNCHANGED <<file, hist, prior, faults, ghosts, reader>>

WriteKey(n) ==
  LET s == stamp[n]
      k == WriteOrder(s)[s.at]
      o == Target(s)
  IN /\ AtKey(s) /\ o # 0 /\ access # "unsupported"
     /\ key' = [key EXCEPT ![o][k] = n]
     /\ stamp' = [stamp EXCEPT ![n] = Advanced(s)]
     /\ UNCHANGED <<file, hist, prior, faults, ghosts, reader>>

(* An xattr call on file o fails: it must when there is no such file. *)
Fails(o) ==
  \/ (o = 0 \/ access = "unsupported") /\ UNCHANGED faults
  \/ /\ o # 0 /\ access # "unsupported" /\ faults < MaxFaults
     /\ faults' = faults + 1

(* stamp() returns at its first failure, an item goes on to its next key. *)
WriteKeyFails(n) ==
  LET s == stamp[n]
  IN /\ AtKey(s) /\ Fails(Target(s))
     /\ stamp' = [stamp EXCEPT ![n] = IF s.by = "lsm" THEN Advanced(s)
                                        ELSE [s EXCEPT !.ended = TRUE]]
     /\ UNCHANGED <<file, key, hist, prior, ghosts, reader>>

(* read_str() of the history; an error is an empty history. *)
ReadHistory(n) ==
  LET s == stamp[n]
      found == cur # 0 /\ access # "unsupported" /\ hist[cur] # None
  IN /\ ~s.ended /\ s.by = "overlay" /\ s.at = Len(WriteOrder(s)) + 1
     /\ \/ found /\ prior' = hist[cur] /\ UNCHANGED faults
        \/ ~found /\ prior' = <<>> /\ UNCHANGED faults
        \/ found /\ Fails(cur) /\ prior' = <<>>
     /\ stamp' = [stamp EXCEPT ![n].at = @ + 1]
     /\ UNCHANGED <<file, key, hist, ghosts, reader>>

WriteHistory(n) ==
  LET s == stamp[n]
      own == IF hist[cur] = None THEN <<>> ELSE hist[cur]
  IN /\ ~s.ended /\ s.by = "overlay" /\ s.at = Len(WriteOrder(s)) + 2
     /\ cur # 0 /\ access # "unsupported"
     /\ hist' = [hist EXCEPT ![cur] = PushHistory(prior, Session[s.id], MAX_HISTORY)]
     /\ stamp' = [stamp EXCEPT ![n].ended = TRUE]
     /\ prior' = <<>>
     /\ log' = [log EXCEPT ![cur] = Append(@, n)]
     /\ disturbed' = IF prior = own THEN disturbed ELSE disturbed \cup {cur}
     /\ UNCHANGED <<file, key, faults, reader>>

WriteHistoryFails(n) ==
  LET s == stamp[n]
  IN /\ ~s.ended /\ s.by = "overlay" /\ s.at = Len(WriteOrder(s)) + 2
     /\ Fails(cur)
     /\ stamp' = [stamp EXCEPT ![n].ended = TRUE]
     /\ prior' = <<>>
     /\ UNCHANGED <<file, key, hist, ghosts, reader>>

-----------------------------------------------------------------------------
(* prov show, who, when and chain *)

MutReadOrder == <<"history", "session", "tool", "turn", "intent", "ts">>

ReadOrder == <<"session", "tool", "turn", "intent", "ts", "history">>

(* The value of a key as far as it is followed: of tool, turn, intent and  *)
(* ts only whether they are there.                                         *)
Value(o, k) ==
  CASE k = "history" -> hist[o]
    [] k = "session" -> key[o][k]
    [] OTHER -> IF key[o][k] = None THEN None ELSE "set"

MutGetKey(k) ==
  IF cur = 0 \/ access # "full" THEN Error ELSE Value(cur, k)

(* get_key(): no such attribute and no attributes at all are both None. *)
GetKey(k) ==
  IF cur = 0 \/ access = "denied" THEN Error
  ELSE IF access = "unsupported" THEN None
  ELSE Value(cur, k)

Present == IF cur = 0 THEN {} ELSE {k \in AllKeys : Value(cur, k) # None}

(* read_record() first looks whether the path is there. *)
ReadBegins ==
  /\ rd.status = "idle"
  /\ rd' = [at |-> IF cur = 0 THEN 0 ELSE 1, seen |-> Nothing, log |-> <<>>,
            status |-> IF cur = 0 THEN "failed" ELSE "reading"]
  /\ start' = IF cur = 0 THEN None ELSE Present
  /\ UNCHANGED <<file, key, hist, stamp, prior, faults, ghosts>>

ReadKey ==
  LET k == ReadOrder[rd.at]
      last == rd.at = Len(ReadOrder)
  IN /\ rd.at # 0
     /\ rd' = IF GetKey(k) = Error
                THEN [rd EXCEPT !.at = 0, !.status = "failed", !.seen = Nothing]
                ELSE [rd EXCEPT !.at = IF last THEN 0 ELSE @ + 1,
                                !.status = IF last THEN "done" ELSE @,
                                !.seen[k] = GetKey(k),
                                !.log = IF last THEN log[cur] ELSE @]
     /\ UNCHANGED <<file, key, hist, stamp, prior, faults, ghosts, start>>

(* prov has printed its answer; it may be run again. *)
ProvExits ==
  /\ rd.status \in {"done", "failed"}
  /\ rd' = [at |-> 0, seen |-> Nothing, log |-> <<>>, status |-> "idle"]
  /\ start' = {}
  /\ UNCHANGED <<file, key, hist, stamp, prior, faults, ghosts>>

MutIsEmpty(r) == \A k \in {"session", "tool", "turn", "intent"} : r[k] = None

IsEmpty(r) == \A k \in DOMAIN r : r[k] = None

Take(s, n) == SubSeq(s, 1, IF Len(s) < n THEN Len(s) ELSE n)

(* parse_history() *)
ParseHistory(text) == Take(text, MAX_HISTORY)

(* Whether a subcommand says "no provenance" of record r. *)
NoProvenance(cmd, r) ==
  CASE cmd = "show" -> IsEmpty(r)
    [] cmd = "who" -> r["session"] = None
    [] cmd = "when" -> r["ts"] = None
    [] cmd = "chain" -> r["history"] = None \/ ParseHistory(r["history"]) = <<>>

-----------------------------------------------------------------------------
(* Others at work in the backing directory *)

(* start while the file at the path changes *)
Changed == IF rd.at # 0 THEN None ELSE start

(* A file is made at the path, or renamed over the one there. *)
Replace ==
  /\ made < MaxObj /\ faults < MaxFaults
  /\ made' = made + 1 /\ cur' = made + 1 /\ faults' = faults + 1
  /\ start' = Changed
  /\ UNCHANGED <<access, key, hist, stamp, prior, rd, ghosts>>

Remove ==
  /\ cur # 0 /\ faults < MaxFaults
  /\ cur' = 0 /\ faults' = faults + 1
  /\ start' = Changed
  /\ UNCHANGED <<made, access, key, hist, stamp, prior, rd, ghosts>>

-----------------------------------------------------------------------------
Next ==
  \/ \E c \in Callers, o \in 0..made : Handle(c, o)
  \/ \E o \in 1..made : Close(o)
  \/ \E n \in DOMAIN stamp :
       \/ WriteKey(n) \/ WriteKeyFails(n)
       \/ ReadHistory(n) \/ WriteHistory(n) \/ WriteHistoryFails(n)
  \/ ReadBegins \/ ReadKey \/ ProvExits
  \/ Replace \/ Remove

Spec == Init /\ [][Next]_vars

-----------------------------------------------------------------------------
(* Properties *)

(* Every variable stays in its range; the text of the history stays within *)
(* one whole session and MAX_HISTORY - 1 parts.                            *)
TypeOK ==
  /\ cur \in 0..made /\ made \in Objs
  /\ access \in {"full", "denied", "unsupported"}
  /\ key \in [Objs -> [Keys -> (1..MaxStamps) \cup {None}]]
  /\ \A o \in Objs : hist[o] # None =>
       /\ hist[o] \in Seq(Parts)
       /\ \E c \in Callers : Len(hist[o]) < MAX_HISTORY + Len(Session[c])
  /\ Len(stamp) <= MaxStamps
  /\ \A n \in DOMAIN stamp : stamp[n] \in StampType
  /\ prior \in Seq(Parts)
  /\ log \in [Objs -> Seq(1..MaxStamps)]
  /\ rd.at \in 0..6 /\ rd.status \in {"idle", "reading", "done", "failed"}

(* Stamp n has gone through on its file: stamp() has written the history   *)
(* of the file that was at the path when it began, an item has ended and   *)
(* nothing has failed.                                                     *)
Settled(n) ==
  LET s == stamp[n]
  IN IF s.by = "overlay"
       THEN s.obj # 0 /\ \E i \in DOMAIN log[s.obj] : log[s.obj][i] = n
       ELSE s.ended /\ faults = 0 /\ access # "unsupported"

(* Nothing older stands over a finished stamp: once a stamp has gone       *)
(* through, each key it writes is there, and its value is not of a stamp   *)
(* that had ended when it began, whatever overlaps it, begins after it or  *)
(* fails later and whether or not the file stays.  The overlay's calls     *)
(* follow one another, so no earlier caller's value stands after a later   *)
(* call that writes the key; but an optional key the later call does not   *)
(* write is the earlier caller's still, and the daemon's items may stand   *)
(* over the caller, whether they were pending in its call or were queued   *)
(* by the close of another descriptor after it.                            *)
OlderNeverStands ==
  \A n \in DOMAIN stamp : Settled(n) =>
    \A i \in DOMAIN WriteOrder(stamp[n]) :
      LET v == key[stamp[n].obj][WriteOrder(stamp[n])[i]]
      IN v # None /\ v \notin stamp[n].after

Plain(c) == Len(Session[c]) = 1

(* The session of the i-th write of log l. *)
Writer(l, i) == Session[stamp[l[i]].id]

(* Session a has written log l after the last write of session b. *)
Later(l, a, b) ==
  \E i \in DOMAIN l : Writer(l, i) = <<a>> /\ \A j \in i..Len(l) : Writer(l, j) # <<b>>

(* README.md on the history, "most-recent first": no stamp() overwrites a  *)
(* history other than the one it has read unless a call failed or the file *)
(* was replaced; and as long as none did and sessions have no commas, the  *)
(* ring holds sessions that wrote it, those that wrote later first, and    *)
(* one is missing only if the ring is full of later ones, however the LSM  *)
(* and other stamps ran in between.                                        *)
HistoryIsMostRecent ==
  /\ faults = 0 => disturbed = {}
  /\ \A o \in Objs \ disturbed :
       LET l == log[o]
           h == hist[o]
       IN l # <<>> /\ (\A i \in DOMAIN l : Plain(stamp[l[i]].id)) =>
            /\ h # None /\ Len(h) <= MAX_HISTORY
            /\ \A i \in DOMAIN h :
                 /\ \E k \in DOMAIN l : Writer(l, k) = <<h[i]>>
                 /\ \A j \in DOMAIN h : i < j => Later(l, h[i], h[j])
            /\ \A k \in DOMAIN l :
                 \/ \E i \in DOMAIN h : Writer(l, k) = <<h[i]>>
                 \/ /\ Len(h) = MAX_HISTORY
                    /\ \A i \in DOMAIN h : Later(l, h[i], Writer(l, k)[1])

(* README.md: an unstamped file is no error, "a path that doesn't exist,   *)
(* or a real permission error" is: prov fails if the attributes may not be *)
(* read, and otherwise only if the file vanished or changed under it; a    *)
(* file system without extended attributes is not an error.                *)
ExitCodeHonest ==
  /\ rd.status = "failed" => access = "denied" \/ start = None
  /\ rd.status = "done" => access # "denied"

(* prov overlooks no evidence: if the file had a key when prov began and   *)
(* stays at the path, show does not say "no provenance", nor do who, when  *)
(* and chain of the key they are about, whatever stamps run meanwhile; for *)
(* chain, if no session is empty.                                          *)
EvidenceNotMissed ==
  rd.status = "done" /\ access = "full" /\ start # None =>
    /\ start # {} => ~NoProvenance("show", rd.seen)
    /\ "session" \in start => ~NoProvenance("who", rd.seen)
    /\ "ts" \in start => ~NoProvenance("when", rd.seen)
    /\ "history" \in start /\ (\A c \in Callers : Session[c] # <<>>)
         => ~NoProvenance("chain", rd.seen)

(* prov reads the session first and the history last, the order stamp()    *)
(* writes them in.  So if the stamp whose session it shows has written the *)
(* history by the end of the read, the history shown names that session,   *)
(* unless MAX_HISTORY stamps have written it since.                        *)
WhoIsInChain ==
  LET n == rd.seen["session"]
      l == rd.log
  IN rd.status = "done" /\ start # None /\ disturbed = {} =>
       \A i \in DOMAIN l :
         /\ l[i] = n
         /\ Len(l) - i < MAX_HISTORY
         /\ \A j \in i..Len(l) : Plain(stamp[l[j]].id)
         => /\ rd.seen["history"] # None
            /\ \E j \in DOMAIN ParseHistory(rd.seen["history"]) :
                 rd.seen["history"][j] = Session[stamp[n].id][1]

(* README.md: the history is a "CSV of up to 5 most-recent session ids":   *)
(* every entry prov chain shows is the session of a caller.                *)
ChainNamesSessions ==
  \A o \in Objs : hist[o] # None =>
    \A i \in DOMAIN ParseHistory(hist[o]) :
      \E c \in Callers : Session[c] = <<hist[o][i]>>
=============================================================================
