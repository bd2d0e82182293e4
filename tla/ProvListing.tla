---------------------------- MODULE ProvListing ----------------------------
(***************************************************************************)
(* Listing a directory through the overlay (readdir() of src/fs.rs).  The  *)
(* kernel fetches a large listing page by page, and the overlay reads the  *)
(* backing directory anew for every page: the offset that joins the pages  *)
(* is an index into a list that others change between two of them.  (The   *)
(* inode numbers readdir() interns are in module ProvFs.)                  *)
(*                                                                         *)
(* The backing file system lists its entries in an order that does not     *)
(* depend on which of them exist: names are the numbers 1..N in that order.*)
(***************************************************************************)
EXTENDS Integers, FiniteSets

CONSTANTS
  N,         \* names the directory may hold
  PageMax,   \* most entries a reply holds; long names leave room for fewer
  MaxCreated, MaxRemoved  \* bounds: entries created, removed while listing

Names == 1..N
Dot == 0
DotDot == -1
ListedMax == MaxCreated + 2  \* bound: listings of one name that are counted

ASSUME ListingAssumption ==
  {N, PageMax} \subseteq Nat \ {0} /\ {MaxCreated, MaxRemoved} \subseteq Nat

VARIABLES
  present,  \* the entries of the backing directory
  offset,   \* where the next page begins
  listed,   \* how often the lister has been given each name
  done,     \* the lister has been given an empty page
  \* History variables, read by the properties only.
  cut,               \* the last read of the directory failed on the way
  stayed,            \* entries there since the listing began
  created, removed   \* changes while the listing goes on

vars == <<present, offset, listed, done, cut, stayed, created, removed>>

Init ==
  /\ present \in SUBSET Names
  /\ offset = 0
  /\ listed = [n \in Names \cup {Dot, DotDot} |-> 0]
  /\ done = FALSE /\ cut = FALSE
  /\ stayed = present /\ created = 0 /\ removed = 0

(* all, the list readdir() builds: "." and "..", then the backing entries  *)
(* in their order.  Index(n) is the place of n in it, counted from 0.      *)
All == {Dot, DotDot} \cup present
AllLen == 2 + Cardinality(present)
Place(S, n) == 2 + Cardinality({m \in S : m < n})
Index(n) ==
  IF n = Dot THEN 0 ELSE IF n = DotDot THEN 1 ELSE Place(present, n)

MutNextOffStays(i) == i

MutNextOffBeyond(i) == i + 2

(* The offset the reply gives the entry with index i, counted from 0. *)
NextOff(i) == i + 1

(* One readdir() request: the entries after the offset, as many as fit, of *)
(* the len entries that were read.  The iterator of std::fs ends at its    *)
(* first error and flatten() drops the error, so a read that fails on the  *)
(* way leaves a shorter list (the two entries readdir() puts first are     *)
(* always there) and the reply is as good as any.  The kernel asks for the *)
(* next page at the offset of the last entry, and takes an empty page for  *)
(* the end.  A read_dir() that fails at once is an error to the lister.    *)
Readdir(room, len) ==
  LET end == IF offset + room < len THEN offset + room ELSE len
      page == {n \in All : Index(n) \in offset..(end - 1)}
  IN /\ ~done
     /\ listed' = [n \in DOMAIN listed |->
          IF n \in page /\ listed[n] < ListedMax THEN listed[n] + 1 ELSE listed[n]]
     /\ IF end <= offset THEN done' = TRUE /\ UNCHANGED offset
                         ELSE offset' = NextOff(end - 1) /\ UNCHANGED done
     /\ cut' = (len < AllLen)
     /\ UNCHANGED <<present, stayed, created, removed>>

(* Others, or the lister itself between two pages, as rm -r does. *)
Create(n) ==
  /\ ~done /\ n \notin present /\ created < MaxCreated
  /\ present' = present \cup {n}
  /\ created' = created + 1
  /\ UNCHANGED <<offset, listed, done, cut, stayed, removed>>

Remove(n) ==
  /\ ~done /\ n \in present /\ removed < MaxRemoved
  /\ present' = present \ {n} /\ stayed' = stayed \ {n}
  /\ removed' = removed + 1
  /\ UNCHANGED <<offset, listed, done, cut, created>>

ReaddirStep == \E room \in 1..PageMax, len \in 2..AllLen : Readdir(room, len)

Next == ReaddirStep \/ \E n \in Names : Create(n) \/ Remove(n)

FairSpec == Init /\ [][Next]_vars /\ WF_vars(ReaddirStep)

-----------------------------------------------------------------------------
(* Properties *)

(* Every variable stays in its range: no offset points beyond what the     *)
(* directory has ever held.                                                *)
TypeOK ==
  /\ present \subseteq Names /\ stayed \subseteq present
  /\ offset \in 0..(N + 2)
  /\ listed \in [Names \cup {Dot, DotDot} -> Nat]
  /\ done \in BOOLEAN /\ cut \in BOOLEAN

(* How far a listing may drift: each entry removed while it goes on hides  *)
(* at most one entry that stays, and each one created repeats at most one. *)
(* In particular a listing nobody disturbs is exact, however it is divided *)
(* into pages, and "." and ".." are listed once in any case.  Reads that   *)
(* fail on the way repeat nothing, and hide nothing either unless the one  *)
(* behind the empty page is among them: the listing then ends early.       *)
DriftBounded ==
  done =>
    /\ ~cut => Cardinality({n \in stayed : listed[n] = 0}) <= removed
    /\ Cardinality({n \in stayed : listed[n] > 1}) <= created
    /\ \A n \in stayed : listed[n] <= 1 + created
    /\ listed[Dot] = 1 /\ listed[DotDot] = 1

(* Every listing comes to its end, whatever is created or removed          *)
(* meanwhile: the offset moves with every page.                            *)
ListingEnds == <>done
=============================================================================
