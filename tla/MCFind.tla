------------------------------- MODULE MCFind -------------------------------
(***************************************************************************)
(* A tree of two files, one of them in a directory, and a link back to the *)
(* root; 18-bit integers, which two days overflow as i64 and four days as  *)
(* u64.                                                                    *)
(***************************************************************************)
EXTENDS ProvFind

MCPaths == {"/", "/d", "/d/f", "/g", "/l"}
MCParent == [p \in MCPaths \ {"/"} |-> IF p = "/d/f" THEN "/d" ELSE "/"]
MCLinkTo == [p \in {"/l"} |-> "/"]
MCUnits == [s |-> 1, m |-> 60, h |-> 3600, d |-> 86400]

Rec(session, tool, intent, ts) ==
  [k \in Keys |-> CASE k = "session" -> session [] k = "tool" -> tool
                    [] k = "intent" -> intent [] k = "ts" -> ts
                    [] OTHER -> None]
Ts(form, secs) == [form |-> form, secs |-> secs]

(* Stamps of the overlay and of the LSM, and one whose ts is no time. *)
MCRecords ==
  {Rec("s1", "Edit", "review", Ts("rfc3339", Now - 3600)),
   Rec("s2", None, None, Ts("unix", 10)),
   Rec("s1", "bash", None, Ts("garbage", 0))}

All == [tool |-> None, session |-> None, intent |-> None, since |-> None]
Since(mag, unit) == [All EXCEPT !.since = [mag |-> mag, unit |-> unit]]

MCQueries ==
  {All, [All EXCEPT !.session = {"s1"}, !.intent = "review"],
   [All EXCEPT !.tool = "bash"], Since(60, "m"), Since(2, "d"), Since(4, "d"),
   Since(MaxU + 1, "s"), Since(None, "h"), Since(1, "?"), Since(1, "none")}
=============================================================================
