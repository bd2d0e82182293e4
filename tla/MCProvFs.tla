------------------------------ MODULE MCProvFs ------------------------------
(***************************************************************************)
(* Small instances of ProvFs for TLC: a root with one entry, which may be  *)
(* a file or a directory, that may have an entry of its own.  The paths    *)
(* that are not stamped are those the default skip list matches.           *)
(***************************************************************************)
EXTENDS ProvFs, OverlaySkip, TLC

CONSTANTS alice, bob

TopPath == <<>>
TwoLevels == {TopPath, <<".git">>, <<".git", "HEAD">>}
OneFile == {TopPath, <<"notes.md">>}
TwoLevelsParent == [p \in TwoLevels \ {TopPath} |-> SubSeq(p, 1, Len(p) - 1)]
OneFileParent == [p \in OneFile \ {TopPath} |-> SubSeq(p, 1, Len(p) - 1)]

DefaultSkip(paths) == {p \in paths : ShouldSkip(p, FromUserSpec({}))}
TwoLevelsSkipped == DefaultSkip(TwoLevels)
OneFileSkipped == DefaultSkip(OneFile)

(* The rests of prefixes used below and the names they begin. *)
LogNames == {<<"log", "log">>, <<"log", "logs">>}

(* The expectations of the unit tests of src/skip.rs, and the edges of the *)
(* text matching: a directory that is skipped is itself stamped, a name    *)
(* that ends like one is not skipped, a prefix without a slash matches the *)
(* names it begins.                                                        *)
ASSUME SkipExamples ==
  LET user == {Dir("logs"), Dir("tmp"), Prefix(<<>>, "log")}
  IN /\ \A p \in {<<".git", "objects", "abcd">>, <<"repo", ".git", "HEAD">>,
                  <<"rust-crate", "target", "debug", "foo">>} :
          ShouldSkip(p, FromUserSpec({}))
     /\ \A p \in {<<>>, <<"notes.md">>, <<"src", "main.rs">>, <<".git">>,
                  <<"my.git", "HEAD">>} :
          ~ShouldSkip(p, FromUserSpec({}))
     /\ \A p \in {<<"logs", "build.log">>, <<"tmp", "foo">>, <<".git", "HEAD">>,
                  <<"var", "logs">>} :
          ShouldSkip(p, FromUserSpec(user))
     /\ ~ShouldSkip(<<"README.md">>, FromUserSpec(user))
     /\ ~ShouldSkip(<<".git", "HEAD">>, {})

(* Only alice's environment has a turn. *)
AliceHasTurn == [id \in Ids |-> IF id = alice THEN {"turn"} ELSE {}]
=============================================================================
