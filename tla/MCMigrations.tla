---------------------------- MODULE MCMigrations ----------------------------
(***************************************************************************)
(* Two jobs at a time, any number in all, over the images of four          *)
(* releases: the previous one, the current one built with CRLF line        *)
(* endings, one whose second script was edited after it had been released, *)
(* and a branch that lacks that script.                                    *)
(***************************************************************************)
EXTENDS Migrations

Unix(sql) == [sql |-> sql, crlf |-> FALSE]
Windows(sql) == [sql |-> sql, crlf |-> TRUE]

MCImages == {<<Unix("a"), Unix("b")>>,
             <<Windows("a"), Windows("b"), Windows("c")>>,
             <<Unix("a"), Unix("edited"), Unix("c")>>,
             [v \in {1, 3} |-> IF v = 1 THEN Unix("a") ELSE Unix("c")]}

MCTexts == {"a", "b", "c", "edited"}

MCVersions == 1..3
=============================================================================
