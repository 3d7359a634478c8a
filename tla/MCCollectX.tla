----------------------------- MODULE MCCollectX -----------------------------
(* Two posts of one author, one of them also with its author left out; the *)
(* searches overlap, and one lists the same post twice.                    *)
EXTENDS CollectX

P1       == [id |-> 1, username |-> "ann", like_count |-> 2, retweet_count |-> 1]
P1NoUser == [P1 EXCEPT !.username = ""]
P2       == [id |-> 2, username |-> "ann", like_count |-> 0, retweet_count |-> 0]

SearchesVal == {<<P1, P2>>, <<P2, P1NoUser>>, <<P1, P1>>, <<>>}
=============================================================================
