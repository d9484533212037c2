----------------------------- MODULE MCWsgiCall -----------------------------
(* An instance of WsgiCall: names of one to three bytes, a table of four.   *)
EXTENDS WsgiCall

\* Spellings: 97..99 and 65..67 are letters, 45 is '-' and 95 is '_'.
Table == <<<<97>>, <<98, 45>>, <<98, 97>>, <<99, 45, 97>>>>
Cookie == <<97>>
ContentType == <<98, 97>>
ContentLength == <<99, 45, 97>>

Fields ==
  [name : {<<97>>, <<65>>, <<98, 45>>, <<66, 95>>, <<98, 65>>, <<67, 45, 97>>, <<98, 98>>, <<99>>},
   value : {"v", "w"}]
MCRequests == UNION {[1..n -> Fields] : n \in 0..2} \cup [1..3 -> {f \in Fields : f.value = "v"}]

MCLists == {<<>>, <<"plain">>, <<"content-length">>, <<"connection">>, <<"long">>,
            <<"plain", "plain">>, <<"plain", "malformed">>, <<"control">>, <<"not a list">>}
MCChunks == {"bytes", "empty", "not bytes"}
=============================================================================
