------------------------------ MODULE MCChunker ------------------------------
(* Four blocks on three pages: sections and no sections, tables, long and  *)
(* short sentences, a heading longer than a chunk, a footer, a bad page.   *)
EXTENDS Chunker

Given(type, page, word, sizes) ==
  [type |-> type, page |-> page, word |-> word, sizes |-> sizes, garbled |-> word[1] = "garbled"]
Texts(page) == {Given("text", page, <<"words", page>>, n) : n \in {<<1, 2, 3>>, <<1, 7, 1>>}}
Usual(page) == {Given("heading", page, <<"title", page>>, <<1>>), Given("table", page, <<"rows", page>>, <<3>>)} \union Texts(page)
Odd(page) == {Given("heading", page, <<"titles", page>>, <<6>>), Given("text", page, <<"garbled", 0>>, <<1>>)}
Foot(page) == {Given("text", page, <<"foot", 0>>, <<1>>)}
MCSources == {<<a, b, c, d>> : a \in Usual(1) \union Odd(1), b \in Usual(1) \union Foot(1), c \in Usual(2), d \in Usual(3) \union Foot(3)}
MCChunkConfigs == {[target |-> t[1], overlap |-> t[2]] : t \in {<<5, 0>>, <<5, 2>>, <<4, 4>>}}

ChunkerSpec == ChunkerInit /\ [][ChunkerNext]_chunkerVars
=============================================================================
