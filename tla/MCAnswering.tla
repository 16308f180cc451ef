---------------------------- MODULE MCAnswering ----------------------------
(* The gateway, a retrieval, the turns of a conversation, the library and  *)
(* an extraction, each on its own: one of them runs.                       *)
EXTENDS Gateway, Retrieval, Composer, Intake

MCProviders == [name : {"mock", "cloud", "local", "typo"}, key : {"unset", "empty", "set"}]

Asks(asked, kbs, query, mode) == [asked |-> asked, kbs |-> kbs, query |-> query, mode |-> mode]
Queries == {SearchQuery(<<"code", "word">>, "word", n) : n \in 0 .. 2} \union {SearchQuery(<<"code">>, "blank", 0)}
AskedTwice == SearchQuery(<<"code", "word">>, "blank", 2)
MCRequests ==
  {Asks("chat", <<1>>, query, mode) : query \in Queries, mode \in Modes}
  \union {Asks("query", <<1>>, SearchQuery(<<>>, q, 0), mode) : q \in {"word", "code", "blank"}, mode \in Modes}
  \union {Asks("chat", <<1, 2>>, AskedTwice, mode) : mode \in {"vector+rerank", "hybrid"}}
  \union {Asks("chat", kbs, AskedTwice, "hybrid") : kbs \in {<<1, 1>>, <<>>}}
MCParams == [k |-> 60, limit |-> 3, chunks |-> 2, budget |-> 5, ratio |-> 60, threshold |-> 3]
MCVectorScores == {-1, 4}
MCCost == <<2, 4>>

Scene(said, turns, own, bound) == [said |-> said, turns |-> turns, own |-> own, edits |-> bound]
MCScenes ==
  {Scene(<<a, b>>, {3, 4}, FALSE, 0) : a \in {"part", "empty"}, b \in {"empty", "whole"}}
  \union {Scene(<<"whole", "whole">>, {3}, own, 3) : own \in BOOLEAN}

Kind(bytes, head, inside, named, hash) == [bytes |-> bytes, head |-> head, inside |-> inside, named |-> named, hash |-> hash]
To(k, c) == [to |-> k, content |-> c]
First1 == Kind(1, "pdf", {}, "md", 1)
Docx == Kind(2, "zip", {"word"}, "md", 2)
MCDeliveries ==
  {<<To("a", First1), To("a", First1)>>, <<To("a", First1), To("a", Docx)>>, <<To("a", First1), To("b", First1)>>,
   <<To("a", Kind(1, "text", {}, "md", 3)), To("a", Kind(0, "text", {}, "txt", 3))>>,
   <<To("a", Kind(1, "zip", {"sheet"}, "md", 3)), To("a", Kind(1, "zip", {"meta"}, "md", 3))>>,
   <<To("a", Kind(3, "pdf", {}, "pdf", 3)), To("a", Kind(1, "binary", {}, "md", 3))>>}

Only(part) ==
  /\ IF part = "Gateway"    THEN GatewayInit    ELSE GatewayOff
  /\ IF part = "Retrieval"  THEN RetrievalInit  ELSE RetrievalOff
  /\ IF part = "Composer"   THEN ComposerInit   ELSE ComposerOff
  /\ IF part = "Library"    THEN LibraryInit    ELSE LibraryOff
  /\ IF part = "Extraction" THEN ExtractionInit ELSE ExtractionOff
Init == \E part \in {"Gateway", "Retrieval", "Composer", "Library", "Extraction"} : Only(part)

Next ==
  \/ GatewayNext    /\ UNCHANGED <<retrievalVars, composerVars, libraryVars, extractionVars>>
  \/ RetrievalNext  /\ UNCHANGED <<gatewayVars, composerVars, libraryVars, extractionVars>>
  \/ ComposerNext   /\ UNCHANGED <<gatewayVars, retrievalVars, libraryVars, extractionVars>>
  \/ LibraryNext    /\ UNCHANGED <<gatewayVars, retrievalVars, composerVars, extractionVars>>
  \/ ExtractionNext /\ UNCHANGED <<gatewayVars, retrievalVars, composerVars, libraryVars>>
Spec ==
  /\ Init /\ [][Next]_<<gatewayVars, retrievalVars, composerVars, libraryVars, extractionVars>>
  /\ GatewayFairness /\ LibraryFairness /\ ExtractionFairness

-----------------------------------------------------------------------------
AnsweringTypeOK == GatewayTypeOK /\ RetrievalTypeOK /\ ComposerTypeOK /\ LibraryTypeOK /\ ExtractionTypeOK

(* ChatTimeouts; purge_for_tenant; run_isolated: what is begun ends, a     *)
(* call, the life of a deleted document and the parsing of any document.   *)
WorkEnds == CallsEnd /\ DeletedGoesAway /\ TaskEnds
=============================================================================
