----------------------------- MODULE MCPlatform -----------------------------
(* The parts around the pipeline and the chat, each on its own: one of     *)
(* them runs. As in the code, the least target that is accepted is the     *)
(* overlap the system begins with.                                         *)
EXTENDS Settings, Conversations, Notices, Upkeep, Requests, ChatClient, MCChunker

Sec(t, o) == [target |-> t, overlap |-> o, by |-> 0]
Body2(chunk, section, limits, secret) == [chunk |-> chunk, section |-> section, quota |-> limits, secret |-> secret]
Sections == {Sec(2, NotGiven), Sec(5, 1), Sec(NotGiven, 2), Sec(4, 3), Sec(Text, 0)}
TenantBodies == {Body2("tenant", s, "none", "none") : s \in Sections}
   \union {Body2("none", NoSection, q, k) : q \in {"none", "set", "bad"}, k \in {"set", "revoke", "blank"}}
   \union {Body2("none", NoSection, "set", "none")}
KbBodies == {Body2("kb", s, "none", "none") : s \in Sections}
MCPlans == {<<a, b>> : a \in TenantBodies, b \in TenantBodies \union KbBodies}
           \union {<<a, b>> : a \in KbBodies, b \in KbBodies}
MCLegacy == {NoSection, Sec(1, 7), Sec(Text, 3), Sec(NotGiven, -1)}
MCSystem == [target |-> 5, overlap |-> 2]

MCOwner == <<1, 1, 2>>
MCAuthors == <<1, 1>>

Tell(kind, used, to) == [kind |-> kind, used |-> used, to |-> to]
MCEventPlans ==
  {<<Tell("ready", 0, <<1>>), Tell("ready", 0, <<1, 2>>), Tell("ready", 0, <<1>>)>>,
   <<Tell("ready", 0, <<1>>), Tell("quota", 5, <<1>>), Tell("quota", 4, <<1>>)>>,
   <<Tell("quota", 5, <<1, 2>>), Tell("quota", 5, <<1, 2>>), Tell("quota", 3, <<1, 2>>)>>}
  \union {<<Tell("quota", n, <<1>>), Tell("quota", 5, <<1>>), Tell("quota", 6, <<1>>)>> : n \in {3, 5}}
MCThresholds == <<80, 100>>

Serve(from, for, other, how) == [from |-> from, tenant |-> for, other |-> other, how |-> how, size |-> "small"]
Large(visit) == [visit EXCEPT !.size = "large"]
MCRounds ==
  {<< <<Serve("near", 1, 2, "within"), Serve("near", 0, 0, "alone")>>, <<Serve("near", 2, 1, "after"), Large(Serve("near", 1, 1, "within"))>> >>,
   << <<Serve("near", 1, 2, "after"), Serve("near", 0, 0, "alone")>>, <<Serve("near", 2, 1, "within"), Serve("near", 1, 1, "within")>> >>}

MCBeginnings == {<<"a", "b">>, <<"a">>}

Only(part) ==
  /\ IF part = "Settings"       THEN SettingsInit       ELSE SettingsOff
  /\ IF part = "Conversations"  THEN ConversationsInit  ELSE ConversationsOff
  /\ IF part = "Notices"        THEN NoticesInit        ELSE NoticesOff
  /\ IF part = "Upkeep"         THEN UpkeepInit         ELSE UpkeepOff
  /\ IF part = "Requests"       THEN RequestsInit       ELSE RequestsOff
  /\ IF part = "ChatClient"     THEN ChatClientInit     ELSE ChatClientOff
  /\ IF part = "Chunker"        THEN ChunkerInit        ELSE ChunkerOff
Init == \E part \in {"Settings", "Conversations", "Notices", "Upkeep", "Requests", "ChatClient", "Chunker"} : Only(part)

Next ==
  \/ SettingsNext      /\ UNCHANGED <<conversationsVars, noticesVars, upkeepVars, requestsVars, chatClientVars, chunkerVars>>
  \/ ConversationsNext /\ UNCHANGED <<settingsVars, noticesVars, upkeepVars, requestsVars, chatClientVars, chunkerVars>>
  \/ NoticesNext       /\ UNCHANGED <<settingsVars, conversationsVars, upkeepVars, requestsVars, chatClientVars, chunkerVars>>
  \/ UpkeepNext        /\ UNCHANGED <<settingsVars, conversationsVars, noticesVars, requestsVars, chatClientVars, chunkerVars>>
  \/ RequestsNext      /\ UNCHANGED <<settingsVars, conversationsVars, noticesVars, upkeepVars, chatClientVars, chunkerVars>>
  \/ ChatClientNext    /\ UNCHANGED <<settingsVars, conversationsVars, noticesVars, upkeepVars, requestsVars, chunkerVars>>
  \/ ChunkerNext       /\ UNCHANGED <<settingsVars, conversationsVars, noticesVars, upkeepVars, requestsVars, chatClientVars>>
Spec == Init /\ [][Next]_<<settingsVars, conversationsVars, noticesVars, upkeepVars, requestsVars, chatClientVars, chunkerVars>>

-----------------------------------------------------------------------------
PlatformTypeOK ==
  /\ SettingsTypeOK /\ ConversationsTypeOK /\ NoticesTypeOK
  /\ UpkeepTypeOK /\ RequestsTypeOK /\ ChatClientTypeOK /\ ChunkerTypeOK

(* KnowledgeBaseService.update and the chunker: chunks that were cut with  *)
(* other values are to be cut again, and what is cut of a document is its  *)
(* text. Every part keeps to its values meanwhile.                         *)
CuttingHolds == RebuildIsAsked /\ ChunksHold /\ PlatformTypeOK
=============================================================================
