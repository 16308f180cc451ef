------------------------------ MODULE Settings ------------------------------
(***************************************************************************)
(* The adjustable parameters of a tenant and of a knowledge base, and the  *)
(* encrypted credentials: requests that write them, transaction by         *)
(* transaction, and the readers that resolve them layer by layer.          *)
(*                                                                         *)
(* The two parameters of the chunk section stand for all: a number with    *)
(* fixed bounds, and one that is bounded by another.  What is stored may   *)
(* be older than the validation.                                           *)
(***************************************************************************)
EXTENDS Integers, FiniteSets

CONSTANTS
  Writers,        \* concurrent requests
  Plans,          \* what they ask for: [Writers -> body]
  Legacy,         \* sections that may be stored already
  System,         \* system defaults
  Low, High,      \* bounds of target_tokens
  MaxFaults

NotGiven == -9
Text == -8                            \* any value that is no number
Section == [target : Int, overlap : Int, by : Nat]    \* by: the request, 0 for what is older
NoSection == [target |-> NotGiven, overlap |-> NotGiven, by |-> 0]

Bodies == [chunk : {"none", "tenant", "kb"}, section : Section,
           quota : {"none", "set", "bad"}, secret : {"none", "set", "revoke", "blank"}]

ASSUME SettingsAssumption ==
  /\ Writers \subseteq Nat \ {0} /\ Plans \subseteq [Writers -> Bodies]
  /\ Legacy \subseteq Section /\ \A old \in Legacy : old.by = 0
  /\ High \in Nat /\ Low \in 1 .. High
  /\ {System.target, System.overlap} \subseteq Int    \* app_settings gives them no bounds

VARIABLES
  tenant,   \* tenant.settings: the chunk and the quota section
  kb,       \* config, knowledge_version, and what the chunks were cut with
  dek,      \* the data key of the tenant: who made it, 0 for none
  sealed,   \* the credential: the key it is sealed with, and whose it is
  request,
  audit,    \* rows of the audit log
  overlapped,   \* history: two updates of the knowledge base had read before one of them wrote
  faults

settingsVars == <<tenant, kb, dek, sealed, request, audit, overlapped, faults>>

-----------------------------------------------------------------------------
(* seal, open_sealed: what one key has closed, no other one opens.         *)
Sealed(key, w) == [key |-> key, of |-> w]
Unsealed == Sealed(0, 0)
Answered == {"rejected", "ok", "failed"}
Steps == {"off", "validate", "dek", "seal", "revoke", "read", "write"} \union Answered

SettingsTypeOK ==
  /\ tenant.chunk \in Section /\ tenant.quota \in Writers \union {0} /\ kb.chunk \in Section
  /\ kb.ver \in 1 .. (1 + Cardinality(Writers)) /\ kb.indexed \in 1 .. kb.ver
  /\ dek \in Writers \union {0} /\ sealed \in [key : Writers \union {0}, of : Writers \union {0}]
  /\ \A w \in Writers : request[w].at \in Steps
  /\ \A row \in audit : row.by \in Writers /\ row.outcome \in {"succeeded", "failed"}
  /\ \A row \in audit : row.told => request[row.by].body.secret # "none"

SettingsBegin(first, plans, olds) ==
  /\ \E old \in olds :
       /\ tenant = [chunk |-> old, quota |-> 0]
       /\ \E own \in olds : kb = [chunk |-> own, cut |-> own, ver |-> 1, indexed |-> 1]
  /\ dek = 0 /\ sealed = Unsealed /\ audit = {} /\ overlapped = FALSE /\ faults = 0
  /\ \E plan \in plans :
       request = [w \in Writers |-> [body |-> plan[w], at |-> first, seen |-> 0,
                                     chunk |-> NoSection, quota |-> 0, ver |-> 1, told |-> FALSE]]
SettingsInit == SettingsBegin("validate", Plans, Legacy)
SettingsOff == SettingsBegin("off", {CHOOSE p \in Plans : TRUE}, {NoSection})

-----------------------------------------------------------------------------
(***************************************************************************)
(* The write side: validate_param_sections                                 *)
(***************************************************************************)
Larger(m, n) == IF m > n THEN m ELSE n
Smaller(m, n) == IF m < n THEN m ELSE n
IsNumber(v) == v \notin {NotGiven, Text}

(* _reject_reason; the ceiling is the target that is written along.        *)
WriteCeiling(section) ==
  Larger((IF IsNumber(section.target) THEN section.target ELSE System.target) - 1, 0)
SeededValidSection(section) ==        \* seeded fault: a target of any size is accepted
  /\ section.target # Text
  /\ section.overlap = NotGiven
       \/ (section.overlap # Text /\ section.overlap \in 0 .. WriteCeiling(section))
ValidSection(section) ==
  /\ section.target = NotGiven \/ (section.target # Text /\ section.target \in Low .. High)
  /\ section.overlap = NotGiven
       \/ (section.overlap # Text /\ section.overlap \in 0 .. WriteCeiling(section))

(* _validate: parameters, quota and credentials, all before any is kept.   *)
SeededValidBody(body) == body.chunk = "none" \/ ValidSection(body.section)
                                      \* seeded fault: only the parameters are looked at
ValidBody(body) ==
  /\ body.chunk = "none" \/ ValidSection(body.section)
  /\ body.quota # "bad" /\ body.secret # "blank"

Sent(w) == [request[w].body.section EXCEPT !.by = w]

-----------------------------------------------------------------------------
(***************************************************************************)
(* The read side: read_param, the most specific layer first                *)
(***************************************************************************)
Clamp(v, low, high) == Smaller(Larger(v, low), high)
SeededFirstUsable(layers, system) ==  \* seeded fault: the first layer decides, good or bad
  IF layers[1] # NotGiven THEN (IF IsNumber(layers[1]) THEN layers[1] ELSE system)
  ELSE IF IsNumber(layers[2]) THEN layers[2] ELSE system
FirstUsable(layers, system) ==
  IF IsNumber(layers[1]) THEN layers[1] ELSE IF IsNumber(layers[2]) THEN layers[2] ELSE system
Counted(layers) == IsNumber(layers[1]) \/ IsNumber(layers[2])

(* _accept: what is stored is clamped, a default is not.                   *)
TargetLayers == <<kb.chunk.target, tenant.chunk.target>>
Target ==
  IF Counted(TargetLayers) THEN Clamp(FirstUsable(TargetLayers, System.target), Low, High) ELSE System.target

SeededReadCeiling == System.target - 1   \* seeded fault: the ceiling of the default
ReadCeiling == Larger(Target - 1, 0)
OverlapLayers == <<kb.chunk.overlap, tenant.chunk.overlap>>
Overlap ==
  IF Counted(OverlapLayers) THEN Clamp(FirstUsable(OverlapLayers, System.overlap), 0, ReadCeiling)
  ELSE System.overlap                 \* whatever the target

-----------------------------------------------------------------------------
(***************************************************************************)
(* A request                                                               *)
(***************************************************************************)
AtStep(w, at) == request[w].at = at

(* AuditLogRepository.add: a transaction of its own, after the answer. What *)
(* fails there is logged.                                                   *)
Entered(w, outcome, told) == audit' = audit \union {[by |-> w, outcome |-> outcome, told |-> told]}
Audited(w, outcome, told) == Entered(w, outcome, told) \/ (faults < MaxFaults /\ UNCHANGED audit)

Validate(w) ==
  /\ AtStep(w, "validate")
  /\ \/ ~ValidBody(request[w].body) /\ Audited(w, "failed", request[w].told)
        /\ request' = [request EXCEPT ![w].at = "rejected"]
     \/ /\ ValidBody(request[w].body) /\ UNCHANGED audit
        /\ request' = [request EXCEPT ![w].at =
             CASE request[w].body.secret = "set" -> "dek" [] request[w].body.secret = "revoke" -> "revoke"
               [] OTHER -> "read"]
  /\ UNCHANGED <<tenant, kb, dek, sealed, overlapped, faults>>

(* CredentialService._dek: the row, or whoever inserts it first.           *)
ReadDek(w) ==
  /\ AtStep(w, "dek")
  /\ request' = [request EXCEPT ![w].at = "seal", ![w].seen = dek]
  /\ UNCHANGED <<tenant, kb, dek, sealed, audit, overlapped, faults>>

SeededWinner(w) == w                  \* seeded fault: sealed with the key that was made here
Winner(w) == IF dek = 0 THEN w ELSE dek
Seal(w) ==
  /\ AtStep(w, "seal")
  /\ LET key == IF request[w].seen # 0 THEN request[w].seen ELSE Winner(w) IN
     /\ sealed' = Sealed(key, w)
     /\ dek' = IF dek = 0 THEN w ELSE dek
  /\ request' = [request EXCEPT ![w].at = "read"]
  /\ UNCHANGED <<tenant, kb, audit, overlapped, faults>>

(* _revoke: one that is absent already is what was asked for.              *)
Revoke(w) ==
  /\ AtStep(w, "revoke") /\ sealed' = Unsealed
  /\ request' = [request EXCEPT ![w].at = "read"]
  /\ UNCHANGED <<tenant, kb, dek, audit, overlapped, faults>>

(* The transaction reads, merges, describes the change, and writes; none   *)
(* of them locks what it reads.                                            *)
Updating(w) == request[w].body.chunk = "kb"
Read(w) ==
  /\ AtStep(w, "read")
  /\ request' = [request EXCEPT ![w].at = "write", ![w].quota = tenant.quota,
       ![w].chunk = IF Updating(w) THEN kb.chunk ELSE tenant.chunk, ![w].ver = kb.ver]
  /\ overlapped' = (overlapped \/ (Updating(w) /\ \E v \in Writers \ {w} : Updating(v) /\ AtStep(v, "write")))
  /\ UNCHANGED <<tenant, kb, dek, sealed, audit, faults>>

SeededDescribed(w) == FALSE           \* seeded fault: credentials are no part of the description
Described(w) == request[w].body.secret \in {"set", "revoke"}
Done(w) ==
  /\ request' = [request EXCEPT ![w].at = "ok", ![w].told = Described(w)]
  /\ Audited(w, "succeeded", Described(w))

WriteTenant(w) ==
  /\ AtStep(w, "write") /\ ~Updating(w)
  /\ tenant' = [chunk |-> IF request[w].body.chunk = "tenant" THEN Sent(w) ELSE request[w].chunk,
                quota |-> IF request[w].body.quota = "set" THEN w ELSE request[w].quota]
  /\ Done(w)
  /\ UNCHANGED <<kb, dek, sealed, overlapped, faults>>

(* KnowledgeBaseService.update: the version follows the chunk section.     *)
SameValues(s, t) == s.target = t.target /\ s.overlap = t.overlap
SeededChunkingChanged(s, t) == s.target # t.target   \* seeded fault: the overlap is forgotten
ChunkingChanged(s, t) == ~SameValues(s, t)
WriteKb(w) ==
  /\ AtStep(w, "write") /\ Updating(w)
  /\ kb' = [kb EXCEPT !.chunk = Sent(w),
              !.ver = IF ChunkingChanged(request[w].chunk, Sent(w)) THEN request[w].ver + 1 ELSE @]
  /\ Done(w)
  /\ UNCHANGED <<tenant, dek, sealed, overlapped, faults>>

(* The database or the key store fails: the transaction is undone.         *)
Breaks(w) ==
  /\ request[w].at \in {"dek", "seal", "revoke", "read", "write"} /\ faults < MaxFaults
  /\ faults' = faults + 1 /\ request' = [request EXCEPT ![w].at = "failed"]
  /\ Entered(w, "failed", FALSE)
  /\ UNCHANGED <<tenant, kb, dek, sealed, overlapped>>

(* A rebuild of the knowledge base, as KbReindex shows it, in one step.    *)
Recut ==
  /\ \E w \in Writers : request[w].at \notin Answered \union {"off"}
  /\ kb.indexed # kb.ver /\ kb' = [kb EXCEPT !.cut = kb.chunk, !.indexed = kb.ver]
  /\ UNCHANGED <<tenant, dek, sealed, request, audit, overlapped, faults>>

SettingsNext ==
  \/ \E w \in Writers : \/ Validate(w) \/ ReadDek(w) \/ Seal(w) \/ Revoke(w) \/ Read(w)
                        \/ WriteTenant(w) \/ WriteKb(w) \/ Breaks(w)
  \/ Recut

SettingsSpec == SettingsInit /\ [][SettingsNext]_settingsVars

-----------------------------------------------------------------------------
(* _dek and create_if_absent: whoever comes first, the credential that is  *)
(* stored can be opened with the key that is stored.                       *)
CredentialsOpen == sealed # Unsealed => sealed.key = dek /\ dek # 0

(* TenantSettingsService.update: a request that is refused has changed     *)
(* nothing, in neither table.                                              *)
RejectedLeavesNothing ==
  \A w \in Writers : request[w].at = "rejected" =>
    w \notin {sealed.of, tenant.quota, tenant.chunk.by, kb.chunk.by}

(* _accept, _ceiling: whatever the layers hold, old values included, a     *)
(* target of theirs keeps the bounds that protect the provider, and an     *)
(* overlap of theirs stays below the target that is used, whichever layer  *)
(* that is from.  Only the defaults may do otherwise.                      *)
ChunkingAdvances ==
  /\ Target \in Low .. High \/ ~Counted(TargetLayers)
  /\ Overlap \in 0 .. Target - 1 \/ ~Counted(OverlapLayers) \/ (Target < 1 /\ ~Counted(TargetLayers))

(* read_param, validate_param_sections: a target that was accepted is the  *)
(* one that is used, and a bad value gives way to the next layer only.     *)
AcceptedIsUsed ==
  /\ kb.chunk.by # 0 /\ kb.chunk.target # NotGiven => Target = kb.chunk.target
  /\ ~IsNumber(kb.chunk.target) /\ tenant.chunk.by # 0 /\ tenant.chunk.target # NotGiven
       => Target = tenant.chunk.target

(* _credential_audit: a request that has changed the credential and        *)
(* succeeded says so in the row it leaves.                                 *)
RotationIsTold ==
  \A row \in audit : row.outcome = "succeeded" /\ row.by = sealed.of => row.told

(* TenantSettingsService and read_param: what is stored is whole and of    *)
(* the accepted requests, and is what the ingestion uses.                  *)
SettingsHold ==
  /\ CredentialsOpen /\ RejectedLeavesNothing /\ RotationIsTold
  /\ ChunkingAdvances /\ AcceptedIsUsed

(* _chunking_changed: chunks that were cut with other values are to be cut *)
(* again, whenever a rebuild runs between the changes, as long as no two   *)
(* updates overlapped.                                                     *)
RebuildIsAsked == overlapped \/ (~SameValues(kb.cut, kb.chunk) => kb.ver # kb.indexed)

(* 05: "knowledge_version grows with every change of the settings": two    *)
(* updates that overlap make one version.                                  *)
EveryChangeAsks == ~SameValues(kb.cut, kb.chunk) => kb.ver # kb.indexed

(* SECTIONS, "an overlap as large as the target makes a chunk begin with   *)
(* all of the one before", and its test: the overlap stays below.          *)
OverlapNeverReachesTarget == Overlap < Target

(* TenantSettingsService.update, "a section that was not sent stays as it  *)
(* is": what only one request has written is there once it has succeeded.  *)
UntouchedSectionsStay ==
  \A w \in Writers : AtStep(w, "ok") =>
    /\ request[w].body.quota = "set" /\ (\A v \in Writers \ {w} : request[v].body.quota # "set")
         => tenant.quota = w
    /\ request[w].body.chunk = "tenant" /\ (\A v \in Writers \ {w} : request[v].body.chunk # "tenant")
         => tenant.chunk.by = w
=============================================================================
