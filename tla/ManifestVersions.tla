------------------------- MODULE ManifestVersions -------------------------
(***************************************************************************)
(* The capability manifest of one agent: its versions in the database, the *)
(* pages on which administrators edit it, the rollback of the command      *)
(* line, and the sessions that live under it.                              *)
(*                                                                         *)
(* A session is offered the tools that were enabled when it began; the     *)
(* agent loop reads the newest version again for every message, checks it  *)
(* against the schema, and takes from it which tools need an approval.     *)
(***************************************************************************)
EXTENDS Naturals, FiniteSets

CONSTANTS Editors,       \* open pages with the manifest
          ManifestTools, \* tools it may name
          MaxVersions,   \* versions ever saved, a bound of the model
          MaxEdits       \* edits of a page between two loads, a bound too

ASSUME ManifestAssumption == MaxVersions \in Nat \ {0} /\ MaxEdits \in Nat

VARIABLES versions,   \* rows of capability_manifests, with their version
          sheet,      \* what each page shows and is doing
          offered,    \* tools of the running session's context
          turn,       \* the message that the agent loop is processing
          lastCall    \* the last tool call of that message

manifestVars == <<versions, sheet, offered, turn, lastCall>>

(* A manifest: a version field that the schema wants positive, its tools,  *)
(* which of them are enabled and need approval, whether a rate limit is    *)
(* zero, and the other limits.                                             *)
Manifests ==
    [field: {0, 1}, tools: SUBSET ManifestTools, on: SUBSET ManifestTools,
     gated: SUBSET ManifestTools, zero: BOOLEAN, limits: {"fine", "below"}]

(* What a page starts from when there is no manifest: it has no tools, and *)
(* no page can add one.                                                    *)
FreshSheet == [field |-> 0, tools |-> {}, on |-> {}, gated |-> {}, zero |-> FALSE,
          limits |-> "fine"]

(* CapabilityManifestSchema: positive version, positive rate limits.       *)
Parses(m) == m.field > 0 /\ ~m.zero

Newest == Cardinality(versions)
RowOf(v) == CHOOSE r \in versions : r.version = v
SheetClosed == [at |-> "closed", doc |-> FreshSheet, sent |-> FreshSheet, next |-> 0, told |-> 0,
           edits |-> 0]
NoTurn == [on |-> FALSE, began |-> 0, loaded |-> FALSE, gated |-> {}]
NoCall == [tools |-> {}, asked |-> FALSE, began |-> 0, loaded |-> FALSE]

(* An agent is created with a manifest or without.                         *)
ManifestInit ==
    /\ versions \in {{}} \cup
        {{[version |-> 1, doc |-> [field |-> 1, tools |-> ManifestTools, on |-> ManifestTools,
                                   gated |-> g, zero |-> FALSE, limits |-> "fine"]]} :
            g \in SUBSET ManifestTools}
    /\ sheet = [a \in Editors |-> SheetClosed]
    /\ offered = {} /\ turn = NoTurn /\ lastCall = NoCall
-----------------------------------------------------------------------------
(* A page: loads the newest version, or starts afresh.                     *)
LoadSheet(a) ==
    /\ sheet[a].at \in {"closed", "open"}
    /\ sheet' = [sheet EXCEPT ![a] =
            [SheetClosed EXCEPT !.at = "open",
                           !.doc = IF Newest = 0 THEN FreshSheet ELSE RowOf(Newest).doc]]
    /\ UNCHANGED <<versions, offered, turn, lastCall>>

Flip(set, t) == IF t \in set THEN set \ {t} ELSE set \cup {t}

(* What the checkboxes and fields of a page make of a manifest.            *)
ToolEdits(m) ==
    {[m EXCEPT !.on = Flip(@, t)] : t \in m.tools}
        \cup {[m EXCEPT !.gated = Flip(@, t)] : t \in m.tools}
        \cup (IF m.tools = {} THEN {} ELSE {[m EXCEPT !.zero = ~@]})
LimitEdits(m) == {[m EXCEPT !.limits = l] : l \in {"fine", "below"}}

(* Fields can be changed while a save is under way.                        *)
Edit(a) ==
    /\ sheet[a].at # "closed" /\ sheet[a].edits < MaxEdits
    /\ \E m \in ToolEdits(sheet[a].doc) \cup LimitEdits(sheet[a].doc) :
        sheet' = [sheet EXCEPT ![a].doc = m, ![a].edits = @ + 1]
    /\ UNCHANGED <<versions, offered, turn, lastCall>>

(* validateManifest, and the least values of the form's fields: a limit    *)
(* below its minimum is refused, a rate limit of zero is not.              *)
Validated(m) == m.limits # "below"

(* The save posts the whole manifest, whatever has been saved since it was *)
(* loaded.                                                                 *)
Save(a) ==
    /\ sheet[a].at = "open" /\ Validated(sheet[a].doc)
    /\ sheet' = [sheet EXCEPT ![a].at = "posted", ![a].sent = sheet[a].doc, ![a].told = 0]
    /\ UNCHANGED <<versions, offered, turn, lastCall>>

(* The rollback of the command line posts an old version again.            *)
Rollback(a) ==
    /\ sheet[a].at = "closed"
    /\ \E r \in versions :
        sheet' = [sheet EXCEPT ![a] = [SheetClosed EXCEPT !.at = "posted", !.doc = r.doc,
                                                     !.sent = r.doc]]
    /\ UNCHANGED <<versions, offered, turn, lastCall>>
-----------------------------------------------------------------------------
(* POST /manifests/:agentId: the next version is read, then inserted; the  *)
(* table has one row for a version, and a second one is an error.          *)
ReadNext(a) ==
    /\ sheet[a].at = "posted" /\ Newest < MaxVersions
    /\ sheet' = [sheet EXCEPT ![a].at = "numbered", ![a].next = Newest + 1]
    /\ UNCHANGED <<versions, offered, turn, lastCall>>

\* Mutated: the table does not insist on one row for a version.
InsertAnyway(a) ==
    /\ sheet[a].at = "numbered"
    /\ versions' = versions \cup {[version |-> sheet[a].next, doc |-> sheet[a].sent]}
    /\ sheet' = [sheet EXCEPT ![a].at = "stored"]
    /\ UNCHANGED <<offered, turn, lastCall>>

Insert(a) ==
    /\ sheet[a].at = "numbered"
    /\ \A r \in versions : r.version # sheet[a].next
    /\ versions' = versions \cup {[version |-> sheet[a].next, doc |-> sheet[a].sent]}
    /\ sheet' = [sheet EXCEPT ![a].at = "stored"]
    /\ UNCHANGED <<offered, turn, lastCall>>

(* The answer replaces what the page shows, edits made since included.     *)
SaveReturns(a) ==
    /\ sheet[a].at = "stored"
    /\ sheet' = [sheet EXCEPT ![a] = [SheetClosed EXCEPT !.at = "open", !.doc = sheet[a].sent,
                                                    !.told = sheet[a].next]]
    /\ UNCHANGED <<versions, offered, turn, lastCall>>

(* A request that fails, also one whose row is stored: the page stays as   *)
(* it is and says so.                                                      *)
SaveFails(a) ==
    /\ sheet[a].at \in {"posted", "numbered", "stored"}
    /\ sheet' = [sheet EXCEPT ![a].at = "open", ![a].sent = FreshSheet, ![a].next = 0]
    /\ UNCHANGED <<versions, offered, turn, lastCall>>
-----------------------------------------------------------------------------
(* SessionManager.create: the enabled tools, without a look at the schema. *)
CreateSession ==
    /\ ~turn.on
    /\ offered' = IF Newest = 0 THEN {} ELSE RowOf(Newest).doc.on \cap RowOf(Newest).doc.tools
    /\ UNCHANGED <<versions, sheet, turn, lastCall>>

\* Mutated: approvals are those of the first version.
LoadFirst ==
    IF Newest = 0 \/ ~Parses(RowOf(1).doc) THEN {} ELSE RowOf(1).doc.gated

(* loadManifest: without a row, or with one that the schema refuses, the   *)
(* defaults apply, in which no tool is named.                              *)
LoadManifest ==
    IF Newest = 0 \/ ~Parses(RowOf(Newest).doc) THEN {} ELSE RowOf(Newest).doc.gated

(* A message begins.  The catch of loadManifest is also that of the query: *)
(* when the database throws, the defaults apply whatever the row says.     *)
BeginTurn ==
    /\ ~turn.on
    /\ \E answered \in BOOLEAN :
        turn' = [on |-> TRUE, began |-> Newest, loaded |-> answered,
                 gated |-> IF answered THEN LoadManifest ELSE {}]
    /\ UNCHANGED <<versions, sheet, offered, lastCall>>

(* A tool call asks for approval when the loaded manifest says so.         *)
CallTool ==
    /\ turn.on
    /\ \E t \in offered :
        lastCall' = [tools |-> {t}, asked |-> t \in turn.gated, began |-> turn.began,
                     loaded |-> turn.loaded]
    /\ UNCHANGED <<versions, sheet, offered, turn>>

EndTurn ==
    /\ turn.on /\ turn' = NoTurn /\ lastCall' = NoCall
    /\ UNCHANGED <<versions, sheet, offered>>

ManifestNext ==
    \/ CreateSession \/ BeginTurn \/ CallTool \/ EndTurn
    \/ \E a \in Editors :
        \/ LoadSheet(a) \/ Edit(a) \/ Save(a) \/ Rollback(a) \/ ReadNext(a)
        \/ Insert(a) \/ SaveReturns(a) \/ SaveFails(a)

ManifestSpec == ManifestInit /\ [][ManifestNext]_manifestVars
-----------------------------------------------------------------------------
\* Types; a page in a save has the manifest it sent (manifests.ts:18-41,
\* ManifestEditor.tsx:69-131, agent-loop.ts:456-472).
ManifestTypeOK ==
    /\ \A r \in versions : r.version \in 1..MaxVersions /\ r.doc \in Manifests
    /\ \A a \in Editors :
        /\ sheet[a].doc \in Manifests /\ sheet[a].sent \in Manifests
        /\ sheet[a].next \in 0..MaxVersions /\ sheet[a].told \in 0..MaxVersions
        /\ sheet[a].edits \in 0..MaxEdits
    /\ offered \subseteq ManifestTools /\ turn.gated \subseteq ManifestTools
    /\ turn.on \in BOOLEAN /\ lastCall.asked \in BOOLEAN

\* What a page is told is saved is the one row with that number, whoever else
\* saved at the same time, and it is what the page shows until it is edited again
\* (manifests.ts:28-40, ManifestEditor.tsx:109-131, VisualManifestEditor.tsx:252-282).
SavedIsThatVersion ==
    /\ {r.version : r \in versions} = 1..Newest
    /\ \A a \in Editors : sheet[a].told > 0 =>
        /\ sheet[a].told \in 1..Newest
        /\ sheet[a].edits = 0 => RowOf(sheet[a].told).doc = sheet[a].doc

\* A tool call of a message asks for approval exactly when the version that was
\* newest as the message began wants one, however old the session is and whatever
\* has been saved since; there are two exceptions, and then nothing asks: the
\* schema refuses that version, or the query that loads it throws
\* (agent-loop.ts:108-115, 279-283, 456-472, sessions/manager.ts:46-77).
ApprovalFollowsManifest ==
    \A t \in lastCall.tools :
        lastCall.asked <=>
            /\ lastCall.loaded /\ lastCall.began > 0
            /\ LET m == RowOf(lastCall.began).doc IN Parses(m) /\ t \in m.gated

\* Both: the newest version is the one that was saved last, and the one a message
\* obeys that could read it (manifests.ts:18-60, agent-loop.ts:448-474).
NewestIsObeyed == SavedIsThatVersion /\ ApprovalFollowsManifest

\* The same without the exceptions: "requiresApproval: true" in the newest version
\* makes the agent loop ask (docs/guides/manifest-reference.md).
ApprovalIsAsked ==
    \A t \in lastCall.tools : lastCall.began > 0 =>
        (t \in RowOf(lastCall.began).doc.gated => lastCall.asked)
=============================================================================
