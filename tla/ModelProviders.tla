-------------------------- MODULE ModelProviders ---------------------------
(***************************************************************************)
(* Keys of the LLM providers: rows of the table secrets, written through   *)
(* the API by the page of the providers and by the page of the secrets,    *)
(* and the adapters that the router has in memory, loaded from the table   *)
(* when the process starts and when the first page asks for it.            *)
(*                                                                         *)
(* A provider has one secret or two, saved one request after the other.    *)
(* Values are numbered as they are written.                                *)
(***************************************************************************)
EXTENDS Naturals, FiniteSets

CONSTANTS LlmProviders,    \* whose keys can be in the table
          FieldsOf,        \* the paths of each
          EnvProviders,    \* those the constructor registers
          Clicks,          \* saves and removals that can be under way at once
          ClickedOn,       \* the page of each
          MaxValues        \* values ever written, a bound of the model

ASSUME ModelProvidersAssumption ==
    /\ \A p \in LlmProviders : FieldsOf[p] # {}
    /\ \A p, q \in LlmProviders : p # q => FieldsOf[p] \cap FieldsOf[q] = {}
    /\ EnvProviders \subseteq LlmProviders /\ MaxValues \in Nat

VARIABLES secret,     \* by path, the number of the value, 0 for no row
          written,    \* values written so far
          adapter,    \* LLMRouter.adapters
          loads,      \* calls of loadProviders, with the rows they have read
          click,      \* what each of those is doing
          known,      \* configuredPaths of the page it is on
          spoiled     \* those that something else got into

providerVars == <<secret, written, adapter, loads, click, known, spoiled>>

Paths == UNION {FieldsOf[p] : p \in LlmProviders}
Keys(p, table) == [f \in FieldsOf[p] |-> table[f]]
Present(p, table) == \A f \in FieldsOf[p] : table[f] # 0

(* What the constructor registers has the value 0 for every field.         *)
Constructed ==
    [p \in LlmProviders |->
        [on |-> p \in EnvProviders, keys |-> [f \in FieldsOf[p] |-> 0]]]

AtRest == [op |-> "rest", of |-> "none", left |-> {}]
Working == {a \in Clicks : click[a].op # "rest"}

OnPageOf(a) == {b \in Clicks : ClickedOn[b] = ClickedOn[a]}

(* A page asks which paths there are.                                      *)
LearnPaths(a) ==
    known' = [b \in Clicks |->
                IF b \in OnPageOf(a) THEN {f \in Paths : secret[f] # 0} ELSE known[b]]

(* A write or a load of somebody else gets into whatever is going on.      *)
Disturb(except) == spoiled \cup (Working \ except)

ProvidersInit ==
    /\ secret = [f \in Paths |-> 0] /\ written = 0
    /\ adapter = Constructed
    /\ loads = {}
    /\ click = [a \in Clicks |-> AtRest]
    /\ known = [a \in Clicks |-> {}] /\ spoiled = {}
-----------------------------------------------------------------------------
(* LLMRouter.loadProviders: one query, and with its rows, adapters that    *)
(* are registered or replaced.  What has no row keeps its adapter.         *)

StartLoad(l) ==
    /\ l \notin {x.of : x \in loads}
    /\ loads' = loads \cup {[of |-> l, rows |-> secret]}

\* Mutated: a provider that has an adapter keeps it.
AddMissing(old, table) ==
    [p \in LlmProviders |->
        IF Present(p, table) /\ ~old[p].on THEN [on |-> TRUE, keys |-> Keys(p, table)]
        ELSE old[p]]

AddAdapters(old, table) ==
    [p \in LlmProviders |->
        IF Present(p, table) THEN [on |-> TRUE, keys |-> Keys(p, table)]
        ELSE old[p]]

(* The process starts again and loads before it listens; a query that      *)
(* fails is only logged.  Requests under way are over.                     *)
Restart ==
    /\ adapter' \in {Constructed, AddAdapters(Constructed, secret)}
    /\ loads' = {}
    /\ click' = [a \in Clicks |-> AtRest]
    /\ spoiled' = {}
    /\ UNCHANGED <<secret, written, known>>
-----------------------------------------------------------------------------
(* The page of the providers.  Its state names one provider as being saved,*)
(* the last that was clicked on, and only the buttons of that one wait: a  *)
(* page can have several saves and removals under way, of one provider too.*)

Open(a) ==
    /\ \A b \in OnPageOf(a) : click[b] = AtRest
    /\ LearnPaths(a)
    /\ UNCHANGED <<secret, written, adapter, loads, click, spoiled>>

Begin(a, op, p, given) ==
    /\ click[a] = AtRest
    /\ click' = [click EXCEPT ![a] = [op |-> op, of |-> p, left |-> given]]
    /\ spoiled' = IF Working = {} /\ loads = {} THEN spoiled \ {a}
                  ELSE spoiled \cup Working \cup {a}
    /\ UNCHANGED <<secret, written, adapter, loads, known>>

(* Save writes the fields that were filled in.                             *)
BeginSave(a) ==
    \E p \in LlmProviders : \E given \in SUBSET FieldsOf[p] :
        given # {} /\ Begin(a, "save", p, given)

(* Remove is offered when all fields are known, and deletes those.         *)
BeginRemove(a) ==
    \E p \in LlmProviders :
        FieldsOf[p] \subseteq known[a] /\ Begin(a, "remove", p, FieldsOf[p])

(* POST /secrets: insert or update.                                        *)
PostSecret(a) ==
    /\ click[a].op = "save" /\ written < MaxValues
    /\ \E f \in click[a].left :
        /\ secret' = [secret EXCEPT ![f] = written + 1]
        /\ click' = [click EXCEPT ![a].left = @ \ {f}]
    /\ written' = written + 1
    /\ spoiled' = Disturb({a})
    /\ UNCHANGED <<adapter, loads, known>>

(* DELETE /secrets/:path; a row that is gone is an error, which ends it.   *)
DeleteSecret(a) ==
    /\ click[a].op = "remove"
    /\ \E f \in click[a].left :
        IF secret[f] # 0
        THEN /\ secret' = [secret EXCEPT ![f] = 0]
             /\ click' = [click EXCEPT ![a].left = @ \ {f}]
        ELSE /\ click' = [click EXCEPT ![a] = AtRest] /\ UNCHANGED secret
    /\ spoiled' = Disturb({a})
    /\ UNCHANGED <<written, adapter, loads, known>>

(* POST /models/reload-providers.                                          *)
Reload(a) ==
    /\ click[a].op \in {"save", "remove"} /\ click[a].left = {}
    /\ StartLoad(a)
    /\ UNCHANGED <<secret, written, adapter, click, known, spoiled>>

Reloaded(a) ==
    \E x \in loads :
        /\ x.of = a
        /\ \/ adapter' = AddAdapters(adapter, x.rows) /\ spoiled' = Disturb({a})
           \/ UNCHANGED adapter /\ spoiled' = spoiled \cup {a}
        /\ loads' = loads \ {x}
        /\ click' = [click EXCEPT ![a].op =
                        IF @ = "save" THEN "saved" ELSE "removed"]
        /\ UNCHANGED <<secret, written, known>>

(* The page asks which paths there are, and tells its user.                *)
FinishSave(a) ==
    /\ click[a].op \in {"saved", "removed"}
    /\ LearnPaths(a)
    /\ click' = [click EXCEPT ![a] = AtRest]
    /\ UNCHANGED <<secret, written, adapter, loads, spoiled>>

(* A request fails: the page says so and leaves what is done as it is.     *)
PageFails(a) ==
    /\ click[a].op # "rest" /\ a \notin {x.of : x \in loads}
    /\ click' = [click EXCEPT ![a] = AtRest]
    /\ UNCHANGED <<secret, written, adapter, loads, known, spoiled>>

(* The page of the secrets: a value is set or rotated, a path is removed   *)
(* from the command line, and no adapter is told.                          *)
Elsewhere(f, value) ==
    /\ secret' = [secret EXCEPT ![f] = value]
    /\ spoiled' = Disturb({})
    /\ UNCHANGED <<adapter, loads, click, known>>

SetElsewhere ==
    /\ written < MaxValues /\ written' = written + 1
    /\ \E f \in Paths : Elsewhere(f, written')

RotateElsewhere ==
    /\ written < MaxValues /\ written' = written + 1
    /\ \E f \in Paths : secret[f] # 0 /\ Elsewhere(f, written')

DeleteElsewhere ==
    /\ UNCHANGED written
    /\ \E f \in Paths : secret[f] # 0 /\ Elsewhere(f, 0)

ProvidersNext ==
    \/ Restart \/ SetElsewhere \/ RotateElsewhere \/ DeleteElsewhere
    \/ \E a \in Clicks :
        \/ Open(a) \/ BeginSave(a) \/ BeginRemove(a) \/ PostSecret(a) \/ DeleteSecret(a)
        \/ Reload(a) \/ Reloaded(a) \/ FinishSave(a) \/ PageFails(a)

ProvidersSpec == ProvidersInit /\ [][ProvidersNext]_providerVars
-----------------------------------------------------------------------------
\* Types; an adapter of the table has a value for every field of its provider
\* (router.ts:160-205).
ProvidersTypeOK ==
    /\ secret \in [Paths -> 0..written] /\ written \in 0..MaxValues
    /\ \A p \in LlmProviders :
        adapter[p] \in [on: BOOLEAN, keys: [FieldsOf[p] -> 0..written]]
    /\ \A x \in loads : x.of \in Clicks /\ x.rows \in [Paths -> 0..written]
    /\ \A a \in Clicks : click[a].left \subseteq Paths
    /\ spoiled \subseteq Clicks

\* When a page says that a provider is configured, requests go out with the keys
\* that are in the table, unless another save or removal, of this page or another,
\* a change elsewhere, a restart or a load got in between or the load's query
\* failed, which the page is not told (LLMProvidersPage.tsx:75-95,
\* router.ts:127-213).
SavedIsServed ==
    \A a \in Clicks :
        click[a].op = "saved" /\ a \notin spoiled /\ Present(click[a].of, secret) =>
            adapter[click[a].of].keys = Keys(click[a].of, secret)
=============================================================================
