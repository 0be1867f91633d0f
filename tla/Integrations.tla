--------------------------- MODULE Integrations ---------------------------
(***************************************************************************)
(* One integration of a workspace, built in or defined by an administrator,*)
(* its credentials in the table secrets, and the pages that list, test,    *)
(* configure, define and delete it.  What a page was asked to do goes on   *)
(* beside what it is asked next.                                           *)
(*                                                                         *)
(* Credentials are saved one request after the other, with a marker last;  *)
(* deleting a definition takes two statements; a list is read in two, and  *)
(* a page can use it after everything has changed.                         *)
(***************************************************************************)
EXTENDS FiniteSets

CONSTANTS Boards,          \* open pages of the integrations
          Errands,         \* what can go on at the same time,
          OnBoard,         \* and on which page
          SecretFields,    \* fields the integration can have
          RequiredFields   \* those it cannot do without

ASSUME IntegrationsAssumption ==
    /\ SecretFields # {} /\ RequiredFields \subseteq SecretFields
    /\ OnBoard \in [Errands -> Boards]

VARIABLES custom,    \* the integration is defined by administrators
          fields,    \* its fields, none while it is not defined
          stored,    \* of its paths, those with a row in secrets
          board,     \* the status each page shows
          errand,    \* what goes on
          escaped,   \* a secret could be written or kept after the deletion
          behind     \* pages that do not know of a change: somebody else's, or
                     \* their own that stopped halfway or overtook an answer

integrationVars == <<custom, fields, stored, board, errand, escaped, behind>>

SecretPaths == SecretFields \cup {"marker"}
Defined == fields # {}
Pathed == IF Defined THEN fields \cup {"marker"} ELSE {}

\* What is going on; paths are still to save, or to look for.
Going(does, paths) ==
    [does |-> does, paths |-> paths, status |-> "absent", stale |-> FALSE]
Quiet == Going("nothing", {})
Reading == {"listing", "listed", "tested", "retested"}

IntegrationsInit ==
    /\ custom \in BOOLEAN
    /\ fields = IF custom THEN {} ELSE SecretFields
    /\ stored = {} /\ escaped = FALSE /\ behind = {}
    /\ board = [b \in Boards |-> "absent"]
    /\ errand = [k \in Errands |-> Quiet]

Doing(k) == errand[k].does
Now(k, does) == [errand EXCEPT ![k] = Going(does, {})]
Resting(b) == \A k \in Errands : OnBoard[k] = b => Doing(k) = "nothing"

(* A change of the tables: what was read before is old, and the other pages*)
(* do not hear of it.                                                      *)
Changes(k, item) ==
    errand' = [j \in Errands |->
               IF j = k THEN item
               ELSE [errand[j] EXCEPT !.stale = @ \/ errand[j].does \in Reading]]
Overtaken(k) == behind \cup (Boards \ {OnBoard[k]})
-----------------------------------------------------------------------------
(* What is listed: any stored path makes it connected.                     *)
ListedStatus(paths) ==
    IF paths = {} THEN "absent"
    ELSE IF stored \cap paths # {} THEN "connected" ELSE "disconnected"

(* POST /integrations/:id/test wants the required fields.  The identifier  *)
(* of a custom integration has a slash, and its route is not found.        *)
Tested ==
    CASE custom -> "error"
      [] ~custom /\ stored = {} -> "disconnected"
      [] ~custom /\ stored # {} /\ RequiredFields \ stored # {} -> "error"
      [] ~custom /\ stored # {} /\ RequiredFields \ stored = {} -> "connected"

LoadBoard(k) ==
    /\ Doing(k) = "nothing"
    /\ errand' = Now(k, "reload")
    /\ UNCHANGED <<custom, fields, stored, board, escaped, behind>>

(* GET /integrations: the definitions, and then the rows of their paths.   *)
ReadDefinitions(k) ==
    /\ Doing(k) = "reload"
    /\ errand' = [errand EXCEPT ![k] = Going("listing", Pathed)]
    /\ UNCHANGED <<custom, fields, stored, board, escaped, behind>>

ReadPaths(k) ==
    /\ Doing(k) = "listing"
    /\ errand' = [errand EXCEPT ![k].does = "listed", ![k].status = ListedStatus(errand[k].paths),
                          ![k].paths = {}]
    /\ UNCHANGED <<custom, fields, stored, board, escaped, behind>>

(* The page uses an answer, however old it is by then.                     *)
UseList(k) ==
    /\ Doing(k) = "listed"
    /\ board' = [board EXCEPT ![OnBoard[k]] = errand[k].status]
    /\ behind' = IF errand[k].stale THEN behind \cup {OnBoard[k]} ELSE behind \ {OnBoard[k]}
    /\ errand' = Now(k, "nothing")
    /\ UNCHANGED <<custom, fields, stored, escaped>>

(* loadIntegrations: an error empties the list.                            *)
ListFails(k) ==
    /\ Doing(k) \in {"reload", "listing", "listed"}
    /\ board' = [board EXCEPT ![OnBoard[k]] = "absent"]
    /\ errand' = Now(k, "nothing")
    /\ UNCHANGED <<custom, fields, stored, escaped, behind>>

(* testConnection, of an integration that is listed.                       *)
ClickTest(k) ==
    /\ Doing(k) = "nothing" /\ board[OnBoard[k]] # "absent"
    /\ errand' = Now(k, "test")
    /\ UNCHANGED <<custom, fields, stored, board, escaped, behind>>

ServeTest(k) ==
    /\ Doing(k) \in {"test", "retest"}
    /\ errand' = [errand EXCEPT ![k].does = IF @ = "test" THEN "tested" ELSE "retested",
                          ![k].status = Tested]
    /\ UNCHANGED <<custom, fields, stored, board, escaped, behind>>

(* The test after a save is followed by a list.                            *)
UseTest(k) ==
    /\ Doing(k) \in {"tested", "retested"}
    /\ board' = [board EXCEPT ![OnBoard[k]] = IF @ = "absent" THEN @ ELSE errand[k].status]
    /\ behind' = IF errand[k].stale THEN behind \cup {OnBoard[k]} ELSE behind \ {OnBoard[k]}
    /\ errand' = Now(k, IF Doing(k) = "tested" THEN "nothing" ELSE "reload")
    /\ UNCHANGED <<custom, fields, stored, escaped>>

TestFails(k) ==
    /\ Doing(k) \in {"test", "retest", "tested", "retested"}
    /\ board' = [board EXCEPT ![OnBoard[k]] = IF @ = "absent" THEN @ ELSE "error"]
    /\ errand' = Now(k, IF Doing(k) \in {"test", "tested"} THEN "nothing" ELSE "reload")
    /\ UNCHANGED <<custom, fields, stored, escaped, behind>>
-----------------------------------------------------------------------------
(* handleSaveCredentials: the fields that were filled in, the marker, a    *)
(* test, and the list again.  A failure leaves what is done as it is.      *)
Configure(k) ==
    /\ Doing(k) = "nothing" /\ board[OnBoard[k]] # "absent"
    /\ \E filled \in SUBSET SecretFields :
        errand' = [errand EXCEPT ![k] = Going("fields", filled)]
    /\ UNCHANGED <<custom, fields, stored, board, escaped, behind>>

StoreSecret(k, path) ==
    /\ stored' = stored \cup {path}
    /\ escaped' = (escaped \/ ~Defined)
    /\ behind' = Overtaken(k)
    /\ UNCHANGED <<custom, fields, board>>

SaveField(k) ==
    /\ Doing(k) = "fields"
    /\ \E f \in errand[k].paths :
        StoreSecret(k, f) /\ Changes(k, Going("fields", errand[k].paths \ {f}))

SaveMarker(k) ==
    /\ Doing(k) = "fields" /\ errand[k].paths = {}
    /\ StoreSecret(k, "marker")
    /\ Changes(k, Going("retest", {}))

SaveStops(k) ==
    /\ Doing(k) = "fields" /\ errand' = Now(k, "nothing")
    /\ behind' = behind \cup {OnBoard[k]}
    /\ UNCHANGED <<custom, fields, stored, board, escaped>>
-----------------------------------------------------------------------------
(* Custom integrations.  POST refuses a slug that is there.                *)
Define(k) ==
    /\ custom /\ ~Defined /\ Doing(k) = "nothing"
    /\ fields' \in (SUBSET SecretFields) \ {{}}
    /\ Changes(k, Going("reload", {}))
    /\ behind' = Overtaken(k)
    /\ UNCHANGED <<custom, stored, board, escaped>>

(* PUT, which no page calls, changes the fields and no secret.             *)
Redefine ==
    /\ custom /\ Defined
    /\ fields' \in (SUBSET SecretFields) \ {{}}
    /\ behind' = Boards
    /\ errand' = [k \in Errands |-> [errand[k] EXCEPT !.stale = @ \/ errand[k].does \in Reading]]
    /\ UNCHANGED <<custom, stored, board, escaped>>

(* DELETE: the row, and in a second statement the secrets.                 *)
Delete(k) ==
    /\ custom /\ Defined /\ Doing(k) = "nothing" /\ board[OnBoard[k]] # "absent"
    /\ fields' = {}
    /\ Changes(k, Going("cleanup", {}))
    /\ behind' = Overtaken(k)
    /\ UNCHANGED <<custom, stored, board, escaped>>

\* Mutated: the marker is under another prefix and stays.
CleanUpFields(k) ==
    /\ Doing(k) = "cleanup"
    /\ stored' = stored \ SecretFields /\ escaped' = FALSE
    /\ Changes(k, Going("reload", {}))
    /\ behind' = Overtaken(k)
    /\ UNCHANGED <<custom, fields, board>>

CleanUp(k) ==
    /\ Doing(k) = "cleanup"
    /\ stored' = {} /\ escaped' = FALSE
    /\ Changes(k, Going("reload", {}))
    /\ behind' = Overtaken(k)
    /\ UNCHANGED <<custom, fields, board>>

(* The second statement fails, and a second try finds no row.              *)
CleanUpFails(k) ==
    /\ Doing(k) = "cleanup"
    /\ escaped' = TRUE
    /\ errand' = Now(k, "nothing") /\ behind' = behind \cup {OnBoard[k]}
    /\ UNCHANGED <<custom, fields, stored, board>>

IntegrationsNext ==
    \/ Redefine
    \/ \E k \in Errands :
        \/ LoadBoard(k) \/ ReadDefinitions(k) \/ ReadPaths(k) \/ UseList(k) \/ ListFails(k)
        \/ ClickTest(k) \/ ServeTest(k) \/ UseTest(k) \/ TestFails(k)
        \/ Configure(k) \/ SaveField(k) \/ SaveMarker(k) \/ SaveStops(k)
        \/ Define(k) \/ Delete(k) \/ CleanUp(k) \/ CleanUpFails(k)

IntegrationsSpec == IntegrationsInit /\ [][IntegrationsNext]_integrationVars
-----------------------------------------------------------------------------
\* Types; a built-in integration keeps its fields (integrations.ts:434-724,
\* IntegrationsPage.tsx:298-383).
IntegrationsTypeOK ==
    /\ custom \in BOOLEAN /\ escaped \in BOOLEAN
    /\ fields \subseteq SecretFields /\ (~custom => fields = SecretFields)
    /\ stored \subseteq SecretPaths /\ behind \subseteq Boards
    /\ \A b \in Boards : board[b] \in {"absent", "connected", "disconnected", "error"}
    /\ \A k \in Errands : errand[k].paths \subseteq SecretPaths /\ errand[k].stale \in BOOLEAN

(* What a status says of the credentials.                                  *)
StatusIsSo(status) ==
    /\ status = "connected" => stored \cap Pathed # {}
    /\ status = "disconnected" => Defined /\ stored \cap Pathed = {}

\* A deleted integration leaves no credentials, unless a save went on beside the
\* deletion or its second statement failed.  And a page on which nothing goes on
\* shows whether it has any, however its lists, tests, saves and deletions
\* overlapped, unless another page, or a save or deletion of its own that failed
\* halfway, left it behind, or it used an answer that was read before a change
\* (integrations.ts:434-455, 472-506, 634-657, IntegrationsPage.tsx:305-383).
CredentialsGoWithIntegration ==
    /\ ~Defined /\ stored # {} =>
        escaped \/ \E k \in Errands : Doing(k) = "cleanup"
    /\ \A b \in Boards \ behind : Resting(b) => StatusIsSo(board[b])
=============================================================================
