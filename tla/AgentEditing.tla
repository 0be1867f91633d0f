--------------------------- MODULE AgentEditing ---------------------------
(***************************************************************************)
(* One agent of a workspace and the skills that are applied to it: the     *)
(* routes of agents and skills, and the pages that call them, the list of  *)
(* agents, the editor of one, and the page of the skills.                  *)
(*                                                                         *)
(* A page keeps what it has read and changes it when its own requests are  *)
(* answered; nothing tells it what other pages do.  Of the fields of an    *)
(* agent the system prompt is modelled, named by who typed it; the name    *)
(* and the model are read and written with it.  Archiving sets a status    *)
(* that nothing here reads, and is left out.                               *)
(***************************************************************************)
EXTENDS FiniteSets

CONSTANTS Staff,    \* pages of administrators
          Skills     \* skill bundles

\* A page is not the word for no row.
ASSUME AgentAssumption == "none" \notin Staff

VARIABLES agent,     \* row of agents: its prompt, "none" while there is no row
          installed, \* rows of skills
          applied,   \* rows of agent_skills for the agent
          editor,       \* what each page shows and is doing
          outdated   \* pages that do not know of a change they did not make

agentVars == <<agent, installed, applied, editor, outdated>>

PromptTexts == Staff \cup {"empty", "initial"}
NoRequest == [does |-> "none", step |-> "none", skills |-> {}]
NoTab == [at |-> "list", read |-> FALSE, typed |-> FALSE, text |-> "empty",
          skills |-> {}, known |-> {}, request |-> NoRequest]

AgentInit ==
    /\ agent \in {"none", "initial"}
    /\ installed = {} /\ applied = {}
    /\ editor = [a \in Staff |-> NoTab] /\ outdated = {}

Exists == agent # "none"
OtherTabs(a) == {b \in Staff \ {a} : editor[b].at # "list"}
-----------------------------------------------------------------------------
(* AgentEditorPage reads the agent and, as far as the requests succeed,    *)
(* its skills and the installed ones.                                      *)
OpenEditor(a) ==
    /\ editor[a].at = "list" /\ editor[a].request = NoRequest /\ Exists
    /\ \E skills \in {applied, {}}, all \in {installed, {}} :
        editor' = [editor EXCEPT ![a] = [NoTab EXCEPT !.at = "editor", !.skills = skills,
                                                !.known = all]]
    /\ outdated' = outdated \ {a}
    /\ UNCHANGED <<agent, installed, applied>>

OpenSkills(a) ==
    /\ editor[a].at = "list" /\ editor[a].request = NoRequest
    /\ editor' = [editor EXCEPT ![a] = [NoTab EXCEPT !.at = "skills", !.known = installed]]
    /\ outdated' = outdated \ {a}
    /\ UNCHANGED <<agent, installed, applied>>

Leave(a) ==
    /\ editor[a].at # "list" /\ editor[a].request = NoRequest
    /\ editor' = [editor EXCEPT ![a] = NoTab]
    /\ UNCHANGED <<agent, installed, applied, outdated>>

(* The editor's second request for the agent brings the prompt, and        *)
(* replaces what has been typed before.                                    *)
LoadPrompt(a) ==
    /\ editor[a].at = "editor" /\ ~editor[a].read
    /\ editor' = [editor EXCEPT ![a].read = TRUE, ![a].typed = FALSE, ![a].text = agent]
    /\ UNCHANGED <<agent, installed, applied, outdated>>

Type(a) ==
    /\ editor[a].at = "editor"
    /\ editor' = [editor EXCEPT ![a].typed = TRUE, ![a].text = a]
    /\ UNCHANGED <<agent, installed, applied, outdated>>

(* The requests a page can make: the editor saves and applies or removes   *)
(* skills, the page of the skills installs, removes and applies.  Bound of *)
(* the model: one request of a page at a time.                             *)
Offers(a, does, s) ==
    CASE does = "save" -> editor[a].at = "editor"
      [] does = "unapply" -> editor[a].at = "editor" /\ s \in editor[a].skills
      [] does = "apply" -> \/ editor[a].at = "editor" /\ s \in editor[a].known \ editor[a].skills
                           \/ editor[a].at = "skills" /\ s \in editor[a].known /\ Exists
      [] does = "install" -> editor[a].at = "skills" /\ s \notin editor[a].known
      [] does = "remove" -> editor[a].at = "skills" /\ s \in editor[a].known

Ask(a) ==
    /\ editor[a].request = NoRequest
    /\ \E does \in {"save", "unapply", "apply", "install", "remove"}, s \in Skills :
        /\ Offers(a, does, s)
        /\ editor' = [editor EXCEPT ![a].request =
                      [does |-> does, step |-> "asked",
                       skills |-> IF does = "save" THEN {} ELSE {s}]]
    /\ UNCHANGED <<agent, installed, applied, outdated>>

Asks(a, does, step) == editor[a].request.does = does /\ editor[a].request.step = step
Done(a) == editor' = [editor EXCEPT ![a].request.step = "done"]
-----------------------------------------------------------------------------
(* The routes.                                                             *)

(* POST /agents, from the list.                                            *)
CreateAgent(a) ==
    /\ editor[a] = NoTab /\ ~Exists
    /\ agent' \in {"empty", a}
    /\ UNCHANGED <<installed, applied, editor, outdated>>

(* PUT /agents/:id: the whole form, also a prompt that was never read.     *)
PutAgent(a) ==
    /\ Asks(a, "save", "asked")
    /\ agent' = editor[a].text
    /\ Done(a)
    /\ outdated' = outdated \cup OtherTabs(a)
    /\ UNCHANGED <<installed, applied>>

(* POST /skills/agents/:agentId: is the skill installed, and then insert.  *)
CheckSkill(a) ==
    /\ Asks(a, "apply", "asked") /\ editor[a].request.skills \subseteq installed
    /\ editor' = [editor EXCEPT ![a].request.step = "checked"]
    /\ UNCHANGED <<agent, installed, applied, outdated>>

ApplySkill(a) ==
    /\ Asks(a, "apply", "checked")
    /\ applied' = applied \cup editor[a].request.skills
    /\ Done(a)
    /\ outdated' = outdated \cup OtherTabs(a)
    /\ UNCHANGED <<agent, installed>>

UnapplySkill(a) ==
    /\ Asks(a, "unapply", "asked")
    /\ applied' = applied \ editor[a].request.skills
    /\ Done(a)
    /\ outdated' = outdated \cup OtherTabs(a)
    /\ UNCHANGED <<agent, installed>>

(* POST /skills/install inserts or updates.                                *)
InstallSkill(a) ==
    /\ Asks(a, "install", "asked")
    /\ installed' = installed \cup editor[a].request.skills
    /\ Done(a)
    /\ outdated' = outdated \cup OtherTabs(a)
    /\ UNCHANGED <<agent, applied>>

(* DELETE /skills/:name leaves the rows of agent_skills; a missing skill   *)
(* is an error.                                                            *)
RemoveSkill(a) ==
    /\ Asks(a, "remove", "asked") /\ editor[a].request.skills \subseteq installed
    /\ installed' = installed \ editor[a].request.skills
    /\ Done(a)
    /\ outdated' = outdated \cup OtherTabs(a)
    /\ UNCHANGED <<agent, applied>>
-----------------------------------------------------------------------------
(* What a page makes of the answer.                                        *)

\* Mutated: a removed skill stays in the editor's list.
PageAnsweredKeeping(t, does) ==
    CASE does = "save" -> NoTab
      [] does = "apply" -> IF t.at = "editor"
                           THEN [t EXCEPT !.skills = @ \cup t.request.skills, !.request = NoRequest]
                           ELSE [t EXCEPT !.request = NoRequest]
      [] does = "install" -> [t EXCEPT !.known = installed, !.request = NoRequest]
      [] does = "remove" -> [t EXCEPT !.known = @ \ t.request.skills, !.request = NoRequest]
      [] does = "unapply" -> [t EXCEPT !.request = NoRequest]

PageAnswered(t, does) ==
    CASE does = "save" -> NoTab
      [] does = "apply" -> IF t.at = "editor"
                           THEN [t EXCEPT !.skills = @ \cup t.request.skills, !.request = NoRequest]
                           ELSE [t EXCEPT !.request = NoRequest]
      [] does = "unapply" -> [t EXCEPT !.skills = @ \ t.request.skills, !.request = NoRequest]
      [] does = "install" -> [t EXCEPT !.known = installed, !.request = NoRequest]
      [] does = "remove" -> [t EXCEPT !.known = @ \ t.request.skills, !.request = NoRequest]

PageHears(a) ==
    /\ editor[a].request.step = "done"
    /\ editor' = [editor EXCEPT ![a] = PageAnswered(@, @.request.does)]
    /\ UNCHANGED <<agent, installed, applied, outdated>>

(* A request fails, on the way there or back, and the page stays.          *)
RequestFails(a) ==
    /\ editor[a].request # NoRequest
    /\ editor' = [editor EXCEPT ![a].request = NoRequest]
    /\ outdated' = IF editor[a].request.step = "done" THEN outdated \cup {a} ELSE outdated
    /\ UNCHANGED <<agent, installed, applied>>

AgentNext ==
    \E a \in Staff :
        \/ OpenEditor(a) \/ OpenSkills(a) \/ Leave(a) \/ LoadPrompt(a) \/ Type(a) \/ Ask(a)
        \/ CreateAgent(a) \/ PutAgent(a) \/ CheckSkill(a)
        \/ ApplySkill(a) \/ UnapplySkill(a) \/ InstallSkill(a) \/ RemoveSkill(a)
        \/ PageHears(a) \/ RequestFails(a)

AgentSpec == AgentInit /\ [][AgentNext]_agentVars
-----------------------------------------------------------------------------
\* Types; only a page that has something open shows anything (AdminPage.tsx:78-96,
\* 251-325, SkillsPage.tsx:22-51).
AgentTypeOK ==
    /\ agent \in PromptTexts \cup {"none"}
    /\ installed \subseteq Skills /\ applied \subseteq Skills
    /\ \A a \in Staff :
        /\ editor[a].text \in PromptTexts /\ editor[a].skills \subseteq Skills
        /\ editor[a].known \subseteq Skills /\ editor[a].request.skills \subseteq Skills
        /\ editor[a].at = "list" => editor[a].skills = {} /\ editor[a].known = {}
    /\ outdated \subseteq Staff

\* An editor that nobody else got in the way of shows skills that are applied and,
\* once it has read the prompt and unless it was typed over, the prompt that is
\* stored, whatever requests failed before (AdminPage.tsx:312-325, 468-523).
EditorTellsAgent ==
    \A a \in Staff \ outdated :
        editor[a].at = "editor" /\ editor[a].request.step # "done" =>
            /\ editor[a].skills \subseteq applied
            /\ editor[a].read /\ ~editor[a].typed => editor[a].text = agent
=============================================================================
