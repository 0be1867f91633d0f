----------------------------- MODULE Delegation -----------------------------
(***************************************************************************)
(* An agent hands a task to another: the delegate's session is given its   *)
(* own manifest, narrowed by the delegator's, both as they are when they   *)
(* are read.  Manifests are saved, and agents archived, meanwhile.         *)
(***************************************************************************)
EXTENDS Naturals

CONSTANTS Tools, Values,       \* tools, and the arguments one may be called with
          Hosts, Domains,      \* hosts, and the names manifests list,
          HostsOf,             \* with the hosts each matches; "*.x" matches several
          Secrets, Topics,     \* secret paths, and topics of messages
          ManifestsOf,         \* the manifests each agent may have
          MaxSaves             \* bound: saves of a manifest

(* What a manifest says of one tool, and what it says.                     *)
ToolGrants ==
    [listed: BOOLEAN, enabled: BOOLEAN, set: BOOLEAN, values: SUBSET Values,
     limit: Nat, approval: BOOLEAN]

AllManifests ==
    [tools: [Tools -> ToolGrants], only: BOOLEAN, domains: SUBSET Domains,
     topics: SUBSET Topics, secrets: SUBSET Secrets]

ASSUME DelegationAssumption ==
    /\ HostsOf \in [Domains -> SUBSET Hosts]
    /\ ManifestsOf \subseteq AllManifests
    /\ MaxSaves \in Nat

VARIABLES manifest,  \* the newest manifest of the two agents
          delegating, \* the tool that hands over is enabled in the delegator's
          target,    \* the delegate's status
          saves,
          handover,  \* the request, with the manifests it has read
          child      \* the delegate's session: its row, and its context

delegationVars == <<manifest, delegating, target, saves, handover, child>>

NoLimit == 0
\* Mutated: the looser of two limits.
LooserOf(a, b) == IF a = NoLimit \/ b = NoLimit THEN NoLimit ELSE IF a < b THEN b ELSE a
(* minOptional.                                                            *)
Smaller(a, b) == IF a = NoLimit THEN b ELSE IF b = NoLimit THEN a ELSE IF a < b THEN a ELSE b

(* Parameters that are set replace the delegator's, limits and approvals   *)
(* are the stricter of the two.                                            *)
NarrowTool(p, c) ==
    [listed   |-> p.listed /\ c.listed,
     enabled  |-> p.enabled /\ c.enabled,
     set      |-> c.set \/ p.set,
     values   |-> IF c.set THEN c.values ELSE p.values,
     limit    |-> Smaller(p.limit, c.limit),
     approval |-> p.approval \/ c.approval]

(* One list that allows decides, less what the other blocks by the same    *)
(* name; two that block are put together.                                  *)
NarrowDomains(p, c) ==
    IF p.only THEN IF c.only THEN p.domains \cap c.domains ELSE p.domains \ c.domains
    ELSE IF c.only THEN c.domains \ p.domains ELSE p.domains \cup c.domains

(* intersectArrays: an empty list allows every topic.                      *)
NarrowTopics(p, c) ==
    IF p.topics = {} THEN c.topics
    ELSE IF c.topics = {} THEN p.topics ELSE p.topics \cap c.topics

Narrow(p, c) ==
    [tools   |-> [t \in Tools |-> NarrowTool(p.tools[t], c.tools[t])],
     only    |-> p.only \/ c.only,
     domains |-> NarrowDomains(p, c),
     topics  |-> NarrowTopics(p, c),
     secrets |-> p.secrets \cap c.secrets]

(* What a manifest lets an agent do.                                       *)
Usable(m) == {t \in Tools : m.tools[t].listed /\ m.tools[t].enabled}
Arguments(m, t) == IF m.tools[t].set THEN m.tools[t].values ELSE Values
Listed(m) == UNION {HostsOf[d] : d \in m.domains}
Reachable(m) == IF m.only THEN Listed(m) ELSE Hosts \ Listed(m)
Discussed(m) == IF m.topics = {} THEN Topics ELSE m.topics
-----------------------------------------------------------------------------
Stages == {"none", "found", "parent", "narrowed", "inserted", "context", "success", "error"}
NoHandover == [at |-> "none", parent |-> {}, own |-> {}]
NoChild == [row |-> FALSE, context |-> FALSE, task |-> FALSE,
            tools |-> {}, manifest |-> {}]
HandsOver(at) == handover' = [handover EXCEPT !.at = at]
Failed == handover' = [handover EXCEPT !.at = "error"]

DelegationInit ==
    /\ manifest \in [{"parent", "child"} -> ManifestsOf] /\ delegating \in BOOLEAN
    /\ target = "active" /\ saves = 0
    /\ handover = NoHandover /\ child = NoChild

SavesManifest(a, m) ==
    /\ saves < MaxSaves /\ saves' = saves + 1
    /\ manifest' = [manifest EXCEPT ![a] = m]
    /\ UNCHANGED <<delegating, target, handover, child>>

TargetArchived ==
    /\ target = "active" /\ target' = "archived"
    /\ UNCHANGED <<manifest, delegating, saves, handover, child>>

FindTarget ==
    /\ handover.at = "none"
    /\ IF target = "active" THEN HandsOver("found") ELSE Failed
    /\ UNCHANGED <<manifest, delegating, target, saves, child>>

(* The delegator's manifest must enable the tool that hands over.          *)
ReadParent ==
    /\ handover.at = "found"
    /\ IF delegating
       THEN handover' = [handover EXCEPT !.at = "parent", !.parent = {manifest["parent"]}]
       ELSE Failed
    /\ UNCHANGED <<manifest, delegating, target, saves, child>>

ReadOwn ==
    /\ handover.at = "parent"
    /\ handover' = [handover EXCEPT !.at = "narrowed", !.own = {manifest["child"]}]
    /\ UNCHANGED <<manifest, delegating, target, saves, child>>

Parent == CHOOSE m \in handover.parent : TRUE
Own == CHOOSE m \in handover.own : TRUE

InsertChild ==
    /\ handover.at = "narrowed" /\ HandsOver("inserted")
    /\ child' = [child EXCEPT !.row = TRUE]
    /\ UNCHANGED <<manifest, delegating, target, saves>>

(* The context lists the tools that stay enabled, without the one that     *)
(* hands over: a delegate does not delegate.                               *)
SetContext ==
    /\ handover.at = "inserted" /\ HandsOver("context")
    /\ LET effective == Narrow(Parent, Own) IN
        child' = [child EXCEPT !.context = TRUE, !.tools = Usable(effective),
                               !.manifest = {effective}]
    /\ UNCHANGED <<manifest, delegating, target, saves>>

SetTask ==
    /\ handover.at = "context" /\ HandsOver("success")
    /\ child' = [child EXCEPT !.task = TRUE]
    /\ UNCHANGED <<manifest, delegating, target, saves>>

(* A statement throws: what was written stays.                             *)
HandoverFails ==
    /\ handover.at \notin {"none", "error", "success"} /\ Failed
    /\ UNCHANGED <<manifest, delegating, target, saves, child>>

DelegationNext ==
    \/ \E a \in {"parent", "child"}, m \in ManifestsOf : SavesManifest(a, m)
    \/ TargetArchived \/ FindTarget \/ ReadParent \/ ReadOwn \/ InsertChild
    \/ SetContext \/ SetTask \/ HandoverFails

DelegationSpec == DelegationInit /\ [][DelegationNext]_delegationVars
-----------------------------------------------------------------------------
\* Types; a session has its task after its context, and its context after its row
\* (delegator.ts:117-165).
DelegationTypeOK ==
    /\ target \in {"active", "archived"} /\ saves \in 0..MaxSaves
    /\ handover.at \in Stages
    /\ child.tools \subseteq Tools
    /\ (child.task => child.context) /\ (child.context => child.row)
    /\ handover.at = "success" => child.task

(* What one limit allows another does not exceed.                          *)
Within(a, b) == b = NoLimit \/ (a # NoLimit /\ a <= b)

(* The delegator's manifest p grants whatever m does, with tools called    *)
(* with any arguments, topics aside.                                       *)
Covers(p, m) ==
    /\ \A t \in Usable(m) :
        /\ t \in Usable(p)
        /\ p.tools[t].approval => m.tools[t].approval
        /\ Within(m.tools[t].limit, p.tools[t].limit)
    /\ m.secrets \subseteq p.secrets
    /\ (p.only \/ ~m.only) => Reachable(m) \subseteq Reachable(p)

\* The delegate's session is given no tool, secret path or host the manifest of the
\* delegator lacks, as it was read, with no looser limit and no approval less; of hosts
\* this is said where the delegator's manifest lists what it allows, or neither does
\* (capability-narrowing.ts:16-187, delegator.ts:64-195).
DelegatesNoMore ==
    child.context =>
        /\ child.tools \subseteq Usable(Parent)
        /\ \A m \in child.manifest : Covers(Parent, m)

\* "B cannot gain capabilities A doesn't have" (capability-narrowing.ts:14): nothing the
\* narrowed manifest allows, arguments and topics included, is denied to the delegator.
NothingIsGained ==
    child.context => \A m \in child.manifest :
        /\ \A t \in Usable(m) : Arguments(m, t) \subseteq Arguments(Parent, t)
        /\ Discussed(m) \subseteq Discussed(Parent)
        /\ Reachable(m) \subseteq Reachable(Parent)
=============================================================================
