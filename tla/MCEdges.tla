------------------------------- MODULE MCEdges -------------------------------
(***************************************************************************)
(* Instances of the parts around the core that share no state: the model   *)
(* adapters, the tables that administrators edit and their pages, the      *)
(* channels, sign-in, archives, and delegation.  One run checks them side  *)
(* by side, as MCServices does: a behaviour is of one part, chosen in its  *)
(* initial state, with the others at rest.                                 *)
(***************************************************************************)
EXTENDS LlmAdapters, ModelProviders, ManifestVersions, AgentEditing,
        Integrations, SlackThreads, ChatConnection, MailPolling,
        ChannelAdapters, Archives, Lockout, BrowserSignIn, Delegation,
        WorkspaceAccess

CONSTANT EdgeParts      \* those a run is about

VARIABLE part       \* the one this behaviour is about

vars == <<part, adapterVars, providerVars, manifestVars, agentVars,
          integrationVars, slackVars, chatVars, mailVars, channelVars,
          archiveVars, lockoutVars, browserVars, delegationVars, accessVars>>

-----------------------------------------------------------------------------
(* Values of the constants.                                                *)

\* One provider with a key pair, one with a key that the environment may hold.
ProviderFields == [pair |-> {"id", "key"}, single |-> {"api"}]

\* Both saves are made on one page, and what two pages of integrations are asked for
\* on the first of them but for the last.
OnOnePage == [a \in Clicks |-> "page"]
BesideEachOther == [k \in Errands |-> IF k = "k3" THEN "a2" ELSE "a1"]

\* The third message is of a thread of its own.
SlackThreadOf == [m \in SlackMessages |-> IF m = "m3" THEN "u" ELSE "t"]

\* Each mail answers the one before, but for the fifth, which answers the first.
MailChain == [m \in Mails |-> IF m = 5 THEN 1 ELSE m - 1]

\* Texts of one character and of four, with blanks at each place, and one that
\* begins with a blank chunk.
Blanked ==
    {<<"x">>, <<" ", " ", "x">>}
        \cup {<<"x">> \o t : t \in [1 .. 3 -> {"x", " ", "nl"}]}

\* A wildcard that stands for both hosts.
WildHosts == [d \in Domains |-> IF d = "*.x" THEN Hosts ELSE {d}]

PlainTool == [listed |-> TRUE, enabled |-> TRUE, set |-> FALSE, values |-> {},
              limit |-> 0, approval |-> FALSE]

ToolVariants ==
    {[PlainTool EXCEPT !.limit = n] : n \in 0 .. 2}
    \cup {[PlainTool EXCEPT !.listed = FALSE], [PlainTool EXCEPT !.enabled = FALSE],
          [PlainTool EXCEPT !.approval = TRUE]}
    \cup {[PlainTool EXCEPT !.set = TRUE, !.values = v] : v \in {{"v1"}, {"v1", "v2"}}}

PlainManifest ==
    [tools |-> [t \in Tools |-> PlainTool], only |-> FALSE, domains |-> {},
     topics |-> {}, secrets |-> Secrets]

\* Manifests that differ from the plain one in one of the things narrowed.
ManifestVariants ==
    {[PlainManifest EXCEPT !.tools = [t \in Tools |-> v]] : v \in ToolVariants}
    \cup {[PlainManifest EXCEPT !.only = o, !.domains = d] :
             o \in BOOLEAN, d \in {{}} \cup {{x} : x \in Domains}}
    \cup {[PlainManifest EXCEPT !.topics = {q}] : q \in Topics}
    \cup {[PlainManifest EXCEPT !.secrets = k] : k \in SUBSET Secrets}

-----------------------------------------------------------------------------
(* A part at rest is in one of its initial states.                         *)
RestingParts ==
    /\ part # "adapters" => provider = CHOOSE p \in Providers : TRUE
    /\ part # "manifests" => versions = {}
    /\ part \notin {"agents", "skills"} => agent = "none"
    /\ part \notin {"integrations", "boards"} => custom = TRUE
    /\ part # "channels" => channel = CHOOSE a \in AdapterNames : TRUE
    /\ part # "archives" => kind = "backup"
    /\ part # "lockout" => mfa = FALSE
    /\ part # "browser" => founded = TRUE
    /\ part # "delegation" =>
           /\ manifest = [a \in {"parent", "child"} |-> PlainManifest]
           /\ delegating = TRUE

Init ==
    /\ part \in EdgeParts /\ RestingParts
    /\ AdaptersInit /\ ProvidersInit /\ ManifestInit /\ AgentInit
    /\ IntegrationsInit /\ SlackInit /\ ChatInit /\ MailInit /\ ChannelsInit
    /\ ArchivesInit /\ LockoutInit /\ BrowserInit /\ DelegationInit
    /\ AccessInit

Rest ==
    /\ UNCHANGED part
    /\ part # "adapters" => UNCHANGED adapterVars
    /\ part # "providers" => UNCHANGED providerVars
    /\ part # "manifests" => UNCHANGED manifestVars
    /\ part \notin {"agents", "skills"} => UNCHANGED agentVars
    /\ part \notin {"integrations", "boards"} => UNCHANGED integrationVars
    /\ part \notin {"slack", "buttons"} => UNCHANGED slackVars
    /\ part \notin {"chat", "sockets"} => UNCHANGED chatVars
    /\ part \notin {"mail", "oddmail"} => UNCHANGED mailVars
    /\ part # "channels" => UNCHANGED channelVars
    /\ part # "archives" => UNCHANGED archiveVars
    /\ part # "lockout" => UNCHANGED lockoutVars
    /\ part # "browser" => UNCHANGED browserVars
    /\ part # "delegation" => UNCHANGED delegationVars
    /\ part # "access" => UNCHANGED accessVars

(* The second message is short, but for one that takes two chunks.         *)
ShortSecond == Len(out) = 2 => out[2].text \in {<< >>, OneChunk, <<"x", "x", "x">>}
(* The output filter alters the first answer, if any.                      *)
FilteredOnce == \A k \in DOMAIN heard : heard[k].flagged => k = 1

(* Each command is given an archive of its own.  The second archive has    *)
(* all parts, undamaged, and the second command is told nothing and does   *)
(* not fail; the first is told one thing at a time.                        *)
FewArchives ==
    /\ kept["b1"].made => kept["b1"].parts \in {{"main"}, Parts}
    /\ kept["b2"].damaged = {} /\ kept["b2"].parts \in {{}, Parts} /\ unpacker["u1"].asked # "b2"
    /\ unpacker["u2"].asked # "b1" /\ unpacker["u2"].said # "failed"
    /\ LET it == unpacker["u2"] IN it.verify /\ ~it.dry /\ it.skip = {} /\ ~it.inPlace
    /\ LET it == unpacker["u1"] IN
        \/ it.skip = {} /\ (it.verify \/ (~it.dry /\ ~it.inPlace))
        \/ Cardinality(it.skip) = 1 /\ it.verify /\ ~it.dry /\ ~it.inPlace

\* What touches different rows is taken apart: the prompt of an agent and its
\* skills, the threads of Slack and its buttons, mails that answer each other and mails
\* without an envelope or an identifier.  A chat has two sockets, or three and one
\* message; the second user's token does not run out, but can be given up, and the
\* second request changes, removes or registers.
\* One page of integrations is asked two things at a time, or two pages one each of a
\* definition with one field, which is the first.
Next ==
    \/ part = "adapters" /\ AdaptersNext /\ FilteredOnce' /\ Rest
    \/ part = "providers" /\ ProvidersNext /\ Rest
    \/ part = "manifests" /\ ManifestNext /\ sheet'["a2"].edits = 0 /\ Rest
    \/ part = "agents" /\ AgentNext /\ installed' = installed /\ applied' = applied /\ Rest
    \/ part = "skills" /\ AgentNext /\ agent' = agent /\ Rest
    \/ part = "integrations" /\ IntegrationsNext /\ fields' # {"f2"}
                             /\ errand'["k3"] = errand["k3"] /\ Rest
    \/ part = "boards" /\ IntegrationsNext /\ fields' \subseteq {"f1"}
                       /\ errand'["k2"] = errand["k2"]
                       /\ (\A k \in Errands : "f2" \notin errand'[k].paths) /\ Rest
    \/ part = "slack" /\ SlackNext /\ button' = button /\ asked' = asked /\ Rest
    \/ part = "buttons" /\ SlackNext /\ handler' = handler /\ Rest
    \/ part = "chat" /\ ChatNext /\ sock'[3] = sock[3] /\ Rest
    \/ part = "sockets" /\ ChatNext /\ chat'["m2"] = chat["m2"] /\ Rest
    \/ part = "mail" /\ MailNext /\ inbox'[4] = "outside" /\ inbox'[5] = "outside"
                     /\ (starts' = 2 => inbox'[3] = "outside") /\ Rest
    \/ part = "oddmail" /\ MailNext /\ inbox'[2] = "outside" /\ inbox'[3] = "outside" /\ starts' <= 1 /\ Rest
    \/ part = "channels" /\ ChannelsNext /\ ShortSecond' /\ Rest
    \/ part = "archives" /\ ArchivesNext /\ FewArchives' /\ Rest
    \/ part = "lockout" /\ LockoutNext /\ Rest
    \/ part = "browser" /\ BrowserNext /\ Rest
    \/ part = "delegation" /\ DelegationNext /\ Rest
    \/ part = "access" /\ AccessNext /\ access'["u2"] # "expired"
                       /\ todo'["r2"].kind \notin {"bootstrap", "invite"} /\ Rest

Spec == Init /\ [][Next]_vars

(* What can change: a view that tells all states apart, as the rest of them *)
(* is determined by part.                                                  *)
Moving ==
    CASE part = "adapters" -> <<part, adapterVars>>
      [] part = "providers" -> <<part, providerVars>>
      [] part = "manifests" -> <<part, manifestVars>>
      [] part \in {"agents", "skills"} -> <<part, agentVars>>
      [] part \in {"integrations", "boards"} -> <<part, integrationVars>>
      [] part \in {"slack", "buttons"} -> <<part, slackVars>>
      [] part \in {"chat", "sockets"} -> <<part, chatVars>>
      [] part \in {"mail", "oddmail"} -> <<part, mailVars>>
      [] part = "channels" -> <<part, channelVars>>
      [] part = "archives" -> <<part, archiveVars>>
      [] part = "lockout" -> <<part, lockoutVars>>
      [] part = "browser" -> <<part, browserVars>>
      [] part = "delegation" -> <<part, delegationVars>>
      [] part = "access" -> <<part, accessVars>>

-----------------------------------------------------------------------------
\* The types of the part that moves, each with the facts that its module states there
\* (llm/adapters, api/, channels/, cli/commands, web-ui, orchestration).
EdgesTypeOK ==
    /\ part = "adapters" => AdaptersTypeOK
    /\ part = "providers" => ProvidersTypeOK
    /\ part = "manifests" => ManifestTypeOK
    /\ part \in {"agents", "skills"} => AgentTypeOK
    /\ part \in {"integrations", "boards"} => IntegrationsTypeOK
    /\ part \in {"slack", "buttons"} => SlackTypeOK
    /\ part \in {"chat", "sockets"} => ChatTypeOK
    /\ part \in {"mail", "oddmail"} => MailTypeOK
    /\ part = "channels" => ChannelsTypeOK
    /\ part = "archives" => ArchivesTypeOK
    /\ part = "lockout" => LockoutTypeOK
    /\ part = "browser" => BrowserTypeOK
    /\ part = "delegation" => DelegationTypeOK
    /\ part = "access" => AccessTypeOK
=============================================================================
