---------------------------- MODULE MC_Services ----------------------------
(***************************************************************************)
(* Small instances, side by side, of the Core's services that share no     *)
(* state: notifications, the budget warning, unlock requests, the rate     *)
(* limiter, the lot ledger, the paper trader, the release mirror, the LLM  *)
(* router, the subscription workers and the agent's actions, and, with     *)
(* MC_Host, of the host's administration tools.  A behaviour is a          *)
(* behaviour of one of them, `part`, and leaves the variables of the       *)
(* others alone.                                                           *)
(***************************************************************************)
EXTENDS Notifier, BudgetNotice, Unlock, RateLimit, PaperLedger, PaperTrading, AppMirror,
        LlmRouter, SubscriptionWorker, AgentActions, MC_Host, TLC

\* Release documents <<version, Android code, minimum protocol>>: two claim the second
\* version, one of them with a code that does not go on.
ReleaseDocs == {<<1, 1, 1>>, <<2, 2, 1>>, <<2, 1, 1>>, <<3, 3, 1>>, <<4, 4, 2>>}
ReleaseVersion(d) == d[1]
ReleaseCode(d) == d[2]
ReleaseProtocol(d) == d[3]
ReleaseMajor(v) == IF v = 4 THEN 2 ELSE 1
ReleaseMinor(v) == IF v = 3 THEN 1 ELSE 0

\* Requests: a chat by tier, one with the owner's brain, a model of a paid provider,
\* a realtime stream and a research request.
OneAsk(kind, tier, m, only) ==
    [kind |-> kind, tier |-> tier, model |-> m, only |-> only]
SomeAsks == {OneAsk("chat", "Default", NoModel, NoModel),
             OneAsk("chat", "Default", "big", "anthropic-api"),
             OneAsk("stream", "Hard", NoModel, NoModel),
             OneAsk("research", "Hard", NoModel, NoModel)}

SomePairs == {<<"claude-cli", "big">>, <<"anthropic-api", "big">>, <<"anthropic-api", "new">>}
SomePolicy == [p \in SomePairs |-> IF p[2] = "new" THEN "absent" ELSE "on"]
SomeCatalog == <<[backend |-> "claude-cli", id |-> "big", class |-> "Heavy"],
                 [backend |-> "claude-cli", id |-> "big", class |-> "Light"],
                 [backend |-> "ollama", id |-> "small", class |-> "Light"]>>

\* No routing file; a chain per tier, with and without approval to pay behind a
\* subscription; paid APIs off; a file that cannot be used.
Entry(p, m) == [provider |-> p, model |-> m]
NoChain == [chain |-> <<>>, metered_after_subscription |-> FALSE]
Mixed == <<Entry("claude-cli", "big"), Entry("ollama", "small")>>
Chains == [t \in Tiers |->
    CASE t = "Default" -> [chain |-> Mixed, metered_after_subscription |-> FALSE]
      [] t = "Hard" -> [chain |-> Append(Mixed, Entry("anthropic-api", "big")),
                        metered_after_subscription |-> TRUE]
      [] OTHER -> NoChain]
RoutingFile(file, pay, research, tiers) ==
    [file |-> file, paid_api |-> pay, research_web_search |-> research, tiers |-> tiers]
NoChains == [t \in Tiers |-> NoChain]
NoFile == RoutingFile("absent", "allowed", "off", NoChains)
SomeRoutings == {NoFile,
                 RoutingFile("usable", "allowed", "on", Chains),
                 RoutingFile("usable", "off", "on", NoChains),
                 RoutingFile("unavailable", "allowed", "off", NoChains)}
SomeCooldowns == [f \in Failures |-> 1]

\* Actions of an agent: a file a phone can show in full, one that is protected, a
\* commit, the coding client and a read.
OneDeed(type, reviewable, path) == [type |-> type, reviewable |-> reviewable, path |-> path]
SomeDeeds == {OneDeed("write_file", TRUE, "ordinary"), OneDeed("write_file", TRUE, "protected"),
              OneDeed("git_commit", FALSE, "none"),
              OneDeed("claude_code", TRUE, "none"), OneDeed("read_file", TRUE, "ordinary")}

coreParts == {"notifier", "notice", "unlock", "logins", "passwords", "ledger", "book",
              "pause", "mirror", "router", "worker", "agent"}
\* The two halves of the limiter share its clock and its restarts only, and are looked at
\* one by one: logins by address, password checks by device.
loginVars == <<hits, failures, flying>>

\* The paper trader is looked at twice: its rows under every stepping of the clock and
\* failing transactions, in one run of Core that is not paused; then its pauses and
\* restarts, with a clock that stands still, sells that do not fail and a history that
\* can be read.
BookOnly == ~calling' /\ starts' <= 1 /\ profile' # "q" /\ ~tick'.blind
PauseOnly == costs' = costs /\ clock' = clock /\ tick'.at # "count"
             /\ (tick'.at = "exits" => tick'.intact)

ServicesInit ==
    /\ part \in coreParts \cup hostParts
    /\ HostPartInit
    /\ NotifierInit /\ NoticeInit /\ UnlockInit /\ LimitInit /\ LedgerInit /\ PaperInit
    /\ MirrorInit /\ RouterInit /\ WorkerInit /\ AgentInit
    /\ part = "router" \/ routing = NoFile
    /\ part = "worker" \/ workerCli = "claude"

ServiceNext ==
    \/ part = "notifier" /\ NotifierNext
         /\ UNCHANGED <<part, noticeVars, unlockVars, limitVars, ledgerVars, paperVars,
                        mirrorVars, routerVars, workerVars, agentVars>>
    \/ part = "notice" /\ NoticeNext
         /\ UNCHANGED <<part, notifyVars, unlockVars, limitVars, ledgerVars, paperVars,
                        mirrorVars, routerVars, workerVars, agentVars>>
    \/ part = "unlock" /\ UnlockNext
         /\ UNCHANGED <<part, notifyVars, noticeVars, limitVars, ledgerVars, paperVars,
                        mirrorVars, routerVars, workerVars, agentVars>>
    \/ /\ part \in {"logins", "passwords"} /\ LimitNext
       /\ IF part = "logins" THEN UNCHANGED checkVars ELSE UNCHANGED loginVars
       /\ UNCHANGED <<part, notifyVars, noticeVars, unlockVars, ledgerVars, paperVars,
                        mirrorVars, routerVars, workerVars, agentVars>>
    \/ part = "ledger" /\ LedgerNext
         /\ UNCHANGED <<part, notifyVars, noticeVars, unlockVars, limitVars, paperVars,
                        mirrorVars, routerVars, workerVars, agentVars>>
    \/ /\ part \in {"book", "pause"} /\ PaperNext
       /\ IF part = "book" THEN BookOnly ELSE PauseOnly
       /\ UNCHANGED <<part, notifyVars, noticeVars, unlockVars, limitVars, ledgerVars,
                        mirrorVars, routerVars, workerVars, agentVars>>
    \/ part = "mirror" /\ MirrorNext
         /\ UNCHANGED <<part, notifyVars, noticeVars, unlockVars, limitVars, ledgerVars,
                        paperVars, routerVars, workerVars, agentVars>>
    \/ part = "router" /\ RouterNext
         /\ UNCHANGED <<part, notifyVars, noticeVars, unlockVars, limitVars, ledgerVars,
                        paperVars, mirrorVars, workerVars, agentVars>>
    \/ part = "worker" /\ SubscriptionNext
         /\ UNCHANGED <<part, notifyVars, noticeVars, unlockVars, limitVars, ledgerVars,
                        paperVars, mirrorVars, routerVars, agentVars>>
    \/ part = "agent" /\ AgentNext
         /\ UNCHANGED <<part, notifyVars, noticeVars, unlockVars, limitVars, ledgerVars,
                        paperVars, mirrorVars, routerVars, workerVars>>

serviceVars == <<notifyVars, noticeVars, unlockVars, limitVars, ledgerVars, paperVars,
                 mirrorVars, routerVars, workerVars, agentVars>>
allToolVars == <<consoleVars, toolingVars, hostVars, guiVars, accountsVars, updateVars>>

ServicesNext == \/ ServiceNext /\ UNCHANGED allToolVars
                \/ HostPartNext /\ UNCHANGED serviceVars

\* Only the variables of the chosen part tell two states of a behaviour apart: the
\* others keep the one value their part's initial states leave them.
PartView ==
    CASE part = "notifier" -> <<part, notifyVars>>
      [] part = "notice" -> <<part, noticeVars>>
      [] part = "unlock" -> <<part, unlockVars>>
      [] part \in {"logins", "passwords"} -> <<part, limitVars>>
      [] part = "ledger" -> <<part, ledgerVars>>
      [] part \in {"book", "pause"} -> <<part, paperVars>>
      [] part = "mirror" -> <<part, mirrorVars>>
      [] part = "router" -> <<part, routerVars>>
      [] part = "worker" -> <<part, workerVars>>
      [] part = "agent" -> <<part, agentVars>>
      [] part = "console" -> <<part, consoleVars>>
      [] part = "tooling" -> <<part, toolingVars>>
      [] part = "commands" -> <<part, hostVars>>
      [] part = "gui" -> <<part, guiVars>>
      [] part = "accounts" -> <<part, accountsVars>>
      [] part = "update" -> <<part, updateVars>>

\* The two of a kind that meet in a part are interchangeable.  The sets of all parts
\* have the same two members, so that one exchange serves them all.
PairSymmetry == Permutations(Phones)

ServicesSpec == ServicesInit /\ [][ServicesNext]_<<part, serviceVars, allToolVars>>
=============================================================================
