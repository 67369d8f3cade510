---------------------------- MODULE AgentActions ----------------------------
(***************************************************************************)
(* Agent actions that change the workspace (crates/agent, routes/agent.rs, *)
(* crates/policy): they are proposed, wait five minutes at most for a      *)
(* signature of one of the owner's devices, are claimed by one approval    *)
(* and run in the workspace, where other processes work too.               *)
(*                                                                         *)
(* One path of the workspace is modelled with what its name leads to; a    *)
(* write resolves it first and opens it later.  Read-only actions change   *)
(* nothing and are left out.  A directory that is replaced between those   *)
(* two steps is followed, as the code says: OtherProcess does not do that. *)
(***************************************************************************)
EXTENDS Naturals, FiniteSets

CONSTANTS
    Proposals,       \* rows of agent_pending_actions
    Approvals,       \* approval requests served at once
    Gadgets,         \* the owner's devices, each named by its platform
    Deeds,           \* actions: [type |-> ..., reviewable |-> ..., path |-> ...]
    Inodes,          \* plain files the path may name
    MaxPending       \* MAX_PENDING_AGENT_ACTIONS

ASSUME AgentAssumption == Inodes \cap {"absent", "link", "away"} = {}

VARIABLES
    agentRow,   \* agent_pending_actions
    approval,   \* what each approval request has reached
    gadget,     \* which devices are active
    disk,       \* what the path names, and whether a file elsewhere was changed
    done        \* how often each action has run

agentVars == <<agentRow, approval, gadget, disk, done>>

\* action_capability, with what decide says of it.
Capability(deed) ==
    CASE deed.type \in {"write_file", "git_commit"} -> "ManageFiles"
      [] deed.type = "claude_code" -> "ExecuteCode"
      [] OTHER -> "ReadData"

\* decide for a trusted device, not approved and not reversible.
NeedsApproval(deed) == Capability(deed) \in {"ManageFiles", "ExecuteCode"}

NoRow == [status |-> "free", deed |-> CHOOSE a \in Deeds : TRUE, live |-> TRUE, by |-> "none"]
NoApproval == [at |-> "idle", id |-> "none", by |-> "none", checked |-> "none"]

AgentInit ==
    /\ agentRow = [r \in Proposals |-> NoRow]
    /\ approval = [h \in Approvals |-> NoApproval]
    /\ gadget = [g \in Gadgets |-> TRUE]
    /\ disk = [leaf |-> "absent", elsewhere |-> "intact"]
    /\ done = [r \in Proposals |-> 0]

-----------------------------------------------------------------------------
(* The workspace. *)

\* resolve_write: not the Core, .git or a secret by name, not under a directory
\* that leads out of the workspace, and not a link of either kind at the end.
Resolves(deed) ==
    deed.path = "ordinary" /\ disk.leaf \in {"absent"} \cup Inodes

\* preview: the target is resolved as for a write; the coding client is off.
Previews(deed) ==
    CASE deed.type = "write_file" -> Resolves(deed)
      [] deed.type = "git_commit" -> TRUE
      [] OTHER -> FALSE

\* The file a write opens: nothing that has come to the name is truncated or
\* written before it has proved to be the file that was resolved.
OpensChecked(checked) ==
    IF checked = "absent" THEN disk.leaf = "absent" ELSE disk.leaf = checked

\* What the name leads to after the write.
Written(made) ==
    [disk EXCEPT !.leaf = IF @ = "absent" THEN made ELSE @,
                 !.elsewhere = IF disk.leaf \in {"link", "away"} THEN "changed" ELSE @]

\* Another process of the workspace replaces the file, makes its name a link of
\* either kind to a file elsewhere, or has its directory lead away, the last not
\* while a write is between its two steps.
OtherProcess ==
    /\ \E leaf \in ({"absent", "link", "away"} \cup Inodes) \ {disk.leaf} :
         /\ leaf = "away" => \A h \in Approvals : approval[h].at # "resolved"
         /\ disk' = [disk EXCEPT !.leaf = leaf]
    /\ UNCHANGED <<agentRow, approval, gadget, done>>

-----------------------------------------------------------------------------
(* Proposals. *)

Unresolved == {r \in Proposals : agentRow[r].status = "pending" /\ agentRow[r].live}

\* agent_action up to the count: a target that may not be written, or a full list,
\* creates nothing.
Propose(r, deed) ==
    /\ agentRow[r].status = "free"
    /\ NeedsApproval(deed) /\ Previews(deed)
    /\ Cardinality(Unresolved) < MaxPending
    /\ agentRow' = [agentRow EXCEPT ![r].status = "counted", ![r].deed = deed]
    /\ UNCHANGED <<approval, gadget, disk, done>>

\* The row is created after the count, or the write fails.
CreatePending(r) ==
    /\ agentRow[r].status = "counted"
    /\ \/ agentRow' = [agentRow EXCEPT ![r].status = "pending"]
       \/ agentRow' = [agentRow EXCEPT ![r] = NoRow]
    /\ UNCHANGED <<approval, gadget, disk, done>>

FiveMinutesPass(r) ==
    /\ r \in Unresolved
    /\ agentRow' = [agentRow EXCEPT ![r].live = FALSE]
    /\ UNCHANGED <<approval, gadget, disk, done>>

\* agent_pending_deny: no signature, one conditional update.
DenyPending(r) ==
    /\ r \in Unresolved /\ \E g \in Gadgets : gadget[g]
    /\ agentRow' = [agentRow EXCEPT ![r].status = "denied"]
    /\ UNCHANGED <<approval, gadget, disk, done>>

-----------------------------------------------------------------------------
(* agent_pending_approve. *)

\* A phone approves only the kind it shows, and only when it is shown in full.
ApprovableOn(g, deed) ==
    \/ g = "macos"
    \/ g \in {"ios", "android"} /\ deed.type = "write_file" /\ deed.reviewable

Quits(h) == approval' = [approval EXCEPT ![h] = NoApproval]

FetchPending(h, r, g) ==
    /\ approval[h].at = "idle"
    /\ gadget[g] /\ r \in Unresolved
    /\ ApprovableOn(g, agentRow[r].deed)
    /\ approval' = [approval EXCEPT ![h].at = "fetched", ![h].id = r, ![h].by = g]
    /\ UNCHANGED <<agentRow, gadget, disk, done>>

\* verify_device_signature: of a device that is active now, over this action.
VerifyApproval(h) ==
    /\ approval[h].at = "fetched"
    /\ \/ gadget[approval[h].by] /\ approval' = [approval EXCEPT ![h].at = "verified"]
       \/ Quits(h)
    /\ UNCHANGED <<agentRow, gadget, disk, done>>

\* Fault: the row that was fetched is taken to be pending still.
StillPendingAsFetched(r) == TRUE

StillPending(r) == r \in Unresolved

\* The row is marked before anything runs.  The answer to the update may be lost:
\* then it is marked and never runs.
ClaimPending(h) ==
    LET r == approval[h].id IN
    /\ approval[h].at = "verified"
    /\ \/ /\ StillPending(r)
          /\ agentRow' = [agentRow EXCEPT ![r].status = "executed", ![r].by = approval[h].by]
          /\ approval' = [approval EXCEPT ![h].at = "claimed"] \/ Quits(h)
       \/ Quits(h) /\ UNCHANGED agentRow
    /\ UNCHANGED <<gadget, disk, done>>

TheDeed(h) == agentRow[approval[h].id].deed
Ran(h) == done' = [done EXCEPT ![approval[h].id] = @ + 1]

\* execute of a write: the target is resolved again.
ResolveTarget(h) ==
    /\ approval[h].at = "claimed" /\ TheDeed(h).type = "write_file"
    /\ IF Resolves(TheDeed(h))
       THEN approval' = [approval EXCEPT ![h].at = "resolved", ![h].checked = disk.leaf]
       ELSE Quits(h)
    /\ UNCHANGED <<agentRow, gadget, disk, done>>

\* write_file: opened, compared and written; once it is open its name no longer
\* matters.
WriteTarget(h) ==
    /\ approval[h].at = "resolved"
    /\ Quits(h)
    /\ IF OpensChecked(approval[h].checked)
       THEN (\E made \in Inodes : disk' = Written(made)) /\ Ran(h)
       ELSE UNCHANGED <<disk, done>>
    /\ UNCHANGED <<agentRow, gadget>>

\* git add -A and git commit: what the workspace holds then.
CommitTarget(h) ==
    /\ approval[h].at = "claimed" /\ TheDeed(h).type = "git_commit"
    /\ Quits(h)
    /\ Ran(h) \/ UNCHANGED done
    /\ UNCHANGED <<agentRow, gadget, disk>>

-----------------------------------------------------------------------------
RevokeGadget(g) ==
    /\ gadget[g]
    /\ gadget' = [gadget EXCEPT ![g] = FALSE]
    /\ UNCHANGED <<agentRow, approval, disk, done>>

\* Requests under way are gone, rows stay as they are.
AgentRestarts ==
    /\ approval' = [h \in Approvals |-> NoApproval]
    /\ agentRow' = [r \in Proposals |-> IF agentRow[r].status = "counted" THEN NoRow ELSE agentRow[r]]
    /\ UNCHANGED <<gadget, disk, done>>

ApprovalStep(h) ==
    \/ \E r \in Proposals, g \in Gadgets : FetchPending(h, r, g)
    \/ VerifyApproval(h) \/ ClaimPending(h)
    \/ ResolveTarget(h) \/ WriteTarget(h) \/ CommitTarget(h)

AgentNext ==
    \/ \E r \in Proposals : \/ \E deed \in Deeds : Propose(r, deed)
                            \/ CreatePending(r) \/ FiveMinutesPass(r) \/ DenyPending(r)
    \/ \E h \in Approvals : ApprovalStep(h)
    \/ \E g \in Gadgets : RevokeGadget(g)
    \/ OtherProcess \/ AgentRestarts

AgentSpec == AgentInit /\ [][AgentNext]_agentVars

-----------------------------------------------------------------------------
\* However many approvals, denials and retries meet, an action runs once at most,
\* and only when a device that may approve it has claimed it: never one that was
\* denied (agent_pending_approve marks the row before it runs the action).
RunsAsApproved ==
    \A r \in Proposals :
      /\ done[r] <= 1
      /\ done[r] = 1 => /\ agentRow[r].status = "executed"
                        /\ ApprovableOn(agentRow[r].by, agentRow[r].deed)

\* Whatever is put in the place of the file after it was resolved, a write changes
\* no file outside the workspace (write_file compares what it opened).
ActionsAreContained == RunsAsApproved /\ disk.elsewhere = "intact"
=============================================================================
