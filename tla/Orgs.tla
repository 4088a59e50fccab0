-------------------------------- MODULE Orgs --------------------------------
(***************************************************************************)
(* The members of one organization: enterprise/server/services/            *)
(* org_member_service.py and org_invitation_service.py, the switch of      *)
(* storage/org_service.py, and the stores below them.                      *)
(*                                                                         *)
(* A request checks what it read in one database session and writes in     *)
(* another one: an action is what happens between two such sessions (the   *)
(* reads of the two memberships a permission depends on are one action).   *)
(* team is the organization's team in LiteLLM, an external service.        *)
(***************************************************************************)
EXTENDS Integers, FiniteSets

CONSTANTS
    Members,     \* users
    Founders,    \* those who own the organization at the start
    Invitations, \* invitations that can be created
    OrgCalls,    \* concurrent requests
    MaxOrgCalls  \* bound: requests made

ASSUME OrgsAssumption ==
    Founders \subseteq Members /\ Founders # {} /\ MaxOrgCalls \in Nat

VARIABLES
    role,     \* the table of members; "none": not a member
    current,  \* whether the organization is the user's current one
    team,     \* the users in the LiteLLM team
    invite,   \* the invitations
    orgCall,  \* the requests under way
    leftovers, \* users in the team whom an unfinished removal or a failed acceptance left there
    crossed,  \* what two requests did to each other: see Crossings
    orgCalls  \* counts the requests, for the bound

orgVars == <<role, current, team, invite, orgCall, leftovers, crossed, orgCalls>>

Roles == {"owner", "admin", "member"}

(* owners: an owner went while another request relied on the owners it had *)
(* counted, or by a request that had read another role.  team: a user who  *)
(* is a member again was taken out of the team.                            *)
(* current: the selection outlived the membership, because a switch wrote  *)
(* after the removal, or the removal failed before it reset the selection. *)
Crossings == {<<"owners">>} \cup ({"team", "current"} \X Members)
NoInvitation == [status |-> "absent"]
NoCall == [op |-> "none"]
OrgOwners == {u \in Members : role[u] = "owner"}

OrgCalled == orgCalls < MaxOrgCalls /\ orgCalls' = orgCalls + 1
Await(r, pc) == orgCall' = [orgCall EXCEPT ![r].pc = pc]
Return(r) == orgCall' = [orgCall EXCEPT ![r] = NoCall]

(* Acceptances that have the user in the team and not in the table yet. *)
Joining(u) == \E r \in OrgCalls :
    orgCall[r].op = "accept" /\ orgCall[r].pc = "add" /\ orgCall[r].user = u

-----------------------------------------------------------------------------
(* remove_org_member and update_org_member *)

(* _can_remove_member; _can_update_member_role *)
CanRemove(byRole, targetRole) ==
    byRole = "owner" \/ (byRole = "admin" /\ targetRole # "owner")
CanUpdate(byRole, targetRole, new) ==
    byRole = "owner" \/ (byRole = "admin" /\ targetRole # "owner" /\ new # "owner")

(* The memberships are read and checked.  new = "none": a removal. *)
ChangeMember(r, by, u, new) ==
    /\ OrgCalled
    /\ orgCall[r] = NoCall /\ by # u
    /\ role[by] # "none" /\ role[u] # "none"
    /\ IF new = "none" THEN CanRemove(role[by], role[u]) ELSE CanUpdate(role[by], role[u], new)
    /\ orgCall' = [orgCall EXCEPT ![r] =
          [op |-> "change", pc |-> "count", user |-> u, new |-> new, was |-> role[u],
           relies |-> FALSE]]
    /\ UNCHANGED <<role, current, team, invite, leftovers, crossed>>

TakesOwner(r) == orgCall[r].was = "owner" /\ orgCall[r].new # "owner"

(* Faulty variant: an organization of one admin counts as led. *)
CountOwnersAndAdmins(r) ==
    /\ orgCall[r].op = "change" /\ orgCall[r].pc = "count"
    /\ IF TakesOwner(r) /\ {u \in Members : role[u] \in {"owner", "admin"}} = {orgCall[r].user}
       THEN Return(r)
       ELSE orgCall' = [orgCall EXCEPT ![r].pc = "write", ![r].relies = TakesOwner(r)]
    /\ UNCHANGED <<role, current, team, invite, leftovers, crossed, orgCalls>>

(* _is_last_owner, asked when an owner is removed or demoted. *)
CountOwners(r) ==
    /\ orgCall[r].op = "change" /\ orgCall[r].pc = "count"
    /\ IF TakesOwner(r) /\ OrgOwners = {orgCall[r].user}
       THEN Return(r)
       ELSE orgCall' = [orgCall EXCEPT ![r].pc = "write", ![r].relies = TakesOwner(r)]
    /\ UNCHANGED <<role, current, team, invite, leftovers, crossed, orgCalls>>

OwnerUncounted(r) ==
    /\ role[orgCall[r].user] = "owner" /\ orgCall[r].new # "owner"
    /\ \/ ~orgCall[r].relies
       \/ \E q \in OrgCalls \ {r} :
             orgCall[q].op = "change" /\ orgCall[q].pc = "write" /\ orgCall[q].relies

(* remove_user_from_org, update_user_role_in_org *)
WriteMember(r) ==
    /\ orgCall[r].op = "change" /\ orgCall[r].pc = "write"
    /\ LET u == orgCall[r].user
       IN  \/ /\ role[u] = "none"
              /\ Return(r)
              /\ UNCHANGED <<role, leftovers, crossed>>
           \/ /\ role[u] # "none"
              /\ role' = [role EXCEPT ![u] = orgCall[r].new]
              /\ crossed' = IF OwnerUncounted(r) THEN crossed \cup {<<"owners">>} ELSE crossed
              /\ IF orgCall[r].new = "none"
                 THEN Await(r, "current") /\ leftovers' = leftovers \cup {u}
                 ELSE Return(r) /\ UNCHANGED leftovers
    /\ UNCHANGED <<current, team, invite, orgCalls>>

(* Faulty variant: the selection is forgotten. *)
LeaveCurrentSelected(r) ==
    /\ orgCall[r].op = "change" /\ orgCall[r].pc = "current"
    /\ Await(r, "team")
    /\ UNCHANGED <<role, current, team, invite, leftovers, crossed, orgCalls>>

(* The removed user falls back to the personal workspace.  Nothing catches *)
(* a failing get_user_by_id or update_current_org: the removal ends.       *)
LeaveCurrent(r) ==
    /\ orgCall[r].op = "change" /\ orgCall[r].pc = "current"
    /\ LET u == orgCall[r].user
       IN  \/ /\ current' = [current EXCEPT ![u] = FALSE]
              /\ Await(r, "team")
              /\ UNCHANGED crossed
           \/ /\ crossed' = IF current[u] THEN crossed \cup {<<"current", u>>} ELSE crossed
              /\ Return(r)
              /\ UNCHANGED current
    /\ UNCHANGED <<role, team, invite, leftovers, orgCalls>>

(* remove_user_from_team; a failure is logged and forgotten. *)
LeaveTeam(r) ==
    /\ orgCall[r].op = "change" /\ orgCall[r].pc = "team"
    /\ LET u == orgCall[r].user
       IN  \/ /\ team' = team \ {u}
              /\ leftovers' = leftovers \ {u}
              /\ crossed' = IF role[u] # "none" \/ Joining(u)
                             THEN crossed \cup {<<"team", u>>} ELSE crossed
           \/ UNCHANGED <<team, leftovers, crossed>>
    /\ Return(r)
    /\ UNCHANGED <<role, current, invite, orgCalls>>

-----------------------------------------------------------------------------
(* Invitations *)

(* create_invitation *)
Invite(i, by, u, new) ==
    /\ OrgCalled
    /\ invite[i] = NoInvitation
    /\ role[by] \in {"owner", "admin"} /\ (new = "owner" => role[by] = "owner")
    /\ role[u] = "none"
    /\ invite' = [invite EXCEPT ![i] =
          [status |-> "pending", user |-> u, role |-> new, expired |-> FALSE]]
    /\ UNCHANGED <<role, current, team, orgCall, leftovers, crossed>>

InvitationExpires(i) ==
    /\ invite[i] # NoInvitation /\ ~invite[i].expired
    /\ invite' = [invite EXCEPT ![i].expired = TRUE]
    /\ UNCHANGED <<role, current, team, orgCall, leftovers, crossed, orgCalls>>

(* accept_invitation by the user whose address it names: the invitation is *)
(* read and checked, then the membership.                                  *)
Accept(r, i) ==
    /\ OrgCalled
    /\ orgCall[r] = NoCall
    /\ invite[i].status = "pending"
    /\ orgCall' = [orgCall EXCEPT ![r] =
          [op |-> "accept", user |-> invite[i].user, invitation |-> i,
           pc |-> IF invite[i].expired THEN "expire" ELSE "check"]]
    /\ UNCHANGED <<role, current, team, invite, leftovers, crossed>>

MarkExpired(r) ==
    /\ orgCall[r].op = "accept" /\ orgCall[r].pc = "expire"
    /\ invite' = [invite EXCEPT ![orgCall[r].invitation].status = "expired"]
    /\ Return(r)
    /\ UNCHANGED <<role, current, team, leftovers, crossed, orgCalls>>

CheckMembership(r) ==
    /\ orgCall[r].op = "accept" /\ orgCall[r].pc = "check"
    /\ IF role[orgCall[r].user] # "none" THEN Return(r) ELSE Await(r, "integrate")
    /\ UNCHANGED <<role, current, team, invite, leftovers, crossed, orgCalls>>

(* create_litellm_integration adds the user to the team and makes a key.   *)
(* It fails before the one or before the other; the acceptance ends.       *)
Integrate(r) ==
    /\ orgCall[r].op = "accept" /\ orgCall[r].pc = "integrate"
    /\ LET u == orgCall[r].user
       IN  \/ /\ team' = team \cup {u} /\ Await(r, "add")
              /\ UNCHANGED leftovers
           \/ /\ team' = team \cup {u} /\ Return(r)
              /\ leftovers' = leftovers \cup {u}
           \/ /\ Return(r)
              /\ UNCHANGED <<team, leftovers>>
    /\ UNCHANGED <<role, current, invite, crossed, orgCalls>>

(* add_user_to_org, whose key refuses a second membership; it may fail, or *)
(* the organization not be found: then the user stays in the team.         *)
AddMember(r) ==
    /\ orgCall[r].op = "accept" /\ orgCall[r].pc = "add"
    /\ LET u == orgCall[r].user
       IN  \/ /\ role[u] = "none"
              /\ role' = [role EXCEPT ![u] = invite[orgCall[r].invitation].role]
              /\ Await(r, "mark")
              /\ UNCHANGED leftovers
           \/ /\ Return(r)
              /\ leftovers' = IF role[u] = "none" THEN leftovers \cup {u} ELSE leftovers
              /\ UNCHANGED role
    /\ UNCHANGED <<current, team, invite, crossed, orgCalls>>

(* update_invitation_status, which may find no row. *)
MarkAccepted(r) ==
    /\ orgCall[r].op = "accept" /\ orgCall[r].pc = "mark"
    /\ \/ invite' = [invite EXCEPT ![orgCall[r].invitation].status = "accepted"]
       \/ UNCHANGED invite
    /\ Return(r)
    /\ UNCHANGED <<role, current, team, leftovers, crossed, orgCalls>>

-----------------------------------------------------------------------------
(* switch_org: the membership is checked, then the user's row written. *)

SwitchOrg(r, u) ==
    /\ OrgCalled
    /\ orgCall[r] = NoCall /\ role[u] # "none" /\ ~current[u]
    /\ orgCall' = [orgCall EXCEPT ![r] = [op |-> "switch", pc |-> "write", user |-> u]]
    /\ UNCHANGED <<role, current, team, invite, leftovers, crossed>>

UpdateCurrent(r) ==
    /\ orgCall[r].op = "switch" /\ orgCall[r].pc = "write"
    /\ current' = [current EXCEPT ![orgCall[r].user] = TRUE]
    /\ crossed' = IF role[orgCall[r].user] = "none"
                  THEN crossed \cup {<<"current", orgCall[r].user>>} ELSE crossed
    /\ Return(r)
    /\ UNCHANGED <<role, team, invite, leftovers, orgCalls>>

-----------------------------------------------------------------------------
OrgsInit ==
    /\ role = [u \in Members |-> IF u \in Founders THEN "owner" ELSE "none"]
    /\ current = [u \in Members |-> FALSE]
    /\ team = Founders
    /\ invite = [i \in Invitations |-> NoInvitation]
    /\ orgCall = [r \in OrgCalls |-> NoCall]
    /\ leftovers = {} /\ crossed = {} /\ orgCalls = 0

OrgRequests ==
    \/ \E i \in Invitations, by, u \in Members, new \in Roles : Invite(i, by, u, new)
    \/ \E r \in OrgCalls :
          \/ \E by, u \in Members, new \in Roles \cup {"none"} : ChangeMember(r, by, u, new)
          \/ \E i \in Invitations : Accept(r, i)
          \/ \E u \in Members : SwitchOrg(r, u)

OrgSteps == \E r \in OrgCalls :
    \/ CountOwners(r) \/ WriteMember(r) \/ LeaveCurrent(r) \/ LeaveTeam(r)
    \/ MarkExpired(r) \/ CheckMembership(r) \/ Integrate(r) \/ AddMember(r) \/ MarkAccepted(r)
    \/ UpdateCurrent(r)

OrgsNext == OrgRequests \/ OrgSteps \/ \E i \in Invitations : InvitationExpires(i)

OrgsSpec == OrgsInit /\ [][OrgsNext]_orgVars

-----------------------------------------------------------------------------
(* Properties.                                                             *)

InvitationType ==
    {NoInvitation} \cup
    [status : {"pending", "accepted", "expired"}, user : Members, role : Roles, expired : BOOLEAN]
OrgCallType ==
    {NoCall} \cup
    [op : {"change"}, pc : {"count", "write", "current", "team"}, user : Members,
     new : Roles \cup {"none"}, was : Roles, relies : BOOLEAN] \cup
    [op : {"accept"}, pc : {"expire", "check", "integrate", "add", "mark"}, user : Members,
     invitation : Invitations] \cup
    [op : {"switch"}, pc : {"write"}, user : Members]

(* The type invariant.  Only members are changed.                          *)
OrgsTypeOK ==
    /\ role \in [Members -> Roles \cup {"none"}]
    /\ current \in [Members -> BOOLEAN]
    /\ team \subseteq Members /\ leftovers \subseteq Members /\ crossed \subseteq Crossings
    /\ orgCalls \in 0 .. MaxOrgCalls
    /\ invite \in [Invitations -> InvitationType]
    /\ orgCall \in [OrgCalls -> OrgCallType]

(* The organization keeps an owner, whatever the order of removals,        *)
(* demotions, promotions and acceptances, unless two requests crossed: the *)
(* check of the last owner (LastOwnerError, cannot_remove_last_owner) and  *)
(* the write are two transactions.                                         *)
OwnerRemains == OrgOwners # {} \/ <<"owners">> \in crossed

(* Every member is in the organization's LiteLLM team, also one who was    *)
(* removed and invited again, unless the first removal reached the team    *)
(* after the new acceptance had.                                           *)
MemberIsInTeam == \A u \in Members : role[u] # "none" => u \in team \/ <<"team", u>> \in crossed

(* Whoever is in the team is a member, or is about to become one, or was   *)
(* left there: by a removal that has not reached the team (it never does   *)
(* when LiteLLM or the database fails) or by an acceptance that failed     *)
(* after create_litellm_integration had added the user, which nothing      *)
(* takes back.                                                             *)
TeamIsMembers == \A u \in team : role[u] # "none" \/ Joining(u) \/ u \in leftovers

(* Who is not a member does not work in the organization: the selection is *)
(* reset by the removal, unless the removal fails before it, or a switch   *)
(* that had checked the membership writes after it.                        *)
CurrentIsMember ==
    \A u \in Members : current[u] =>
        \/ role[u] # "none"
        \/ \E r \in OrgCalls : orgCall[r].op = "change" /\ orgCall[r].user = u
                               /\ orgCall[r].pc = "current"
        \/ <<"current", u>> \in crossed

(* Access follows membership, whatever removals, acceptances and switches  *)
(* interleave, and up to the exceptions named above: the members are in    *)
(* the team, and nobody else is, nor works in the organization.            *)
AccessIsMembership == MemberIsInTeam /\ TeamIsMembers /\ CurrentIsMember
=============================================================================
