----------------------------- MODULE Membership -----------------------------
(***************************************************************************)
(* Who belongs to one organization: invitations (invites.service.ts), role *)
(* changes (members.service.ts), the seat cap (plan-limits.service.ts) and *)
(* the deletion of accounts and of the organization                        *)
(* (account-data.service.ts).                                              *)
(*                                                                         *)
(* A request acts on what it read, and every await lets other requests in. *)
(* Its rights come from an access token, which may name a role lost since. *)
(* The owner's token opens whatever an admin's would, so it stands for all *)
(* of them: who asks is left out.                                          *)
(***************************************************************************)
EXTENDS Integers, FiniteSets

CONSTANTS
    People,    \* e-mail addresses; user.email is unique
    Founder,   \* who registered the organization
    Invites,   \* bound: invitations
    Offered,   \* the roles asked for in invitations and role changes
    Requests,  \* requests that overlap; each serves any number in turn
    Limits,    \* maxTeamMembers of the plans, -1 for unlimited
    Nobody, NoInvite

Role == {"viewer", "editor", "admin", "owner"}

ASSUME MembershipAssumption ==
    /\ Founder \in People /\ Nobody \notin People /\ NoInvite \notin Invites
    /\ Offered \subseteq Role
    /\ IsFiniteSet(People) /\ IsFiniteSet(Invites)
    /\ IsFiniteSet(Requests) /\ Requests # {}
    /\ Limits \subseteq {-1} \cup (Nat \ {0})

VARIABLES
    alive,     \* the organization's row exists
    carousel,  \* a publish_job of a carousel refers to a social account
    user,      \* [People -> Standing]
    limit,     \* by the organization's planTier
    peak,      \* history: the widest limit there was
    invite,    \* [Invites -> Invite]
    minted,    \* history: [Invites -> Nat], users each invitation created
    request    \* [Requests -> Request]

vars == <<alive, carousel, user, limit, peak, invite, minted, request>>

-----------------------------------------------------------------------------
(* State. *)

\* No account at all, one in another organization, or a role in this one.
Standing == {"none", "elsewhere"} \cup Role

Invite == [status : {"none", "pending", "accepted", "revoked"},
           email : People \cup {Nobody}, role : Role]

NoInvitation == [status |-> "none", email |-> Nobody, role |-> "viewer"]

\* at: the statement that comes next; members and pending: the counts of
\* assertCanAddTeamMember, -1 until they arrive.
Request ==
    [at : {"idle", "limits", "counts", "supersede", "insert", "claim", "revoke",
           "setRole", "leave", "refused", "signUp"},
     email : People \cup {Nobody}, role : Role, invite : Invites \cup {NoInvite},
     limit : Limits \cup {0}, members : Int, pending : Int]

Idle == [at |-> "idle", email |-> Nobody, role |-> "viewer", invite |-> NoInvite,
         limit |-> 0, members |-> -1, pending |-> -1]

Members == {p \in People : user[p] \in Role}
Pending == {i \in Invites : invite[i].status = "pending"}

Init ==
    /\ alive = TRUE
    /\ carousel = FALSE
    /\ user = [p \in People |-> IF p = Founder THEN "owner" ELSE "none"]
    /\ limit \in Limits
    /\ peak = limit
    /\ invite = [i \in Invites |-> NoInvitation]
    /\ minted = [i \in Invites |-> 0]
    /\ request = [r \in Requests |-> Idle]

\* RolesGuard and the ranks of the two services, for the owner.
Grantable == Offered \ {"owner"}

Serve(r, changes) == request[r].at = "idle" /\ request' = [request EXCEPT ![r] = changes]
GoTo(r, at) == request' = [request EXCEPT ![r].at = at]
Answer(r) == request' = [request EXCEPT ![r] = Idle]

-----------------------------------------------------------------------------
(* Elsewhere. *)

\* register: a person gets an organization of their own.
Register(p) ==
    /\ user[p] = "none"
    /\ user' = [user EXCEPT ![p] = "elsewhere"]
    /\ UNCHANGED <<alive, carousel, limit, peak, invite, minted, request>>

\* resolveUser: Google vouches for an e-mail, and nobody has it.  Somebody who
\* does is signed in and belongs where they did.
GoogleFind(r) ==
    /\ \E p \in People :
        /\ user[p] = "none"
        /\ Serve(r, [Idle EXCEPT !.at = "signUp", !.email = p])
    /\ UNCHANGED <<alive, carousel, user, limit, peak, invite, minted>>

\* The organization and its owner in one transaction, unless somebody has the
\* e-mail by now.
GoogleCreate(r) ==
    /\ request[r].at = "signUp"
    /\ user[request[r].email] = "none"
    /\ user' = [user EXCEPT ![request[r].email] = "elsewhere"]
    /\ Answer(r)
    /\ UNCHANGED <<alive, carousel, limit, peak, invite, minted>>

-----------------------------------------------------------------------------
(* POST organizations/:orgId/invite. *)

\* The checks of create, and its look whether the person is a member.
InviteCheck(r) ==
    /\ \E p \in People, role \in Grantable :
        /\ user[p] \notin Role
        /\ Serve(r, [Idle EXCEPT !.at = "limits", !.email = p, !.role = role])
    /\ UNCHANGED <<alive, carousel, user, limit, peak, invite, minted>>

\* limitsFor.
InviteLimits(r) ==
    /\ request[r].at = "limits"
    /\ request' = [request EXCEPT ![r].at = "counts", ![r].limit = limit]
    /\ UNCHANGED <<alive, carousel, user, limit, peak, invite, minted>>

Within(count, max) == max < 0 \/ count < max

\* Mutant: open invitations are not held against the cap.
TallyMembersOnly(r, members, pending) ==
    request' = [request EXCEPT ![r] =
        IF members = -1 \/ pending = -1
        THEN [@ EXCEPT !.members = members, !.pending = pending]
        ELSE IF Within(members, @.limit)
        THEN [Idle EXCEPT !.at = "supersede", !.email = request[r].email, !.role = request[r].role]
        ELSE Idle]

\* assertCanAddTeamMember, once both counts are in: on, or 402.
Tally(r, members, pending) ==
    request' = [request EXCEPT ![r] =
        IF members = -1 \/ pending = -1
        THEN [@ EXCEPT !.members = members, !.pending = pending]
        ELSE IF Within(members + pending, @.limit)
        THEN [Idle EXCEPT !.at = "supersede", !.email = request[r].email, !.role = request[r].role]
        ELSE Idle]

\* Promise.all of the two: they come in either order, and what happens between
\* them is counted twice or not at all.
CountMembers(r) ==
    /\ request[r].at = "counts" /\ request[r].members = -1
    /\ Tally(r, Cardinality(Members), request[r].pending)
    /\ UNCHANGED <<alive, carousel, user, limit, peak, invite, minted>>

CountPending(r) ==
    /\ request[r].at = "counts" /\ request[r].pending = -1
    /\ Tally(r, request[r].members, Cardinality(Pending))
    /\ UNCHANGED <<alive, carousel, user, limit, peak, invite, minted>>

\* updateMany: earlier invitations of the same person.
InviteSupersede(r) ==
    /\ request[r].at = "supersede"
    /\ invite' = [i \in Invites |->
                    IF i \in Pending /\ invite[i].email = request[r].email
                    THEN [invite[i] EXCEPT !.status = "revoked"] ELSE invite[i]]
    /\ GoTo(r, "insert")
    /\ UNCHANGED <<alive, carousel, user, limit, peak, minted>>

\* create; the organization must still be there.  The e-mail goes out after it.
InviteInsert(r) ==
    /\ request[r].at = "insert" /\ alive
    /\ \E i \in Invites :
        /\ invite[i].status = "none"
        /\ invite' = [invite EXCEPT ![i] = [status |-> "pending", 
                                            email |-> request[r].email, role |-> request[r].role]]
    /\ Answer(r)
    /\ UNCHANGED <<alive, carousel, user, limit, peak, minted>>

-----------------------------------------------------------------------------
(* DELETE organizations/:orgId/invites/:inviteId. *)

\* The invitation exists, whatever its status.
RevokeRead(r) ==
    /\ \E i \in Invites :
        /\ invite[i].status # "none"
        /\ Serve(r, [Idle EXCEPT !.at = "revoke", !.invite = i])
    /\ UNCHANGED <<alive, carousel, user, limit, peak, invite, minted>>

\* Mutant: the revocation puts the invitation's row back, as a rewrite of what
\* was read would.
RevokeUpdateReopens(r) ==
    /\ request[r].at = "revoke"
    /\ invite' = [invite EXCEPT ![request[r].invite].status =
                    IF @ = "accepted" THEN "pending" ELSE "revoked"]
    /\ Answer(r)
    /\ UNCHANGED <<alive, carousel, user, limit, peak, minted>>

\* By id alone: an invitation accepted meanwhile reads revoked.
RevokeUpdate(r) ==
    /\ request[r].at = "revoke" /\ alive
    /\ invite' = [invite EXCEPT ![request[r].invite].status = "revoked"]
    /\ Answer(r)
    /\ UNCHANGED <<alive, carousel, user, limit, peak, minted>>

-----------------------------------------------------------------------------
(* POST invites/:token/accept. *)

\* accept up to bcrypt: pending, and the person is new.  Past expiresAt nothing
\* happens, as if nobody came; the invitation stays pending, and counts.
AcceptRead(r) ==
    /\ \E i \in Pending :
        /\ user[invite[i].email] = "none"
        /\ Serve(r, [Idle EXCEPT !.at = "claim", !.invite = i])
    /\ UNCHANGED <<alive, carousel, user, limit, peak, invite, minted>>

Mint(r) ==
    LET i == request[r].invite IN
    /\ user[invite[i].email] = "none"
    /\ invite' = [invite EXCEPT ![i].status = "accepted"]
    /\ user' = [user EXCEPT ![invite[i].email] = invite[i].role]
    /\ minted' = [minted EXCEPT ![i] = @ + 1]

\* Mutant: the claim does not look at the status.
AcceptClaimUnguarded(r) ==
    /\ request[r].at = "claim" /\ alive
    /\ Mint(r)
    /\ Answer(r)
    /\ UNCHANGED <<alive, carousel, limit, peak>>

\* The transaction: the claim is guarded by the status, and the user's e-mail
\* is unique; if either fails nothing is written.
AcceptClaim(r) ==
    /\ request[r].at = "claim" /\ alive
    /\ invite[request[r].invite].status = "pending"
    /\ Mint(r)
    /\ Answer(r)
    /\ UNCHANGED <<alive, carousel, limit, peak>>

-----------------------------------------------------------------------------
(* PATCH organizations/:orgId/members/:userId/role. *)

\* Mutant: ownership can be handed out.
SetRoleCheckAnyRole(r) ==
    /\ \E p \in Members, role \in Offered :
        /\ user[p] # "owner"
        /\ Serve(r, [Idle EXCEPT !.at = "setRole", !.email = p, !.role = role])
    /\ UNCHANGED <<alive, carousel, user, limit, peak, invite, minted>>

\* The checks of changeRole, on the target as it reads now.
SetRoleCheck(r) ==
    /\ \E p \in Members, role \in Grantable :
        /\ user[p] # "owner"
        /\ Serve(r, [Idle EXCEPT !.at = "setRole", !.email = p, !.role = role])
    /\ UNCHANGED <<alive, carousel, user, limit, peak, invite, minted>>

\* By id: it fails if the user is gone, and who comes back has another id.
SetRoleUpdate(r) ==
    /\ request[r].at = "setRole"
    /\ user[request[r].email] \in Role
    /\ user' = [user EXCEPT ![request[r].email] = request[r].role]
    /\ Answer(r)
    /\ UNCHANGED <<alive, carousel, limit, peak, invite, minted>>

-----------------------------------------------------------------------------
(* DELETE /users/me. *)

\* deleteAccount reads the user afresh and compares the password.
LeaveCheck(r) ==
    /\ \E p \in Members : Serve(r, [Idle EXCEPT !.at = "leave", !.email = p, !.role = user[p]])
    /\ UNCHANGED <<alive, carousel, user, limit, peak, invite, minted>>

\* Everyone who waits to change the user's row by its id fails.
DropRoleChanges(p) ==
    request' = [q \in Requests |->
                  IF request[q].at \in {"leave", "setRole"} /\ request[q].email = p
                  THEN Idle ELSE request[q]]

\* deleteMembership.
Leave(r) ==
    LET p == request[r].email IN
    /\ request[r].at = "leave" /\ request[r].role # "owner"
    /\ user' = [user EXCEPT ![p] = "none"]
    /\ DropRoleChanges(p)
    /\ UNCHANGED <<alive, carousel, limit, peak, invite, minted>>

\* deleteOrganization: what refers to the organization goes first, and with it
\* whatever requests were about to write there; a sign-up writes elsewhere.
Dissolve(r) ==
    /\ request[r].at = "leave" /\ request[r].role = "owner"
    /\ ~carousel
    /\ alive' = FALSE
    /\ user' = [p \in People |-> IF p \in Members THEN "none" ELSE user[p]]
    /\ invite' = [i \in Invites |-> NoInvitation]
    /\ request' = [q \in Requests |-> IF request[q].at = "signUp" THEN request[q] ELSE Idle]
    /\ UNCHANGED <<carousel, limit, peak, minted>>

\* contentAsset.deleteMany reaches the jobs of designs; a carousel's jobs stay
\* behind, and socialAccount.deleteMany is refused.
DissolveRefused(r) ==
    /\ request[r].at = "leave" /\ request[r].role = "owner"
    /\ carousel
    /\ GoTo(r, "refused")
    /\ UNCHANGED <<alive, carousel, user, limit, peak, invite, minted>>

-----------------------------------------------------------------------------

\* A request that fails on a guard, on a constraint or with the database.
Fails(r) ==
    /\ request[r].at # "idle"
    /\ Answer(r)
    /\ UNCHANGED <<alive, carousel, user, limit, peak, invite, minted>>

\* publishCarouselNow or scheduleCarousel.
PublishCarousel ==
    /\ alive /\ ~carousel
    /\ carousel' = TRUE
    /\ UNCHANGED <<alive, user, limit, peak, invite, minted, request>>

Wider(l, m) == IF l < 0 \/ m < 0 THEN -1 ELSE IF l < m THEN m ELSE l

\* billing.service.ts writes planTier, up or down.
ChangePlan ==
    /\ \E l \in Limits : l # limit /\ limit' = l /\ peak' = Wider(peak, l)
    /\ UNCHANGED <<alive, carousel, user, invite, minted, request>>

\* The routes of the controllers.
Invitations(r) ==
    \/ InviteCheck(r) \/ InviteLimits(r) \/ CountMembers(r) \/ CountPending(r)
    \/ InviteSupersede(r) \/ InviteInsert(r)
    \/ RevokeRead(r) \/ RevokeUpdate(r) \/ AcceptRead(r) \/ AcceptClaim(r)

RoleChanges(r) == SetRoleCheck(r) \/ SetRoleUpdate(r)

Departures(r) == LeaveCheck(r) \/ Leave(r) \/ Dissolve(r) \/ DissolveRefused(r)

SignUps(r) == GoogleFind(r) \/ GoogleCreate(r)

Handle(r) == Invitations(r) \/ RoleChanges(r) \/ Departures(r) \/ SignUps(r) \/ Fails(r)

Next ==
    \/ \E p \in People : Register(p)
    \/ \E r \in Requests : Handle(r)
    \/ PublishCarousel \/ ChangePlan

Spec == Init /\ [][Next]_vars

-----------------------------------------------------------------------------
(* Properties. *)

TypeOK ==
    /\ alive \in BOOLEAN /\ carousel \in BOOLEAN
    /\ user \in [People -> Standing]
    /\ limit \in Limits /\ peak \in Int
    /\ invite \in [Invites -> Invite]
    /\ minted \in [Invites -> Nat]
    /\ request \in [Requests -> Request]

\* The organization has one owner as long as it exists, however role changes,
\* invitations and deletions overlap.
OneOwner == {p \in People : user[p] = "owner"} = IF alive THEN {Founder} ELSE {}

\* "So an org can't oversubscribe by queuing invites": open invitations and the
\* owner fit the widest cap there was, or exceed it by the other requests that
\* overlap, although the two counts are taken at different moments.
PendingBounded ==
    peak >= 0 => Cardinality(Pending) + 1 <= peak + Cardinality(Requests) - 1

\* "So a token can never mint two users", also across a deletion of the first.
OneUserPerInvite == \A i \in Invites : minted[i] <= 1

\* Once an invitation is revoked, by an admin or by a newer one, nobody joins
\* with it, also not a request that read it while it was pending.
RevokedStaysOut ==
    [][\A i \in Invites : invite[i].status = "revoked" => minted'[i] = minted[i]]_vars

\* "An OWNER deleting their account deletes the whole organization and every
\* row scoped to it", children first, so that no foreign key stands in the way.
OwnerCanLeave == \A r \in Requests : request[r].at # "refused"

=============================================================================
