-------------------------- MODULE MembershipProofs --------------------------
(***************************************************************************)
(* For any number of people, invitations and overlapping requests: the     *)
(* organization has one owner, an invitation makes at most one user and    *)
(* none once it is revoked, and open invitations exceed the widest seat    *)
(* cap by less than the requests that overlap.                             *)
(***************************************************************************)
EXTENDS Membership, FiniteSetTheorems, TLAPS

-----------------------------------------------------------------------------
(* The strengthening. *)

Inviting == {"limits", "counts", "supersede", "insert"}

\* What a request holds while it is at a statement.
Holds ==
    \A r \in Requests :
        /\ request[r].at \in Inviting \cup {"setRole", "leave", "signUp"} =>
              request[r].email \in People
        /\ request[r].at \in Inviting \cup {"setRole"} => request[r].role # "owner"
        /\ request[r].at \in {"revoke", "claim"} => request[r].invite \in Invites
        /\ request[r].at = "limits" => request[r].members = -1 /\ request[r].pending = -1

Offers ==
    \A i \in Invites :
        /\ invite[i].role # "owner"
        /\ invite[i].status = "pending" => invite[i].email \in People

\* The owner's row is never about to be changed but by the owner's leaving.
OwnersRow ==
    \A r \in Requests :
        /\ request[r].at = "setRole" => alive /\ request[r].email # Founder
        /\ request[r].at = "leave" =>
              alive /\ (request[r].role = "owner" <=> request[r].email = Founder)

\* Nothing is left of an organization that was deleted.
Dissolved ==
    ~alive => /\ \A p \in People : user[p] \notin Role
              /\ \A i \in Invites : invite[i].status = "none"

Minting ==
    \A i \in Invites :
        /\ minted[i] <= 1
        /\ invite[i].status = "pending" => minted[i] = 0
        /\ alive /\ invite[i].status = "none" => minted[i] = 0

\* The cap that a request goes by was in force.
Caps ==
    /\ peak = -1 \/ peak >= 1
    /\ peak # -1 => limit >= 1 /\ limit <= peak
    /\ \A r \in Requests : request[r].at = "counts" =>
          /\ peak # -1 => request[r].limit >= 1 /\ request[r].limit <= peak
          /\ alive => request[r].members = -1 \/ request[r].members >= 1

\* Who has counted the open invitations and may yet add one.
Adding ==
    {r \in Requests :
        \/ request[r].at \in {"supersede", "insert"}
        \/ /\ request[r].at = "counts" /\ request[r].pending # -1
           /\ request[r].pending + 2 <= request[r].limit}

Seats ==
    alive /\ peak # -1 =>
        Cardinality(Pending) + Cardinality(Adding) + 2 <= peak + Cardinality(Requests)

Core == TypeOK /\ Holds /\ Offers /\ OwnersRow /\ Dissolved /\ Minting /\ OneOwner /\ Caps

IInv == Core /\ Seats

-----------------------------------------------------------------------------
(* Requests. *)

LEMMA IdleType == Idle \in Request /\ Idle.at = "idle"
  BY DEF Idle, Request, Role

\* What a request comes to by itself.
Arrives(q) ==
    /\ request'[q].at \in Inviting \cup {"setRole", "leave", "signUp"} =>
          request'[q].email \in People
    /\ request'[q].at \in Inviting \cup {"setRole"} => request'[q].role # "owner"
    /\ request'[q].at \in {"revoke", "claim"} => request'[q].invite \in Invites
    /\ request'[q].at = "limits" => request'[q].members = -1 /\ request'[q].pending = -1
    /\ request'[q].at = "counts" =>
          \/ /\ request[q].at = "limits" /\ request'[q].limit = limit
             /\ request'[q].members = -1 /\ request'[q].pending = -1
          \/ /\ request[q].at = "counts" /\ request'[q].limit = request[q].limit
             /\ \/ CountMembers(q) /\ request'[q].members = Cardinality(Members)
                   /\ request'[q].pending = request[q].pending
                \/ CountPending(q) /\ request'[q].pending = Cardinality(Pending)
                   /\ request'[q].members = request[q].members
    /\ request'[q].at = "supersede" =>
          /\ request[q].at = "counts"
          /\ \/ CountMembers(q) /\ Within(Cardinality(Members) + request[q].pending, request[q].limit)
                /\ request[q].pending # -1
             \/ CountPending(q) /\ Within(request[q].members + Cardinality(Pending), request[q].limit)
                /\ request[q].members # -1
    /\ request'[q].at = "insert" => request[q].at = "supersede"
    /\ request'[q].at = "setRole" =>
          user[request'[q].email] \in Role /\ user[request'[q].email] # "owner" /\ UNCHANGED alive
    /\ request'[q].at = "leave" =>
          /\ user[request'[q].email] \in Role /\ request'[q].role = user[request'[q].email]
          /\ UNCHANGED alive

LEMMA ServeSteps ==
    ASSUME TypeOK, NEW q \in Requests,
           \/ GoogleFind(q) \/ InviteCheck(q) \/ RevokeRead(q) \/ AcceptRead(q)
           \/ SetRoleCheck(q) \/ LeaveCheck(q)
    PROVE  Arrives(q) /\ request' \in [Requests -> Request]
<1>. request \in [Requests -> Request]
  BY DEF TypeOK
<1>1. ASSUME NEW rec \in Request, Serve(q, rec)
      PROVE  request' \in [Requests -> Request] /\ request'[q] = rec
  BY <1>1 DEF Serve
<1>2. CASE GoogleFind(q)
  <2>1. PICK p \in People : Serve(q, [Idle EXCEPT !.at = "signUp", !.email = p])
    BY <1>2 DEF GoogleFind
  <2>. DEFINE rec == [Idle EXCEPT !.at = "signUp", !.email = p]
  <2>2. rec.at = "signUp" /\ rec.email = p
    BY DEF Idle
  <2>3. Serve(q, rec)
    BY <2>1
  <2>4. rec \in Request
    BY IdleType DEF Request
  <2>. HIDE DEF rec
  <2>. QED  BY <1>1, <2>2, <2>3, <2>4 DEF Arrives, Inviting
<1>3. CASE InviteCheck(q)
  <2>1. PICK p \in People, role \in Grantable :
            Serve(q, [Idle EXCEPT !.at = "limits", !.email = p, !.role = role])
    BY <1>3 DEF InviteCheck
  <2>. DEFINE rec == [Idle EXCEPT !.at = "limits", !.email = p, !.role = role]
  <2>2. role \in Role /\ role # "owner"
    BY MembershipAssumption DEF Grantable
  <2>3. /\ rec.at = "limits" /\ rec.email = p /\ rec.role = role
        /\ rec.members = -1 /\ rec.pending = -1
    BY DEF Idle
  <2>5. rec \in Request
    BY <2>2, IdleType DEF Request
  <2>4. Serve(q, rec)
    BY <2>1
  <2>. HIDE DEF rec
  <2>. QED  BY <1>1, <2>2, <2>3, <2>4, <2>5 DEF Arrives, Inviting
<1>4. CASE RevokeRead(q)
  <2>1. PICK i \in Invites : Serve(q, [Idle EXCEPT !.at = "revoke", !.invite = i])
    BY <1>4 DEF RevokeRead
  <2>. DEFINE rec == [Idle EXCEPT !.at = "revoke", !.invite = i]
  <2>2. rec.at = "revoke" /\ rec.invite = i
    BY DEF Idle
  <2>3. Serve(q, rec)
    BY <2>1
  <2>4. rec \in Request
    BY IdleType DEF Request
  <2>. HIDE DEF rec
  <2>. QED  BY <1>1, <2>2, <2>3, <2>4 DEF Arrives, Inviting
<1>5. CASE AcceptRead(q)
  <2>1. PICK i \in Invites : Serve(q, [Idle EXCEPT !.at = "claim", !.invite = i])
    BY <1>5 DEF AcceptRead, Pending
  <2>. DEFINE rec == [Idle EXCEPT !.at = "claim", !.invite = i]
  <2>2. rec.at = "claim" /\ rec.invite = i
    BY DEF Idle
  <2>3. Serve(q, rec)
    BY <2>1
  <2>4. rec \in Request
    BY IdleType DEF Request
  <2>. HIDE DEF rec
  <2>. QED  BY <1>1, <2>2, <2>3, <2>4 DEF Arrives, Inviting
<1>6. CASE SetRoleCheck(q)
  <2>1. PICK p \in Members, role \in Grantable :
            /\ user[p] # "owner"
            /\ Serve(q, [Idle EXCEPT !.at = "setRole", !.email = p, !.role = role])
    BY <1>6 DEF SetRoleCheck
  <2>. DEFINE rec == [Idle EXCEPT !.at = "setRole", !.email = p, !.role = role]
  <2>2. role \in Role /\ role # "owner" /\ p \in People /\ user[p] \in Role
    BY MembershipAssumption DEF Grantable, Members
  <2>3. rec.at = "setRole" /\ rec.email = p /\ rec.role = role
    BY DEF Idle
  <2>5. rec \in Request
    BY <2>2, IdleType DEF Request
  <2>4. Serve(q, rec) /\ alive' = alive
    BY <1>6, <2>1 DEF SetRoleCheck
  <2>. HIDE DEF rec
  <2>. QED  BY <1>1, <2>1, <2>2, <2>3, <2>4, <2>5 DEF Arrives, Inviting
<1>7. CASE LeaveCheck(q)
  <2>1. PICK p \in Members : Serve(q, [Idle EXCEPT !.at = "leave", !.email = p, !.role = user[p]])
    BY <1>7 DEF LeaveCheck
  <2>. DEFINE rec == [Idle EXCEPT !.at = "leave", !.email = p, !.role = user[p]]
  <2>2. p \in People /\ user[p] \in Role
    BY DEF Members
  <2>3. rec.at = "leave" /\ rec.email = p /\ rec.role = user[p]
    BY DEF Idle
  <2>5. rec \in Request
    BY <2>2, IdleType DEF Request
  <2>4. Serve(q, rec) /\ alive' = alive
    BY <1>7, <2>1 DEF LeaveCheck
  <2>. HIDE DEF rec
  <2>. QED  BY <1>1, <2>2, <2>3, <2>4, <2>5 DEF Arrives, Inviting
<1>. QED  BY <1>2, <1>3, <1>4, <1>5, <1>6, <1>7

LEMMA TallySteps ==
    ASSUME TypeOK, Holds, NEW q \in Requests, CountMembers(q) \/ CountPending(q)
    PROVE  Arrives(q) /\ request' \in [Requests -> Request]
<1>. request \in [Requests -> Request] /\ request[q] \in Request
  BY DEF TypeOK
<1>0. Cardinality(Members) \in Int /\ Cardinality(Pending) \in Int
  BY FS_CardinalityType, FS_Subset, MembershipAssumption DEF Members, Pending
<1>1. request[q].email \in People /\ request[q].role # "owner" /\ request[q].at = "counts"
  BY DEF CountMembers, CountPending, Holds, Inviting
<1>2. ASSUME NEW members \in Int, NEW pending \in Int, Tally(q, members, pending)
      PROVE  /\ request' \in [Requests -> Request]
             /\ request'[q].at \in {"counts", "supersede", "idle"}
             /\ request'[q].at = "counts" =>
                  /\ request'[q].members = members /\ request'[q].pending = pending
                  /\ request'[q].limit = request[q].limit
             /\ request'[q].at = "supersede" =>
                  /\ members # -1 /\ pending # -1
                  /\ Within(members + pending, request[q].limit)
             /\ request'[q].at # "idle" =>
                  request'[q].email = request[q].email /\ request'[q].role = request[q].role
  <2>. DEFINE half == [request[q] EXCEPT !.members = members, !.pending = pending]
              on == [Idle EXCEPT !.at = "supersede", !.email = request[q].email,
                                 !.role = request[q].role]
  <2>1. /\ half \in Request /\ half.at = "counts" /\ half.members = members
        /\ half.pending = pending /\ half.limit = request[q].limit
        /\ half.email = request[q].email /\ half.role = request[q].role
    BY <1>1 DEF Request
  <2>2. on.at = "supersede" /\ on.email = request[q].email /\ on.role = request[q].role
    BY DEF Idle
  <2>4. on \in Request
    BY <1>1, IdleType DEF Request
  <2>3. request' = [request EXCEPT ![q] =
            IF members = -1 \/ pending = -1 THEN half
            ELSE IF Within(members + pending, request[q].limit) THEN on ELSE Idle]
    BY <1>2 DEF Tally
  <2>. HIDE DEF half, on
  <2>. QED  BY <2>1, <2>2, <2>3, <2>4, IdleType
<1>3. request[q].members \in Int /\ request[q].pending \in Int
  BY DEF Request
<1>4. CASE CountMembers(q)
  <2>1. Tally(q, Cardinality(Members), request[q].pending)
    BY <1>4 DEF CountMembers
  <2>. QED  BY <1>0, <1>1, <1>2, <1>3, <1>4, <2>1 DEF Arrives, Inviting
<1>5. CASE CountPending(q)
  <2>1. Tally(q, request[q].members, Cardinality(Pending))
    BY <1>5 DEF CountPending
  <2>. QED  BY <1>0, <1>1, <1>2, <1>3, <1>5, <2>1 DEF Arrives, Inviting
<1>. QED  BY <1>4, <1>5

LEMMA GoSteps ==
    ASSUME TypeOK, Holds, NEW q \in Requests,
           InviteLimits(q) \/ InviteSupersede(q) \/ DissolveRefused(q)
    PROVE  Arrives(q) /\ request' \in [Requests -> Request]
<1>. request \in [Requests -> Request] /\ request[q] \in Request /\ limit \in Limits
  BY DEF TypeOK
<1>1. CASE InviteLimits(q)
  <2>. DEFINE rec == [request[q] EXCEPT !.at = "counts", !.limit = limit]
  <2>1. /\ rec \in Request /\ rec.at = "counts" /\ rec.limit = limit
        /\ rec.email = request[q].email /\ rec.role = request[q].role
        /\ rec.members = request[q].members /\ rec.pending = request[q].pending
    BY DEF Request
  <2>2. request' = [request EXCEPT ![q] = rec] /\ request[q].at = "limits"
    BY <1>1 DEF InviteLimits
  <2>. HIDE DEF rec
  <2>3. request'[q] = rec
    BY <2>2
  <2>. QED  BY <2>1, <2>2, <2>3 DEF Arrives, Holds, Inviting
<1>2. ASSUME NEW at \in {"insert", "refused"}, GoTo(q, at)
      PROVE  /\ request' \in [Requests -> Request] /\ request'[q].at = at
             /\ request'[q].email = request[q].email /\ request'[q].role = request[q].role
  BY <1>2 DEF GoTo, Request
<1>3. CASE InviteSupersede(q)
  BY <1>2, <1>3 DEF InviteSupersede, Arrives, Holds, Inviting
<1>4. CASE DissolveRefused(q)
  BY <1>2, <1>4 DEF DissolveRefused, Arrives, Inviting
<1>. QED  BY <1>1, <1>3, <1>4

\* A request waits, is over, or has done something itself.
LEMMA RequestSteps ==
    ASSUME TypeOK, Holds, Next
    PROVE  /\ request' \in [Requests -> Request]
           /\ \A q \in Requests :
                 request'[q] = request[q] \/ request'[q] = Idle \/ Arrives(q)
<1>. request \in [Requests -> Request]
  BY DEF TypeOK
<1>. DEFINE Fine == /\ request' \in [Requests -> Request]
                    /\ \A q \in Requests :
                          request'[q] = request[q] \/ request'[q] = Idle \/ Arrives(q)
<1>1. CASE UNCHANGED request
  BY <1>1
<1>2. ASSUME NEW r \in Requests, Answer(r) PROVE Fine
  BY <1>2, IdleType DEF Answer
<1>3. ASSUME NEW r \in Requests, Arrives(r), request' \in [Requests -> Request],
             \A q \in Requests : q # r => request'[q] = request[q]
      PROVE  Fine
  BY <1>3
<1>4. ASSUME NEW r \in Requests,
             \/ GoogleFind(r) \/ InviteCheck(r) \/ RevokeRead(r) \/ AcceptRead(r)
             \/ SetRoleCheck(r) \/ LeaveCheck(r)
      PROVE  Fine
  <2>1. \A q \in Requests : q # r => request'[q] = request[q]
    BY <1>4 DEF GoogleFind, InviteCheck, RevokeRead, AcceptRead, SetRoleCheck, LeaveCheck, Serve
  <2>. HIDE DEF Fine
  <2>. QED  BY <1>3, <1>4, <2>1, ServeSteps
<1>5. ASSUME NEW r \in Requests, CountMembers(r) \/ CountPending(r) PROVE Fine
  <2>1. \A q \in Requests : q # r => request'[q] = request[q]
    BY <1>5 DEF CountMembers, CountPending, Tally
  <2>. HIDE DEF Fine
  <2>. QED  BY <1>3, <1>5, <2>1, TallySteps
<1>6. ASSUME NEW r \in Requests, InviteLimits(r) \/ InviteSupersede(r) \/ DissolveRefused(r)
      PROVE  Fine
  <2>1. \A q \in Requests : q # r => request'[q] = request[q]
    BY <1>6 DEF InviteLimits, InviteSupersede, DissolveRefused, GoTo
  <2>. HIDE DEF Fine
  <2>. QED  BY <1>3, <1>6, <2>1, GoSteps
<1>7. ASSUME NEW r \in Requests,
             \/ GoogleCreate(r) \/ InviteInsert(r) \/ RevokeUpdate(r) \/ AcceptClaim(r)
             \/ SetRoleUpdate(r) \/ Fails(r)
      PROVE  Fine
  <2>. HIDE DEF Fine
  <2>. QED  BY <1>2, <1>7 DEF GoogleCreate, InviteInsert, RevokeUpdate, AcceptClaim,
                              SetRoleUpdate, Fails
<1>8. ASSUME NEW r \in Requests, Leave(r) \/ Dissolve(r) PROVE Fine
  <2>1. ASSUME NEW kept, request' = [q \in Requests |-> IF q \in kept THEN request[q] ELSE Idle]
        PROVE  Fine
    BY <2>1, IdleType
  <2>. DEFINE K == {q \in Requests : ~ /\ request[q].at \in {"leave", "setRole"}
                                       /\ request[q].email = request[r].email}
              S == {q \in Requests : request[q].at = "signUp"}
  <2>2. CASE Leave(r)
    <3>1. request' = [q \in Requests |-> IF q \in K THEN request[q] ELSE Idle]
      BY <2>2 DEF Leave, DropRoleChanges
    <3>. HIDE DEF K, Fine
    <3>. QED  BY <2>1, <3>1
  <2>3. CASE Dissolve(r)
    <3>1. request' = [q \in Requests |-> IF q \in S THEN request[q] ELSE Idle]
      BY <2>3 DEF Dissolve
    <3>. HIDE DEF S, Fine
    <3>. QED  BY <2>1, <3>1
  <2>. QED  BY <1>8, <2>2, <2>3
<1>9. CASE (\E p \in People : Register(p)) \/ PublishCarousel \/ ChangePlan
  BY <1>1, <1>9 DEF Register, PublishCarousel, ChangePlan
<1>. HIDE DEF Fine
<1>10. ASSUME NEW r \in Requests, Handle(r) PROVE Fine
  BY <1>4, <1>5, <1>6, <1>7, <1>8, <1>10
  DEF Handle, Invitations, RoleChanges, Departures, SignUps
<1>. QED  BY <1>9, <1>10 DEF Next, Fine

-----------------------------------------------------------------------------
(* What becomes of the tables. *)

LEMMA UserSteps ==
    ASSUME TypeOK, Holds, Next
    PROVE  \/ user' = user
           \/ \E p \in People : user[p] = "none" /\ user' = [user EXCEPT ![p] = "elsewhere"]
           \/ \E r \in Requests : AcceptClaim(r) \/ SetRoleUpdate(r) \/ Leave(r) \/ Dissolve(r)
<1>1. ASSUME NEW r \in Requests, Invitations(r) \/ Fails(r)
      PROVE  user' = user \/ AcceptClaim(r)
  BY <1>1 DEF Invitations, InviteCheck, InviteLimits, CountMembers, CountPending,
              InviteSupersede, InviteInsert, RevokeRead, RevokeUpdate, AcceptRead, Fails
<1>2. ASSUME NEW r \in Requests, RoleChanges(r) \/ Departures(r)
      PROVE  user' = user \/ SetRoleUpdate(r) \/ Leave(r) \/ Dissolve(r)
  BY <1>2 DEF RoleChanges, SetRoleCheck, Departures, LeaveCheck, DissolveRefused
<1>3. ASSUME NEW r \in Requests, SignUps(r)
      PROVE  \/ user' = user
             \/ \E p \in People : user[p] = "none" /\ user' = [user EXCEPT ![p] = "elsewhere"]
  BY <1>3 DEF SignUps, GoogleFind, GoogleCreate, Holds
<1>4. CASE (\E p \in People : Register(p)) \/ PublishCarousel \/ ChangePlan
  BY <1>4 DEF Register, PublishCarousel, ChangePlan
<1>. QED  BY <1>1, <1>2, <1>3, <1>4 DEF Next, Handle

LEMMA InviteSteps ==
    ASSUME Next
    PROVE  \/ invite' = invite
           \/ \E r \in Requests : \/ InviteSupersede(r) \/ InviteInsert(r) \/ RevokeUpdate(r)
                                  \/ AcceptClaim(r) \/ Dissolve(r)
<1>1. ASSUME NEW r \in Requests, Invitations(r) \/ Fails(r)
      PROVE  \/ invite' = invite
             \/ InviteSupersede(r) \/ InviteInsert(r) \/ RevokeUpdate(r) \/ AcceptClaim(r)
  BY <1>1 DEF Invitations, InviteCheck, InviteLimits, CountMembers, CountPending,
              RevokeRead, AcceptRead, Fails
<1>2. ASSUME NEW r \in Requests, RoleChanges(r) \/ Departures(r) \/ SignUps(r)
      PROVE  invite' = invite \/ Dissolve(r)
  BY <1>2 DEF RoleChanges, SetRoleCheck, SetRoleUpdate, Departures, LeaveCheck, Leave,
              DissolveRefused, SignUps, GoogleFind, GoogleCreate
<1>3. CASE (\E p \in People : Register(p)) \/ PublishCarousel \/ ChangePlan
  BY <1>3 DEF Register, PublishCarousel, ChangePlan
<1>. QED  BY <1>1, <1>2, <1>3 DEF Next, Handle

LEMMA OtherSteps ==
    ASSUME Next
    PROVE  /\ minted' = minted \/ \E r \in Requests : AcceptClaim(r)
           /\ alive' = alive \/ (alive' = FALSE /\ \E r \in Requests : Dissolve(r))
           /\ carousel' = carousel \/ carousel' = TRUE
           /\ (limit' = limit /\ peak' = peak) \/ ChangePlan
<1>1. ASSUME NEW r \in Requests, Invitations(r) \/ Fails(r)
      PROVE  /\ UNCHANGED <<alive, carousel, limit, peak>>
             /\ minted' = minted \/ AcceptClaim(r)
  BY <1>1 DEF Invitations, InviteCheck, InviteLimits, CountMembers, CountPending,
              InviteSupersede, InviteInsert, RevokeRead, RevokeUpdate, AcceptRead, AcceptClaim,
              Fails
<1>2. ASSUME NEW r \in Requests, RoleChanges(r) \/ Departures(r) \/ SignUps(r)
      PROVE  /\ UNCHANGED <<carousel, limit, peak, minted>>
             /\ alive' = alive \/ (alive' = FALSE /\ Dissolve(r))
  BY <1>2 DEF RoleChanges, SetRoleCheck, SetRoleUpdate, Departures, LeaveCheck, Leave,
              Dissolve, DissolveRefused, SignUps, GoogleFind, GoogleCreate
<1>3. CASE (\E p \in People : Register(p)) \/ PublishCarousel \/ ChangePlan
  BY <1>3 DEF Register, PublishCarousel, ChangePlan
<1>. QED  BY <1>1, <1>2, <1>3 DEF Next, Handle

LEMMA UserRows ==
    ASSUME Core, Next
    PROVE  /\ user' \in [People -> Standing]
           /\ \A p \in People :
                 \/ user'[p] = user[p]
                 \/ user[p] = "none" /\ user'[p] = "elsewhere"
                 \/ /\ alive /\ user[p] = "none"
                    /\ \E i \in Invites : invite[i].status = "pending" /\ user'[p] = invite[i].role
                 \/ \E r \in Requests :
                       /\ request[r].at = "setRole" /\ p = request[r].email
                       /\ user'[p] = request[r].role
                 \/ /\ user'[p] = "none"
                    /\ \E r \in Requests :
                          request[r].at = "leave" /\ request[r].role # "owner"
                          /\ p = request[r].email
                 \/ (\E r \in Requests : Dissolve(r)) /\ user[p] \in Role /\ user'[p] = "none"
<1>. TypeOK /\ Holds /\ Offers
  BY DEF Core
<1>. user \in [People -> Standing]
  BY DEF TypeOK
<1>1. \A r \in Requests : request[r].role \in Role /\ request[r] \in Request
  BY DEF TypeOK, Request
<1>2. CASE user' = user
  BY <1>2
<1>3. CASE \E p \in People : user[p] = "none" /\ user' = [user EXCEPT ![p] = "elsewhere"]
  BY <1>3 DEF Standing
<1>4. ASSUME NEW r \in Requests, AcceptClaim(r)
      PROVE  \E i \in Invites :
                /\ alive /\ invite[i].status = "pending" /\ invite[i].role \in Role
                /\ invite[i].email \in People /\ user[invite[i].email] = "none"
                /\ user' = [user EXCEPT ![invite[i].email] = invite[i].role]
  <2>1. request[r].invite \in Invites
    BY <1>4 DEF AcceptClaim, Holds
  <2>2. invite[request[r].invite].role \in Role
    BY <2>1 DEF TypeOK, Invite
  <2>. QED  BY <1>4, <2>1, <2>2 DEF AcceptClaim, Mint, Offers
<1>5. CASE \E r \in Requests : AcceptClaim(r)
  BY <1>4, <1>5 DEF Standing
<1>6. ASSUME NEW r \in Requests, SetRoleUpdate(r)
      PROVE  /\ request[r].at = "setRole" /\ request[r].email \in People
             /\ user' = [user EXCEPT ![request[r].email] = request[r].role]
  BY <1>6 DEF SetRoleUpdate, Holds
<1>7. CASE \E r \in Requests : SetRoleUpdate(r)
  BY <1>1, <1>6, <1>7 DEF Standing
<1>8. ASSUME NEW r \in Requests, Leave(r)
      PROVE  /\ request[r].at = "leave" /\ request[r].role # "owner"
             /\ request[r].email \in People
             /\ user' = [user EXCEPT ![request[r].email] = "none"]
  BY <1>8 DEF Leave, Holds
<1>9. CASE \E r \in Requests : Leave(r)
  BY <1>8, <1>9 DEF Standing
<1>10. CASE \E r \in Requests : Dissolve(r)
  BY <1>10 DEF Dissolve, Members, Standing
<1>. QED  BY <1>2, <1>3, <1>5, <1>7, <1>9, <1>10, UserSteps

LEMMA InviteRows ==
    ASSUME Core, Next
    PROVE  /\ invite' \in [Invites -> Invite]
           /\ \A i \in Invites :
                 \/ invite'[i] = invite[i]
                 \/ /\ invite[i].status # "none" \/ alive
                    /\ invite'[i].status \in {"revoked", "accepted"}
                    /\ invite'[i].role = invite[i].role
                 \/ /\ alive /\ invite[i].status = "none" /\ invite'[i].status = "pending"
                    /\ \E r \in Requests :
                          /\ InviteInsert(r)
                          /\ invite'[i].email = request[r].email
                          /\ invite'[i].role = request[r].role
                 \/ (\E r \in Requests : Dissolve(r)) /\ invite'[i] = NoInvitation
<1>. TypeOK /\ Holds
  BY DEF Core
<1>. invite \in [Invites -> Invite] /\ \A r \in Requests : request[r] \in Request
  BY DEF TypeOK
<1>0. \A i \in Invites, s \in {"revoked", "accepted"} :
        LET new == [invite[i] EXCEPT !.status = s] IN
        new \in Invite /\ new.status = s /\ new.role = invite[i].role
  BY DEF Invite
<1>1. CASE invite' = invite
  BY <1>1
<1>2. ASSUME NEW r \in Requests, InviteSupersede(r)
      PROVE  /\ invite' \in [Invites -> Invite]
             /\ \A i \in Invites :
                   \/ invite'[i] = invite[i]
                   \/ /\ invite[i].status # "none"
                      /\ invite'[i].status \in {"revoked", "accepted"}
                      /\ invite'[i].role = invite[i].role
  <2>. DEFINE S == {i \in Pending : invite[i].email = request[r].email}
              new(i) == [invite[i] EXCEPT !.status = "revoked"]
  <2>1. invite' = [i \in Invites |-> IF i \in S THEN new(i) ELSE invite[i]]
    BY <1>2 DEF InviteSupersede
  <2>2. \A i \in S : invite[i].status # "none"
    BY DEF Pending
  <2>3. \A i \in Invites :
          new(i) \in Invite /\ new(i).status = "revoked" /\ new(i).role = invite[i].role
    BY <1>0
  <2>. HIDE DEF S, new
  <2>. QED  BY <2>1, <2>2, <2>3
<1>3. ASSUME NEW r \in Requests, InviteInsert(r)
      PROVE  /\ invite' \in [Invites -> Invite]
             /\ \A i \in Invites :
                   \/ invite'[i] = invite[i]
                   \/ /\ alive /\ invite[i].status = "none" /\ invite'[i].status = "pending"
                      /\ invite'[i].email = request[r].email
                      /\ invite'[i].role = request[r].role
  <2>. DEFINE new == [status |-> "pending", email |-> request[r].email, role |-> request[r].role]
  <2>1. new \in Invite
    BY DEF Invite, Request
  <2>2. /\ new.status = "pending" /\ new.email = request[r].email
        /\ new.role = request[r].role
    OBVIOUS
  <2>3. alive /\ \E i \in Invites : invite[i].status = "none" /\ invite' = [invite EXCEPT ![i] = new]
    BY <1>3 DEF InviteInsert
  <2>. HIDE DEF new
  <2>. QED  BY <2>1, <2>2, <2>3
<1>4. ASSUME NEW i \in Invites, NEW s \in {"revoked", "accepted"}, alive,
             invite' = [invite EXCEPT ![i].status = s]
      PROVE  /\ invite' \in [Invites -> Invite]
             /\ \A j \in Invites :
                   \/ invite'[j] = invite[j]
                   \/ /\ invite'[j].status \in {"revoked", "accepted"}
                      /\ invite'[j].role = invite[j].role
  <2>. DEFINE new == [invite[i] EXCEPT !.status = s]
  <2>1. invite' = [invite EXCEPT ![i] = new]
    BY <1>4
  <2>2. new \in Invite /\ new.status = s /\ new.role = invite[i].role
    BY <1>0
  <2>. HIDE DEF new
  <2>. QED  BY <2>1, <2>2
<1>5. ASSUME NEW r \in Requests, RevokeUpdate(r) \/ AcceptClaim(r)
      PROVE  \E i \in Invites, s \in {"revoked", "accepted"} :
                alive /\ invite' = [invite EXCEPT ![i].status = s]
  <2>1. request[r].invite \in Invites
    BY <1>5 DEF RevokeUpdate, AcceptClaim, Holds
  <2>. QED  BY <1>5, <2>1 DEF RevokeUpdate, AcceptClaim, Mint
<1>6. ASSUME NEW r \in Requests, Dissolve(r)
      PROVE  invite' \in [Invites -> Invite] /\ \A i \in Invites : invite'[i] = NoInvitation
  <2>1. NoInvitation \in Invite
    BY DEF NoInvitation, Invite, Role
  <2>. QED  BY <1>6, <2>1 DEF Dissolve
<1>. QED
  <2>1. ASSUME NEW r \in Requests, RevokeUpdate(r) \/ AcceptClaim(r)
        PROVE  /\ alive /\ invite' \in [Invites -> Invite]
               /\ \A j \in Invites :
                     \/ invite'[j] = invite[j]
                     \/ /\ invite'[j].status \in {"revoked", "accepted"}
                        /\ invite'[j].role = invite[j].role
    BY <1>4, <1>5, <2>1
  <2>2. CASE \E r \in Requests : InviteSupersede(r)
    BY <1>2, <2>2
  <2>3. CASE \E r \in Requests : InviteInsert(r)
    BY <1>3, <2>3
  <2>4. CASE \E r \in Requests : RevokeUpdate(r) \/ AcceptClaim(r)
    BY <2>1, <2>4
  <2>5. CASE \E r \in Requests : Dissolve(r)
    BY <1>6, <2>5
  <2>. QED  BY <1>1, <2>2, <2>3, <2>4, <2>5, InviteSteps

\* Only a claim makes a user, of an invitation that is pending.
LEMMA MintedRows ==
    ASSUME Core, Next
    PROVE  /\ minted' \in [Invites -> Nat]
           /\ \A i \in Invites :
                 \/ minted'[i] = minted[i]
                 \/ /\ invite[i].status = "pending" /\ invite'[i].status = "accepted"
                    /\ minted'[i] = minted[i] + 1
<1>. TypeOK /\ Holds
  BY DEF Core
<1>. minted \in [Invites -> Nat] /\ invite \in [Invites -> Invite]
  BY DEF TypeOK
<1>1. ASSUME NEW r \in Requests, AcceptClaim(r)
      PROVE  /\ request[r].invite \in Invites /\ invite[request[r].invite].status = "pending"
             /\ minted' = [minted EXCEPT ![request[r].invite] = @ + 1]
             /\ invite' = [invite EXCEPT ![request[r].invite].status = "accepted"]
  BY <1>1 DEF AcceptClaim, Mint, Holds
<1>2. ASSUME NEW i \in Invites, invite' = [invite EXCEPT ![i].status = "accepted"]
      PROVE  invite'[i].status = "accepted"
  <2>1. [invite[i] EXCEPT !.status = "accepted"].status = "accepted"
    BY DEF Invite
  <2>. QED  BY <1>2, <2>1
<1>3. ASSUME NEW r \in Requests, AcceptClaim(r)
      PROVE  /\ minted' \in [Invites -> Nat]
             /\ \A i \in Invites :
                   \/ minted'[i] = minted[i]
                   \/ /\ invite[i].status = "pending" /\ invite'[i].status = "accepted"
                      /\ minted'[i] = minted[i] + 1
  <2>1. PICK i \in Invites :
            /\ invite[i].status = "pending" /\ minted' = [minted EXCEPT ![i] = minted[i] + 1]
            /\ invite' = [invite EXCEPT ![i].status = "accepted"]
    BY <1>1, <1>3
  <2>2. invite'[i].status = "accepted"
    BY <1>2, <2>1
  <2>3. minted[i] + 1 \in Nat
    OBVIOUS
  <2>. QED  BY <2>1, <2>2, <2>3
<1>4. CASE minted' = minted
  BY <1>4
<1>. QED  BY <1>3, <1>4, OtherSteps

LEMMA CapsRows ==
    ASSUME Core, Next
    PROVE  /\ limit' \in Limits /\ peak' \in Int
           /\ peak' # -1 => /\ peak # -1 /\ peak <= peak'
                            /\ limit' >= 1 /\ limit' <= peak'
           /\ peak' = -1 \/ peak' >= 1
<1>. /\ limit \in Limits /\ peak \in Int /\ Limits \subseteq {-1} \cup (Nat \ {0})
     /\ peak = -1 \/ peak >= 1
     /\ peak # -1 => limit >= 1 /\ limit <= peak
  BY MembershipAssumption DEF Core, TypeOK, Caps
<1>1. CASE limit' = limit /\ peak' = peak
  BY <1>1
<1>2. CASE ChangePlan
  BY <1>2 DEF ChangePlan, Wider
<1>. QED  BY <1>1, <1>2, OtherSteps

LEMMA TypesKept == ASSUME Core, Next PROVE TypeOK'
<1>1. request' \in [Requests -> Request]
  BY RequestSteps DEF Core
<1>2. alive' \in BOOLEAN /\ carousel' \in BOOLEAN
  BY OtherSteps DEF Core, TypeOK
<1>. QED  BY <1>1, <1>2, UserRows, InviteRows, MintedRows, CapsRows DEF TypeOK

-----------------------------------------------------------------------------
(* What each step keeps. *)

LEMMA HoldsKept == ASSUME Core, Next PROVE Holds'
<1>1. ASSUME NEW q \in Requests
      PROVE  /\ request'[q].at \in Inviting \cup {"setRole", "leave", "signUp"} =>
                    request'[q].email \in People
             /\ request'[q].at \in Inviting \cup {"setRole"} => request'[q].role # "owner"
             /\ request'[q].at \in {"revoke", "claim"} => request'[q].invite \in Invites
             /\ request'[q].at = "limits" =>
                    request'[q].members = -1 /\ request'[q].pending = -1
  <2>1. CASE request'[q] = request[q]
    BY <2>1 DEF Core, Holds
  <2>2. CASE request'[q] = Idle
    BY <2>2, IdleType DEF Inviting
  <2>3. CASE Arrives(q)
    BY <2>3 DEF Arrives
  <2>. QED  BY <2>1, <2>2, <2>3, RequestSteps DEF Core
<1>. QED  BY <1>1 DEF Holds, Inviting

LEMMA OffersKept == ASSUME Core, Next PROVE Offers'
<1>1. ASSUME NEW i \in Invites
      PROVE  /\ invite'[i].role # "owner"
             /\ invite'[i].status = "pending" => invite'[i].email \in People
  <2>1. invite[i].role # "owner" /\ (invite[i].status = "pending" => invite[i].email \in People)
    BY DEF Core, Offers
  <2>2. ASSUME NEW r \in Requests, InviteInsert(r)
        PROVE  request[r].role # "owner" /\ request[r].email \in People
    BY <2>2 DEF InviteInsert, Core, Holds, Inviting
  <2>3. NoInvitation.role # "owner" /\ NoInvitation.status # "pending"
    BY DEF NoInvitation
  <2>. QED  BY <2>1, <2>2, <2>3, InviteRows
<1>. QED  BY <1>1 DEF Offers

\* The founder is the only owner, and nobody is a member of what is gone.
LEMMA Standings ==
    ASSUME Core
    PROVE  /\ alive => user[Founder] = "owner"
           /\ \A p \in People : user[p] = "owner" => alive /\ p = Founder
           /\ \A p \in People : user[p] \in Role => alive
<1>1. Founder \in People
  BY MembershipAssumption
<1>. QED  BY <1>1 DEF Core, OneOwner, Dissolved

LEMMA OwnersRowKept == ASSUME Core, Next PROVE OwnersRow'
<1>1. ASSUME NEW q \in Requests
      PROVE  /\ request'[q].at = "setRole" => alive' /\ request'[q].email # Founder
             /\ request'[q].at = "leave" =>
                  alive' /\ (request'[q].role = "owner" <=> request'[q].email = Founder)
  <2>1. CASE request'[q] = Idle
    BY <2>1, IdleType
  <2>2. CASE request'[q] = request[q] /\ alive' = alive
    BY <2>2 DEF Core, OwnersRow
  <2>3. CASE Arrives(q)
    <3>1. /\ request'[q].at \in {"setRole", "leave"} => request'[q].email \in People
          /\ request'[q].at = "setRole" =>
               /\ user[request'[q].email] \in Role /\ user[request'[q].email] # "owner"
               /\ alive' = alive
          /\ request'[q].at = "leave" =>
               /\ user[request'[q].email] \in Role /\ alive' = alive
               /\ request'[q].role = user[request'[q].email]
      BY <2>3 DEF Arrives
    <3>. QED  BY <3>1, Standings
  <2>4. ASSUME NEW r \in Requests, Dissolve(r)
        PROVE  request'[q] = Idle \/ request'[q].at = "signUp"
    BY <2>4 DEF Dissolve
  <2>5. CASE request'[q].at = "signUp"
    BY <2>5
  <2>. QED  BY <2>1, <2>2, <2>3, <2>4, <2>5, RequestSteps, OtherSteps DEF Core
<1>. QED  BY <1>1 DEF OwnersRow

LEMMA DissolvedKept == ASSUME Core, Next PROVE Dissolved'
<1>. user \in [People -> Standing] /\ invite \in [Invites -> Invite]
  BY DEF Core, TypeOK
<1>1. ASSUME NEW r \in Requests, Dissolve(r)
      PROVE  /\ \A p \in People : user'[p] \notin Role
             /\ \A i \in Invites : invite'[i].status = "none"
  BY <1>1 DEF Dissolve, NoInvitation, Members, Role
<1>2. ASSUME ~alive, alive' = alive
      PROVE  /\ \A p \in People : user'[p] \notin Role
             /\ \A i \in Invites : invite'[i].status = "none"
  <2>1. /\ \A p \in People : user[p] \notin Role
        /\ \A i \in Invites : invite[i].status = "none"
    BY <1>2 DEF Core, Dissolved
  <2>2. \A r \in Requests : request[r].at # "setRole"
    BY <1>2 DEF Core, OwnersRow
  <2>3. \A p \in People : user'[p] = user[p] \/ user'[p] \in {"none", "elsewhere"}
    BY <1>2, <2>1, <2>2, UserRows
  <2>4. NoInvitation.status = "none"
    BY DEF NoInvitation
  <2>5. \A i \in Invites : invite'[i].status = "none"
    BY <1>2, <2>1, <2>4, InviteRows
  <2>. QED  BY <2>1, <2>3, <2>5 DEF Role
<1>. QED  BY <1>1, <1>2, OtherSteps DEF Dissolved

LEMMA MintingKept == ASSUME Core, Next PROVE Minting'
<1>1. ASSUME NEW i \in Invites
      PROVE  /\ minted'[i] <= 1
             /\ invite'[i].status = "pending" => minted'[i] = 0
             /\ alive' /\ invite'[i].status = "none" => minted'[i] = 0
  <2>1. /\ minted[i] <= 1
        /\ invite[i].status = "pending" => minted[i] = 0
        /\ alive /\ invite[i].status = "none" => minted[i] = 0
        /\ minted[i] \in Nat
    BY DEF Core, Minting, TypeOK
  <2>2. \/ minted'[i] = minted[i]
        \/ invite'[i].status = "accepted" /\ minted'[i] = 1
    BY <2>1, MintedRows
  <2>3. NoInvitation.status = "none"
    BY DEF NoInvitation
  <2>4. ASSUME NEW r \in Requests, Dissolve(r) PROVE ~alive'
    BY <2>4 DEF Dissolve
  <2>5. alive' => alive
    BY OtherSteps
  <2>6. \/ invite'[i] = invite[i]
        \/ invite'[i].status \in {"revoked", "accepted"}
        \/ alive /\ invite[i].status = "none" /\ invite'[i].status = "pending"
        \/ ~alive' /\ invite'[i].status = "none"
    BY <2>3, <2>4, InviteRows
  <2>. QED  BY <2>1, <2>2, <2>5, <2>6
<1>. QED  BY <1>1 DEF Minting

LEMMA OneOwnerKept == ASSUME Core, Next PROVE OneOwner'
<1>1. CASE ~alive'
  BY <1>1, DissolvedKept DEF Dissolved, OneOwner, Role
<1>2. CASE alive'
  <2>1. alive /\ \A r \in Requests : ~Dissolve(r)
    BY <1>2, OtherSteps DEF Dissolve
  <2>2. ASSUME NEW p \in People PROVE user'[p] = "owner" <=> p = Founder
    <3>1. user[p] = "owner" <=> p = Founder
      BY <2>1, Standings
    <3>2. \A i \in Invites : invite[i].role # "owner"
      BY DEF Core, Offers
    <3>3. \A r \in Requests : request[r].at = "setRole" =>
             request[r].role # "owner" /\ request[r].email # Founder
      BY DEF Core, OwnersRow, Holds
    <3>4. \A r \in Requests : request[r].at = "leave" /\ request[r].role # "owner" =>
             request[r].email # Founder
      BY DEF Core, OwnersRow
    <3>. QED  BY <2>1, <3>1, <3>2, <3>3, <3>4, UserRows
  <2>3. Founder \in People
    BY MembershipAssumption
  <2>. QED  BY <1>2, <2>2, <2>3 DEF OneOwner
<1>. QED  BY <1>1, <1>2

LEMMA Sizes ==
    /\ \A S : S \subseteq Requests \/ S \subseteq Invites \/ S \subseteq People =>
          IsFiniteSet(S) /\ Cardinality(S) \in Nat
    /\ \A S, T : IsFiniteSet(S) /\ T \subseteq S => Cardinality(T) <= Cardinality(S)
    /\ \A S, T, x : IsFiniteSet(S) /\ x \in S /\ T \subseteq S \ {x} =>
          Cardinality(T) + 1 <= Cardinality(S)
    /\ \A S, T, x : IsFiniteSet(S) /\ T \subseteq S \cup {x} =>
          Cardinality(T) <= Cardinality(S) + 1
<1>1. \A S : IsFiniteSet(S) => Cardinality(S) \in Nat
  BY FS_CardinalityType
<1>2. \A S, T : IsFiniteSet(S) /\ T \subseteq S =>
          IsFiniteSet(T) /\ Cardinality(T) <= Cardinality(S)
  BY FS_Subset
<1>3. ASSUME NEW S, NEW T, NEW x, IsFiniteSet(S), x \in S, T \subseteq S \ {x}
      PROVE  Cardinality(T) + 1 <= Cardinality(S)
  <2>1. IsFiniteSet(S \ {x}) /\ Cardinality(S \ {x}) = Cardinality(S) - 1
    BY <1>3, FS_RemoveElement
  <2>2. Cardinality(T) <= Cardinality(S \ {x}) /\ IsFiniteSet(T)
    BY <1>2, <1>3, <2>1
  <2>. QED  BY <1>1, <1>3, <2>1, <2>2
<1>4. ASSUME NEW S, NEW T, NEW x, IsFiniteSet(S), T \subseteq S \cup {x}
      PROVE  Cardinality(T) <= Cardinality(S) + 1
  <2>1. /\ IsFiniteSet(S \cup {x})
        /\ Cardinality(S \cup {x}) = Cardinality(S) \/ Cardinality(S \cup {x}) = Cardinality(S) + 1
    BY <1>4, FS_AddElement
  <2>2. Cardinality(T) <= Cardinality(S \cup {x}) /\ IsFiniteSet(T)
    BY <1>2, <1>4, <2>1
  <2>. QED  BY <1>1, <1>4, <2>1, <2>2
<1>5. IsFiniteSet(Requests) /\ IsFiniteSet(Invites) /\ IsFiniteSet(People)
  BY MembershipAssumption
<1>6. \A S : S \subseteq Requests \/ S \subseteq Invites \/ S \subseteq People =>
          IsFiniteSet(S)
  BY <1>2, <1>5
<1>. QED  BY <1>1, <1>2, <1>3, <1>4, <1>6

\* The owner takes a seat.
LEMMA OwnerSits == ASSUME Core, alive PROVE Cardinality(Members) \in Nat /\ Cardinality(Members) >= 1
<1>1. Founder \in Members
  BY Standings, MembershipAssumption DEF Members, Role
<1>2. IsFiniteSet(Members) /\ Cardinality(Members) \in Nat
  BY Sizes DEF Members
<1>3. Cardinality({}) + 1 <= Cardinality(Members)
  BY <1>1, <1>2, Sizes
<1>. QED  BY <1>2, <1>3, FS_EmptySet

LEMMA CountTypes ==
    ASSUME Core, NEW q \in Requests
    PROVE  request[q].limit \in Int /\ request[q].members \in Int /\ request[q].pending \in Int
<1>1. request[q] \in Request
  BY DEF Core, TypeOK
<1>2. Limits \cup {0} \subseteq Int
  BY MembershipAssumption
<1>. QED  BY <1>1, <1>2 DEF Request

LEMMA CapsKept == ASSUME Core, Next PROVE Caps'
<1>. /\ limit \in Limits /\ peak \in Int /\ Limits \subseteq {-1} \cup (Nat \ {0})
     /\ Caps /\ peak' \in Int
  BY CapsRows, MembershipAssumption DEF Core, TypeOK
<1>1. alive' => alive
  BY OtherSteps
<1>2. ASSUME NEW q \in Requests, request'[q].at = "counts"
      PROVE  /\ peak' # -1 => request'[q].limit >= 1 /\ request'[q].limit <= peak'
             /\ alive' => request'[q].members = -1 \/ request'[q].members >= 1
  <2>0. request[q].limit \in Int /\ request[q].members \in Int
    BY CountTypes
  <2>1. /\ peak # -1 => limit >= 1 /\ limit <= peak
        /\ request[q].at = "counts" =>
             /\ peak # -1 => request[q].limit >= 1 /\ request[q].limit <= peak
             /\ alive => request[q].members = -1 \/ request[q].members >= 1
    BY DEF Caps
  <2>2. CASE request'[q] = request[q]
    BY <1>1, <1>2, <2>0, <2>1, <2>2, CapsRows
  <2>3. CASE Arrives(q)
    <3>1. \/ request'[q].limit = limit /\ request'[q].members = -1
          \/ /\ request[q].at = "counts" /\ request'[q].limit = request[q].limit
             /\ request'[q].members \in {request[q].members, Cardinality(Members)}
      BY <1>2, <2>3 DEF Arrives
    <3>2. alive' => Cardinality(Members) >= 1
      BY <1>1, OwnerSits
    <3>. QED  BY <1>1, <2>0, <2>1, <3>1, <3>2, CapsRows
  <2>. QED  BY <1>2, <2>2, <2>3, RequestSteps, IdleType DEF Core
<1>. QED  BY <1>2, CapsRows DEF Caps

\* Whoever gets to add an invitation has just counted those there are.
LEMMA NewAdders ==
    ASSUME Core, Next, alive, peak # -1, NEW q \in Adding' \ Adding
    PROVE  invite' = invite /\ Cardinality(Pending) + 2 <= peak
<1>0. q \in Requests
  BY DEF Adding
<1>. /\ request[q].limit \in Int /\ request[q].members \in Int /\ request[q].pending \in Int
     /\ peak \in Int /\ Cardinality(Pending) \in Nat
  BY <1>0, Sizes, CountTypes DEF Core, TypeOK, Pending
<1>1. Arrives(q)
  BY <1>0, RequestSteps, IdleType DEF Core, Adding
<1>2. /\ request[q].at \notin {"supersede", "insert"}
      /\ request[q].at = "counts" /\ request[q].pending # -1 =>
           ~(request[q].pending + 2 <= request[q].limit)
  BY <1>0 DEF Adding
<1>3. /\ request[q].at = "counts" =>
             /\ request[q].limit >= 1 /\ request[q].limit <= peak
             /\ request[q].members = -1 \/ request[q].members >= 1
      /\ Cardinality(Members) >= 1 /\ Cardinality(Members) \in Nat
  BY <1>0, OwnerSits DEF Core, Caps
<1>4. CountPending(q) => invite' = invite /\ request[q].at = "counts"
  BY DEF CountPending
<1>5. CASE request'[q].at = "supersede"
  BY <1>1, <1>2, <1>3, <1>4, <1>5 DEF Arrives, Within
<1>6. CASE /\ request'[q].at = "counts" /\ request'[q].pending # -1
           /\ request'[q].pending + 2 <= request'[q].limit
  BY <1>1, <1>2, <1>3, <1>4, <1>6 DEF Arrives
<1>7. CASE request'[q].at = "insert"
  BY <1>1, <1>2, <1>7 DEF Arrives
<1>. QED  BY <1>0, <1>5, <1>6, <1>7 DEF Adding

LEMMA SeatsKept == ASSUME IInv, Next PROVE Seats'
<1>. SUFFICES ASSUME alive', peak' # -1
              PROVE  Cardinality(Pending') + Cardinality(Adding') + 2 <= peak' + Cardinality(Requests)
  BY DEF Seats
<1>0. Core
  BY DEF IInv
<1>1. alive /\ peak # -1 /\ peak \in Int /\ peak' \in Int /\ peak <= peak'
  BY <1>0, OtherSteps, CapsRows DEF Core, TypeOK
<1>2. Cardinality(Pending) + Cardinality(Adding) + 2 <= peak + Cardinality(Requests)
  BY <1>1 DEF IInv, Seats
<1>3. /\ Pending \subseteq Invites /\ Pending' \subseteq Invites
      /\ Adding \subseteq Requests /\ Adding' \subseteq Requests
  BY DEF Pending, Adding
<1>4. /\ Cardinality(Pending) \in Nat /\ Cardinality(Pending') \in Nat
      /\ Cardinality(Adding) \in Nat /\ Cardinality(Adding') \in Nat
      /\ Cardinality(Requests) \in Nat /\ Cardinality(Adding') <= Cardinality(Requests)
      /\ IsFiniteSet(Pending) /\ IsFiniteSet(Adding)
  BY <1>3, Sizes
<1>5. CASE \E q \in Requests : q \in Adding' \ Adding
  <2>1. invite' = invite /\ Cardinality(Pending) + 2 <= peak
    BY <1>0, <1>1, <1>5, NewAdders
  <2>2. Pending' = Pending
    BY <2>1 DEF Pending
  <2>. QED  BY <1>1, <1>4, <2>1, <2>2
<1>6. CASE Adding' \subseteq Adding /\ Pending' \subseteq Pending
  <2>1. Cardinality(Adding') <= Cardinality(Adding) /\ Cardinality(Pending') <= Cardinality(Pending)
    BY <1>4, <1>6, Sizes
  <2>. QED  BY <1>1, <1>2, <1>4, <2>1
<1>7. ASSUME NEW r \in Requests, InviteInsert(r), Adding' \subseteq Adding
      PROVE  Cardinality(Pending') + Cardinality(Adding') + 2 <= peak' + Cardinality(Requests)
  <2>1. r \in Adding /\ Adding' \subseteq Adding \ {r}
    <3>1. request' = [request EXCEPT ![r] = Idle] /\ request[r].at = "insert"
      BY <1>7 DEF InviteInsert, Answer
    <3>2. request'[r].at = "idle"
      BY <1>0, <3>1, IdleType DEF Core, TypeOK
    <3>. QED  BY <1>7, <3>1, <3>2 DEF Adding
  <2>2. Cardinality(Adding') + 1 <= Cardinality(Adding)
    BY <1>4, <2>1, Sizes
  <2>3. PICK i \in Invites :
            invite' = [invite EXCEPT ![i] = [status |-> "pending", email |-> request[r].email,
                                             role |-> request[r].role]]
    BY <1>7 DEF InviteInsert
  <2>4. Pending' \subseteq Pending \cup {i}
    <3>. DEFINE new == [status |-> "pending", email |-> request[r].email, role |-> request[r].role]
    <3>1. invite' = [invite EXCEPT ![i] = new] /\ invite \in [Invites -> Invite]
      BY <1>0, <2>3 DEF Core, TypeOK
    <3>. HIDE DEF new
    <3>2. \A j \in Invites : j # i => invite'[j] = invite[j]
      BY <3>1
    <3>. QED  BY <3>2 DEF Pending
  <2>5. Cardinality(Pending') <= Cardinality(Pending) + 1
    BY <1>4, <2>4, Sizes
  <2>. QED  BY <1>1, <1>2, <1>4, <2>2, <2>5
<1>8. Pending' \subseteq Pending \/ \E r \in Requests : InviteInsert(r)
  <2>1. NoInvitation.status # "pending"
    BY DEF NoInvitation
  <2>2. \A i \in Invites : \/ invite'[i].status = "pending" => invite[i].status = "pending"
                           \/ \E r \in Requests : InviteInsert(r)
    BY <1>0, <2>1, InviteRows
  <2>. QED  BY <2>2 DEF Pending
<1>. QED  BY <1>3, <1>5, <1>6, <1>7, <1>8

-----------------------------------------------------------------------------
(* The theorems. *)

LEMMA Initially == ASSUME Init PROVE IInv
<1>. Founder \in People /\ Limits \subseteq {-1} \cup (Nat \ {0}) /\ Nobody \notin People
  BY MembershipAssumption
<1>1. Idle.at = "idle" /\ Idle \in Request
  BY IdleType
<1>2. NoInvitation \in Invite /\ NoInvitation.status = "none" /\ NoInvitation.role = "viewer"
  BY DEF NoInvitation, Invite, Role
<1>3. \A r \in Requests : request[r].at = "idle" /\ request[r] \in Request
  BY <1>1 DEF Init
<1>4. \A i \in Invites : /\ invite[i] \in Invite /\ invite[i].status = "none"
                         /\ invite[i].role = "viewer" /\ minted[i] = 0
  BY <1>2 DEF Init
<1>5. TypeOK
  <2>1. user \in [People -> Standing]
    BY DEF Init, Standing, Role
  <2>2. request \in [Requests -> Request] /\ invite \in [Invites -> Invite]
    BY <1>1, <1>2 DEF Init
  <2>3. minted \in [Invites -> Nat] /\ limit \in Limits
    BY DEF Init
  <2>4. peak \in Int
    BY <2>3 DEF Init
  <2>5. alive \in BOOLEAN /\ carousel \in BOOLEAN
    BY DEF Init
  <2>. QED  BY <2>1, <2>2, <2>3, <2>4, <2>5 DEF TypeOK
<1>6. OneOwner /\ alive
  BY DEF Init, OneOwner
<1>7. limit \in Int /\ peak = limit /\ (peak = -1 \/ peak >= 1)
  BY DEF Init
<1>8. Core
  BY <1>3, <1>4, <1>5, <1>6, <1>7
  DEF Core, Holds, Offers, OwnersRow, Dissolved, Minting, Caps, Inviting
<1>9. Pending = {} /\ Adding = {}
  BY <1>3, <1>4 DEF Pending, Adding
<1>10. Cardinality(Requests) \in Nat /\ Cardinality(Requests) >= 1
  <2>1. PICK r \in Requests : TRUE
    BY MembershipAssumption
  <2>2. Cardinality({}) + 1 <= Cardinality(Requests)
    BY Sizes
  <2>. QED  BY <2>2, Sizes, FS_EmptySet
<1>. QED  BY <1>7, <1>8, <1>9, <1>10, FS_EmptySet DEF IInv, Seats

LEMMA Invariance == ASSUME IInv, [Next]_vars PROVE IInv'
<1>1. CASE Next
  BY <1>1, TypesKept, HoldsKept, OffersKept, OwnersRowKept, DissolvedKept, MintingKept,
     OneOwnerKept, CapsKept, SeatsKept DEF IInv, Core
<1>2. CASE UNCHANGED vars
  BY <1>2 DEF vars, IInv, Core, TypeOK, Holds, Offers, OwnersRow, Dissolved, Minting, OneOwner,
              Caps, Seats, Pending, Adding
<1>. QED  BY <1>1, <1>2

THEOREM Strengthened == Spec => []IInv
<1>. QED  BY Initially, Invariance, PTL DEF Spec

\* An organization has the one owner who founded it as long as it exists, and
\* none after: role changes of organizations.service.ts, invitations and the
\* deletions of account-data.service.ts cannot be interleaved to make another.
THEOREM FounderOwns == Spec => []OneOwner
<1>1. IInv => OneOwner
  BY DEF IInv, Core
<1>. QED  BY <1>1, Strengthened, PTL

\* An invitation makes one user at most: the claim of invites.service.ts is
\* guarded by the status that it changes.
THEOREM OneUseOnly == Spec => []OneUserPerInvite
<1>1. IInv => OneUserPerInvite
  BY DEF IInv, Core, Minting, OneUserPerInvite
<1>. QED  BY <1>1, Strengthened, PTL

\* However many requests overlap, and although the two counts of
\* assertCanAddTeamMember are taken at different moments, open invitations and
\* the owner exceed the widest cap by less than the number of requests.
THEOREM SeatsHold == Spec => []PendingBounded
<1>1. ASSUME IInv PROVE PendingBounded
  <2>. SUFFICES ASSUME peak >= 0
                PROVE  Cardinality(Pending) + 1 <= peak + Cardinality(Requests) - 1
    BY DEF PendingBounded
  <2>0. peak \in Int /\ peak # -1 /\ peak >= 1
    BY <1>1 DEF IInv, Core, TypeOK, Caps
  <2>1. /\ Cardinality(Pending) \in Nat /\ Cardinality(Adding) \in Nat
        /\ Cardinality(Requests) \in Nat
    BY Sizes DEF Pending, Adding
  <2>2. CASE alive
    BY <1>1, <2>0, <2>1, <2>2 DEF IInv, Seats
  <2>3. CASE ~alive
    <3>1. Pending = {}
      BY <1>1, <2>3 DEF IInv, Core, Dissolved, Pending
    <3>2. PICK r \in Requests : TRUE
      BY MembershipAssumption
    <3>3. Cardinality({}) + 1 <= Cardinality(Requests)
      BY <3>2, Sizes
    <3>. QED  BY <2>0, <2>1, <3>1, <3>3, FS_EmptySet
  <2>. QED  BY <2>2, <2>3
<1>. QED  BY <1>1, Strengthened, PTL

\* A revocation is final for whoever reads the invitation later and for whoever
\* read it before: only a pending invitation is claimed.
THEOREM RevokedIsOut == Spec => RevokedStaysOut
<1>1. ASSUME IInv, [Next]_vars
      PROVE  [\A i \in Invites : invite[i].status = "revoked" => minted'[i] = minted[i]]_vars
  <2>1. CASE Next
    BY <1>1, <2>1, MintedRows DEF IInv
  <2>2. CASE UNCHANGED vars
    BY <2>2
  <2>. QED  BY <1>1, <2>1, <2>2
<1>. QED  BY <1>1, Strengthened, PTL DEF Spec, RevokedStaysOut

=============================================================================
