------------------------------ MODULE Content ------------------------------
(***************************************************************************)
(* Designs and what comes of them: the assets of content.service.ts, their *)
(* review (approval.service.ts), the renditions made of them               *)
(* (variant-generator.service.ts) and the check of publishing.service.ts   *)
(* that a rendition may be published.                                      *)
(*                                                                         *)
(* Every handler reads the asset first and writes by its id later, without *)
(* looking again: what falls between is what this module is about.         *)
(***************************************************************************)
EXTENDS Integers, FiniteSets

CONSTANTS
    Assets,     \* bound: designs
    Platforms,  \* platforms that a rendition is asked for
    Jobs,       \* bound: rows of publish_job
    Requests,   \* requests that overlap; each serves many calls
    NoAsset

ASSUME ContentAssumption ==
    /\ IsFiniteSet(Requests) /\ Requests # {}
    /\ NoAsset \notin Assets

VARIABLES
    asset,    \* [Assets -> Asset], the table content_asset
    variant,  \* a set of <<asset, platform>>, the table content_variant
    job,      \* [Jobs -> Job], the table publish_job, less what Publishing has
    policy,   \* requiresApproval of the organization
    req       \* [Requests -> Request]

vars == <<asset, variant, job, policy, req>>

-----------------------------------------------------------------------------
(* State. *)

Approval == {"draft", "pending", "approved", "rejected"}
Role == {"editor", "admin"}

\* master: whether there is a masterImagePublicId.  cleared: an admin approved it
\* once (history).
Asset == [here : BOOLEAN, made : BOOLEAN, approval : Approval, master : BOOLEAN,
          cleared : BOOLEAN]

NoAssetRow == [here |-> FALSE, made |-> FALSE, approval |-> "draft", master |-> FALSE,
               cleared |-> FALSE]

Variant == Assets \X Platforms

\* under: whether approval was required when it was asked for (history).
Job == [here : BOOLEAN, asset : Assets \cup {NoAsset}, under : BOOLEAN]
NoJob == [here |-> FALSE, asset |-> NoAsset, under |-> FALSE]

\* overtaken: the asset's approval changed since it was read (history).
Request == [at : {"idle", "edit", "remove", "transition", "render", "record"},
            asset : Assets \cup {NoAsset}, role : Role, target : Approval,
            todo : SUBSET Platforms, under : BOOLEAN, overtaken : BOOLEAN]

Idle == [at |-> "idle", asset |-> NoAsset, role |-> "editor", target |-> "draft",
         todo |-> {}, under |-> FALSE, overtaken |-> FALSE]

Init ==
    /\ asset = [a \in Assets |-> NoAssetRow]
    /\ variant = {}
    /\ job = [j \in Jobs |-> NoJob]
    /\ policy \in BOOLEAN
    /\ req = [r \in Requests |-> Idle]

-----------------------------------------------------------------------------
(* Designs. *)

\* findByIdScoped: another organization's asset, or none, is a 404.
Find(r, a) == req[r].at = "idle" /\ asset[a].here

Begin(r, rec) == req' = [req EXCEPT ![r] = rec]
End(r) == req' = [req EXCEPT ![r] = Idle]

\* The row that r found, if it is still there; else the write throws.
Still(r, at) == req[r].at = at /\ asset[req[r].asset].here
Vanished(r, at) == req[r].at = at /\ ~asset[req[r].asset].here

Create(a) ==
    /\ ~asset[a].made
    /\ asset' = [asset EXCEPT ![a].here = TRUE, ![a].made = TRUE]
    /\ UNCHANGED <<variant, job, policy, req>>

FindToEdit(r) ==
    /\ \E a \in Assets : Find(r, a) /\ Begin(r, [Idle EXCEPT !.at = "edit", !.asset = a])
    /\ UNCHANGED <<asset, variant, job, policy>>

\* update: the canvas, a picture of it, or both.  Its approval and renditions stay
\* as they are.
Edit(r) ==
    LET a == req[r].asset IN
    /\ Still(r, "edit") /\ End(r)
    /\ asset' \in {asset, [asset EXCEPT ![a].master = TRUE]}
    /\ UNCHANGED <<variant, job, policy>>

FindToRemove(r) ==
    /\ \E a \in Assets : Find(r, a) /\ Begin(r, [Idle EXCEPT !.at = "remove", !.asset = a])
    /\ UNCHANGED <<asset, variant, job, policy>>

\* Mutant: the rows that refer to the renditions stay.
RemoveLeavesJobs(r) ==
    LET a == req[r].asset IN
    /\ Still(r, "remove") /\ End(r)
    /\ asset' = [asset EXCEPT ![a] = [NoAssetRow EXCEPT !.made = TRUE]]
    /\ variant' = {v \in variant : v[1] # a}
    /\ UNCHANGED <<job, policy>>

\* delete, and what the schema removes with it.
Remove(r) ==
    LET a == req[r].asset IN
    /\ Still(r, "remove") /\ End(r)
    /\ asset' = [asset EXCEPT ![a] = [NoAssetRow EXCEPT !.made = TRUE]]
    /\ variant' = {v \in variant : v[1] # a}
    /\ job' = [j \in Jobs |-> IF job[j].asset = a THEN NoJob ELSE job[j]]
    /\ UNCHANGED policy

\* Prisma's update and delete throw where the row is gone, as does an insert
\* whose foreign key finds nothing.
Refused(r) ==
    /\ \E at \in {"edit", "remove", "transition", "render", "record"} : Vanished(r, at)
    /\ End(r)
    /\ UNCHANGED <<asset, variant, job, policy>>

-----------------------------------------------------------------------------
(* Review. *)

\* Mutant: a draft may be approved.
ValidFromDraft(from) ==
    CASE from = "draft" -> {"pending", "approved"}
      [] from = "pending" -> {"approved", "rejected", "draft"}
      [] from = "approved" -> {"draft"}
      [] from = "rejected" -> {"draft", "pending"}

\* VALID_TRANSITIONS.
Valid(from) ==
    CASE from = "draft" -> {"pending"}
      [] from = "pending" -> {"approved", "rejected", "draft"}
      [] from = "approved" -> {"draft"}
      [] from = "rejected" -> {"draft", "pending"}

\* minRoleFor, and the editor that the route asks for.
RolesFor(target) == IF target \in {"approved", "rejected"} THEN {"admin"} ELSE Role

\* transition, its read and its checks.
CheckTransition(r) ==
    /\ \E a \in Assets : \E target \in Valid(asset[a].approval) : \E role \in RolesFor(target) :
        /\ Find(r, a)
        /\ Begin(r, [Idle EXCEPT !.at = "transition", !.asset = a, !.target = target,
                                 !.role = role])
    /\ UNCHANGED <<asset, variant, job, policy>>

\* transition, its write: by id, whatever the status is by now.
Transition(r) ==
    LET a == req[r].asset
        target == req[r].target
    IN
    /\ Still(r, "transition")
    /\ asset' = [asset EXCEPT ![a].approval = target,
            ![a].cleared = @ \/ (target = "approved" /\ req[r].role = "admin")]
    /\ req' = [q \in Requests |->
            IF q = r THEN Idle
            ELSE IF req[q].at = "transition" /\ req[q].asset = a
            THEN [req[q] EXCEPT !.overtaken = TRUE] ELSE req[q]]
    /\ UNCHANGED <<variant, job, policy>>

\* setPolicy.
SetPolicy ==
    /\ policy' = ~policy
    /\ UNCHANGED <<asset, variant, job, req>>

-----------------------------------------------------------------------------
(* Renditions. *)

\* generateVariants: there must be a master.
FindToRender(r) ==
    /\ \E a \in Assets, todo \in SUBSET Platforms \ {{}} :
        /\ Find(r, a) /\ asset[a].master
        /\ Begin(r, [Idle EXCEPT !.at = "render", !.asset = a, !.todo = todo])
    /\ UNCHANGED <<asset, variant, job, policy>>

\* One upsert on (assetId, platform).  The platforms before it keep what they got
\* when a later one fails.
Render(r) ==
    /\ Still(r, "render")
    /\ \E p \in req[r].todo :
        /\ variant' = variant \cup {<<req[r].asset, p>>}
        /\ IF req[r].todo = {p} THEN End(r) ELSE Begin(r, [req[r] EXCEPT !.todo = @ \ {p}])
    /\ UNCHANGED <<asset, job, policy>>

-----------------------------------------------------------------------------
(* Asking for a publication, at once or for later. *)

\* Mutant: the policy is not looked at.
ClearedAlways(a) == TRUE

\* The gate in loadAndValidate.
Cleared(a) == policy => asset[a].approval = "approved"

\* loadAndValidate: rendition, asset and organization come in one query.  The
\* account's part is in Publishing and SocialTokens.
Validate(r) ==
    /\ req[r].at = "idle"
    /\ \E v \in variant :
        /\ Cleared(v[1])
        /\ Begin(r, [Idle EXCEPT !.at = "record", !.asset = v[1], !.under = policy])
    /\ UNCHANGED <<asset, variant, job, policy>>

\* publishNow and schedule create the row.
Record(r) ==
    /\ Still(r, "record") /\ End(r)
    /\ \E j \in Jobs :
        /\ ~job[j].here
        /\ job' = [job EXCEPT ![j] = [here |-> TRUE, asset |-> req[r].asset, under |-> req[r].under]]
    /\ UNCHANGED <<asset, variant, policy>>

-----------------------------------------------------------------------------

Handle(r) ==
    \/ FindToEdit(r) \/ Edit(r) \/ FindToRemove(r) \/ Remove(r) \/ Refused(r)
    \/ CheckTransition(r) \/ Transition(r)
    \/ FindToRender(r) \/ Render(r) \/ Validate(r) \/ Record(r)

Next ==
    \/ \E a \in Assets : Create(a)
    \/ \E r \in Requests : Handle(r)
    \/ SetPolicy

Spec == Init /\ [][Next]_vars

-----------------------------------------------------------------------------
(* Properties. *)

TypeOK ==
    /\ asset \in [Assets -> Asset]
    /\ variant \subseteq Variant
    /\ job \in [Jobs -> Job]
    /\ policy \in BOOLEAN
    /\ req \in [Requests -> Request]

\* Nothing outlives its design, whichever requests about it are under way when it
\* is deleted.
NothingOrphaned ==
    /\ \A v \in variant : asset[v[1]].here
    /\ \A j \in Jobs : job[j].here => asset[job[j].asset].here

\* A publication that was asked for while approval was required is of a design
\* that an admin had approved, though the policy, the approval and the design may
\* all have changed since.
JobsCleared ==
    \A j \in Jobs : job[j].here /\ job[j].under => asset[job[j].asset].cleared

\* The moves of the comment above VALID_TRANSITIONS.
ReviewMoves ==
    {<<"draft", "pending">>, <<"pending", "approved">>, <<"pending", "rejected">>,
     <<"pending", "draft">>, <<"approved", "draft">>, <<"rejected", "draft">>,
     <<"rejected", "pending">>}

Moved(a) ==
    asset[a].here /\ asset'[a].here /\ asset'[a].approval # asset[a].approval

\* The state machine is left only by a request that another one overtook between
\* its read and its write.
IllegalOnlyByOverlap ==
    [][\A a \in Assets :
        Moved(a) /\ <<asset[a].approval, asset'[a].approval>> \notin ReviewMoves =>
        \E r \in Requests : req[r].at = "transition" /\ req[r].asset = a /\ req[r].overtaken]_vars

=============================================================================
