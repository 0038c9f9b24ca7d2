--------------------------- MODULE ContentProofs ---------------------------
(***************************************************************************)
(* For any number of designs, platforms, jobs and overlapping requests:    *)
(* nothing outlives its design, a job asked for while approval was         *)
(* required had it, and the review leaves its state machine only where     *)
(* one transition overtakes another.                                       *)
(***************************************************************************)
EXTENDS Content, TLAPS

-----------------------------------------------------------------------------
(* The strengthening. *)

\* A request that is under way is about an asset that exists or did; no job is of
\* anything else.
RequestsNameAssets ==
    \A r \in Requests : req[r].at # "idle" =>
        req[r].asset \in Assets /\ asset[req[r].asset].made

Known ==
    /\ RequestsNameAssets
    /\ \A a \in Assets : asset[a].here => asset[a].made
    /\ \A j \in Jobs : job[j].here => job[j].asset \in Assets

\* What is approved was approved by an admin, and so was what a publication under
\* the policy is about to be recorded of.
Reviewed ==
    /\ \A a \in Assets : asset[a].approval = "approved" => asset[a].cleared
    /\ \A r \in Requests :
        /\ req[r].at = "transition" /\ req[r].target = "approved" => req[r].role = "admin"
        /\ req[r].at = "record" /\ req[r].under /\ asset[req[r].asset].here =>
                asset[req[r].asset].cleared

\* Unless another overtook it, a transition still leads where the review allows.
Overtakes ==
    \A r \in Requests :
        req[r].at = "transition" /\ ~req[r].overtaken /\ asset[req[r].asset].here =>
            req[r].target \in Valid(asset[req[r].asset].approval)

IInv == TypeOK /\ Known /\ NothingOrphaned /\ Reviewed /\ JobsCleared /\ Overtakes

-----------------------------------------------------------------------------
(* Types. *)

LEMMA HelperTypes ==
    /\ NoAssetRow \in Asset /\ NoJob \in Job /\ Idle \in Request
    /\ \A from \in Approval : Valid(from) \subseteq Approval
    /\ \A target \in Approval : RolesFor(target) \subseteq Role
  BY DEF NoAssetRow, Asset, NoJob, Job, Idle, Request, Approval, Role, Valid, RolesFor

\* Whatever a request is about, TypeOK is kept by an action that leaves the
\* requests in their type and changes one table.
LEMMA DesignTypes ==
    ASSUME TypeOK,
           \/ \E a \in Assets : Create(a)
           \/ SetPolicy
           \/ \E r \in Requests :
                 FindToEdit(r) \/ Edit(r) \/ FindToRemove(r) \/ Remove(r) \/ Refused(r)
    PROVE  TypeOK'
<1>. USE HelperTypes DEF TypeOK
<1>1. ASSUME NEW a \in Assets, Create(a) PROVE TypeOK'
  <2>1. asset' \in [Assets -> Asset]
    BY <1>1 DEF Create, Asset
  <2>. QED  BY <1>1, <2>1 DEF Create
<1>2. CASE SetPolicy
  BY <1>2 DEF SetPolicy
<1>3. ASSUME NEW r \in Requests, FindToEdit(r) \/ FindToRemove(r) PROVE TypeOK'
  <2>1. PICK a \in Assets, at \in {"edit", "remove"} :
            Begin(r, [Idle EXCEPT !.at = at, !.asset = a])
    BY <1>3 DEF FindToEdit, FindToRemove
  <2>2. [Idle EXCEPT !.at = at, !.asset = a] \in Request
    BY DEF Idle, Request
  <2>3. req' \in [Requests -> Request]
    BY <2>1, <2>2 DEF Begin
  <2>. QED  BY <1>3, <2>3 DEF FindToEdit, FindToRemove
<1>4. ASSUME NEW r \in Requests, Edit(r) PROVE TypeOK'
  <2>1. CASE asset' = asset
    BY <1>4, <2>1 DEF Edit, End
  <2>2. CASE asset' = [asset EXCEPT ![req[r].asset].master = TRUE]
    <3>1. asset' \in [Assets -> Asset]
      BY <2>2 DEF Asset
    <3>. QED  BY <1>4, <3>1 DEF Edit, End
  <2>. QED  BY <1>4, <2>1, <2>2 DEF Edit
<1>5. ASSUME NEW r \in Requests, Remove(r) PROVE TypeOK'
  <2>1. asset' \in [Assets -> Asset]
    BY <1>5 DEF Remove, Asset, NoAssetRow
  <2>2. job' \in [Jobs -> Job]
    BY <1>5 DEF Remove
  <2>. QED  BY <1>5, <2>1, <2>2 DEF Remove, End
<1>6. ASSUME NEW r \in Requests, Refused(r) PROVE TypeOK'
  BY <1>6 DEF Refused, End
<1>. QED  BY <1>1, <1>2, <1>3, <1>4, <1>5, <1>6

LEMMA ReviewTypes ==
    ASSUME TypeOK, NEW r \in Requests, CheckTransition(r) \/ Transition(r)
    PROVE  TypeOK'
<1>. USE HelperTypes DEF TypeOK
<1>1. CASE CheckTransition(r)
  <2>1. PICK a \in Assets :
            \E target \in Valid(asset[a].approval) : \E role \in RolesFor(target) :
                Begin(r, [Idle EXCEPT !.at = "transition", !.asset = a,
                                      !.target = target, !.role = role])
    BY <1>1 DEF CheckTransition
  <2>2. asset[a].approval \in Approval
    BY DEF Asset
  <2>3. PICK target \in Valid(asset[a].approval) : \E role \in RolesFor(target) :
            Begin(r, [Idle EXCEPT !.at = "transition", !.asset = a,
                                  !.target = target, !.role = role])
    BY <2>1
  <2>4. target \in Approval
    BY <2>2, <2>3
  <2>5. PICK role \in RolesFor(target) :
            Begin(r, [Idle EXCEPT !.at = "transition", !.asset = a,
                                  !.target = target, !.role = role])
    BY <2>3
  <2>6. role \in Role
    BY <2>4, <2>5
  <2>7. [Idle EXCEPT !.at = "transition", !.asset = a, !.target = target, !.role = role]
            \in Request
    BY <2>4, <2>6 DEF Idle, Request
  <2>8. req' \in [Requests -> Request]
    BY <2>5, <2>7 DEF Begin
  <2>. QED  BY <1>1, <2>8 DEF CheckTransition
<1>2. CASE Transition(r)
  <2>1. req[r].target \in Approval
    BY DEF Request
  <2>2. asset' \in [Assets -> Asset]
    <3>. DEFINE target == req[r].target
                cleared == asset[req[r].asset].cleared
                              \/ (target = "approved" /\ req[r].role = "admin")
    <3>1. asset' = [asset EXCEPT ![req[r].asset] =
                      [asset[req[r].asset] EXCEPT !.approval = target, !.cleared = cleared]]
      BY <1>2 DEF Transition
    <3>2. ASSUME req[r].asset \in Assets
          PROVE  [asset[req[r].asset] EXCEPT !.approval = target, !.cleared = cleared] \in Asset
      BY <2>1, <3>2 DEF Asset
    <3>. HIDE DEF target, cleared
    <3>. QED  BY <3>1, <3>2
  <2>3. req' \in [Requests -> Request]
    <3>1. \A q \in Requests : [req[q] EXCEPT !.overtaken = TRUE] \in Request
      BY DEF Request
    <3>2. req' = [q \in Requests |->
                    IF q = r THEN Idle
                    ELSE IF req[q].at = "transition" /\ req[q].asset = req[r].asset
                    THEN [req[q] EXCEPT !.overtaken = TRUE] ELSE req[q]]
      BY <1>2 DEF Transition
    <3>. QED  BY <3>1, <3>2
  <2>. QED  BY <1>2, <2>2, <2>3 DEF Transition
<1>. QED  BY <1>1, <1>2

LEMMA RenditionTypes ==
    ASSUME TypeOK, NEW r \in Requests, RequestsNameAssets,
           FindToRender(r) \/ Render(r) \/ Validate(r) \/ Record(r)
    PROVE  TypeOK'
<1>. USE HelperTypes DEF TypeOK
<1>1. CASE FindToRender(r)
  <2>1. PICK a \in Assets, todo \in SUBSET Platforms \ {{}} :
            Begin(r, [Idle EXCEPT !.at = "render", !.asset = a, !.todo = todo])
    BY <1>1 DEF FindToRender
  <2>2. [Idle EXCEPT !.at = "render", !.asset = a, !.todo = todo] \in Request
    BY DEF Idle, Request
  <2>3. req' \in [Requests -> Request]
    BY <2>1, <2>2 DEF Begin
  <2>. QED  BY <1>1, <2>3 DEF FindToRender
<1>2. CASE Render(r)
  <2>1. PICK p \in req[r].todo :
          /\ variant' = variant \cup {<<req[r].asset, p>>}
          /\ IF req[r].todo = {p} THEN End(r) ELSE Begin(r, [req[r] EXCEPT !.todo = @ \ {p}])
    BY <1>2 DEF Render
  <2>2. p \in Platforms /\ req[r].asset \in Assets
    BY <1>2 DEF Render, Still, Request, RequestsNameAssets
  <2>3. variant' \subseteq Variant
    BY <2>1, <2>2 DEF Variant
  <2>4. req' \in [Requests -> Request]
    <3>1. CASE req[r].todo = {p}
      BY <2>1, <3>1 DEF End
    <3>2. CASE req[r].todo # {p}
      BY <2>1, <3>2 DEF Begin, Request
    <3>. QED  BY <3>1, <3>2
  <2>. QED  BY <1>2, <2>3, <2>4 DEF Render
<1>3. CASE Validate(r)
  <2>1. PICK v \in variant :
            Begin(r, [Idle EXCEPT !.at = "record", !.asset = v[1], !.under = policy])
    BY <1>3 DEF Validate
  <2>2. v[1] \in Assets
    BY DEF Variant
  <2>3. req' \in [Requests -> Request]
    BY <2>1, <2>2 DEF Begin, Idle, Request
  <2>. QED  BY <1>3, <2>3 DEF Validate
<1>4. CASE Record(r)
  <2>1. req[r].asset \in Assets \cup {NoAsset} /\ req[r].under \in BOOLEAN
    BY DEF Request
  <2>2. job' \in [Jobs -> Job]
    BY <1>4, <2>1 DEF Record, Job
  <2>. QED  BY <1>4, <2>2 DEF Record, End
<1>. QED  BY <1>1, <1>2, <1>3, <1>4

-----------------------------------------------------------------------------
(* The invariant. *)

LEMMA Initially == Init => IInv
<1>. SUFFICES ASSUME Init PROVE IInv
  OBVIOUS
<1>. USE HelperTypes DEF Init
<1>1. TypeOK
  BY DEF TypeOK
<1>2. \A a \in Assets : ~asset[a].here /\ asset[a].approval = "draft"
  BY DEF NoAssetRow
<1>3. \A r \in Requests : req[r].at = "idle"
  BY DEF Idle
<1>4. \A j \in Jobs : ~job[j].here
  BY DEF NoJob
<1>5. Known
  BY <1>2, <1>3, <1>4 DEF Known, RequestsNameAssets
<1>6. Reviewed
  BY <1>2, <1>3 DEF Reviewed
<1>7. NothingOrphaned /\ JobsCleared
  BY <1>4 DEF NothingOrphaned, JobsCleared
<1>8. Overtakes
  BY <1>3 DEF Overtakes
<1>. QED  BY <1>1, <1>5, <1>6, <1>7, <1>8 DEF IInv

LEMMA TypesKept == ASSUME IInv, Next PROVE TypeOK'
<1>. USE DEF IInv
<1>1. CASE \E a \in Assets : Create(a)
  BY <1>1, DesignTypes
<1>2. ASSUME NEW r \in Requests, Handle(r) PROVE TypeOK'
  <2>1. CASE FindToEdit(r) \/ Edit(r) \/ FindToRemove(r) \/ Remove(r) \/ Refused(r)
    BY <2>1, DesignTypes
  <2>2. CASE CheckTransition(r) \/ Transition(r)
    BY <2>2, ReviewTypes
  <2>3. CASE FindToRender(r) \/ Render(r) \/ Validate(r) \/ Record(r)
    BY <2>3, RenditionTypes DEF Known
  <2>. QED  BY <1>2, <2>1, <2>2, <2>3 DEF Handle
<1>3. CASE SetPolicy
  BY <1>3, DesignTypes
<1>. QED  BY <1>1, <1>2, <1>3 DEF Next

\* What may change the designs and the renditions.
LEMMA Changes ==
    ASSUME Next
    PROVE  /\ \/ asset' = asset
              \/ \E a \in Assets : Create(a)
              \/ \E r \in Requests : Edit(r) \/ Remove(r) \/ Transition(r)
           /\ \/ variant' = variant
              \/ \E r \in Requests : Remove(r) \/ Render(r)
<1>1. CASE (\E a \in Assets : Create(a)) \/ SetPolicy
  BY <1>1 DEF Create, SetPolicy
<1>2. ASSUME NEW r \in Requests, Handle(r)
      PROVE  /\ asset' = asset \/ Edit(r) \/ Remove(r) \/ Transition(r)
             /\ variant' = variant \/ Remove(r) \/ Render(r)
  BY <1>2 DEF Handle, FindToEdit, Edit, FindToRemove, Refused, CheckTransition, Transition,
              FindToRender, Render, Validate, Record
<1>. QED  BY <1>1, <1>2 DEF Next

\* No design returns once it is deleted, and while it stays it keeps that an admin
\* has approved it.
LEMMA DesignSteps ==
    ASSUME IInv, Next, NEW a \in Assets
    PROVE  /\ asset[a].made => asset'[a].made
           /\ asset'[a].here => asset'[a].made
           /\ asset'[a].approval = "approved" => asset'[a].cleared
           /\ asset[a].made /\ asset'[a].here =>
                  asset[a].here /\ (asset[a].cleared => asset'[a].cleared)
<1>. USE DEF IInv, Known, Reviewed
<1>. asset \in [Assets -> Asset]
  BY DEF TypeOK
<1>1. CASE asset' = asset
  BY <1>1
<1>3. CASE \E b \in Assets : Create(b)
  <2>1. PICK b \in Assets :
            asset' = [asset EXCEPT ![b].here = TRUE, ![b].made = TRUE] /\ ~asset[b].made
    BY <1>3 DEF Create
  <2>2. CASE a = b
    BY <2>1, <2>2 DEF TypeOK, Asset
  <2>3. CASE a # b
    BY <2>1, <2>3
  <2>. QED  BY <2>2, <2>3
<1>5. CASE \E r \in Requests : Edit(r) /\ asset' # asset
  <2>1. PICK r \in Requests : asset' = [asset EXCEPT ![req[r].asset].master = TRUE]
    BY <1>5 DEF Edit
  <2>2. CASE a = req[r].asset
    BY <2>1, <2>2 DEF TypeOK, Asset
  <2>3. CASE a # req[r].asset
    BY <2>1, <2>3
  <2>. QED  BY <2>2, <2>3
<1>6. CASE \E r \in Requests : Remove(r)
  <2>1. PICK r \in Requests : Remove(r)
    BY <1>6
  <2>2. asset' = [asset EXCEPT ![req[r].asset] = [NoAssetRow EXCEPT !.made = TRUE]]
    BY <2>1 DEF Remove
  <2>. QED  BY <2>2 DEF NoAssetRow
<1>7. CASE \E r \in Requests : Transition(r)
  <2>1. PICK r \in Requests : Transition(r)
    BY <1>7
  <2>. DEFINE target == req[r].target
  <2>2. asset' = [asset EXCEPT ![req[r].asset].approval = target,
            ![req[r].asset].cleared = @ \/ (target = "approved" /\ req[r].role = "admin")]
    BY <2>1 DEF Transition
  <2>3. target = "approved" => req[r].role = "admin"
    BY <2>1 DEF Transition, Still
  <2>4. CASE a = req[r].asset
    BY <2>2, <2>3, <2>4 DEF Asset
  <2>5. CASE a # req[r].asset
    BY <2>2, <2>5
  <2>. QED  BY <2>4, <2>5
<1>. QED
  BY <1>1, <1>3, <1>5, <1>6, <1>7
  DEF Next, Handle, FindToEdit, FindToRemove, Refused, CheckTransition, FindToRender, Render,
      Validate, Record, SetPolicy

\* What a step leaves of a job.
LEMMA JobSteps ==
    ASSUME IInv, Next, NEW j \in Jobs, job'[j].here
    PROVE  \/ job'[j] = job[j]
           \/ \E r \in Requests :
                 /\ req[r].at = "record" /\ asset[req[r].asset].here /\ asset' = asset
                 /\ job'[j].asset = req[r].asset /\ job'[j].under = req[r].under
<1>. job \in [Jobs -> Job]
  BY DEF IInv, TypeOK
<1>1. CASE job' = job
  BY <1>1
<1>2. CASE \E r \in Requests : Remove(r)
  <2>1. PICK r \in Requests :
            job' = [k \in Jobs |-> IF job[k].asset = req[r].asset THEN NoJob ELSE job[k]]
    BY <1>2 DEF Remove
  <2>2. job'[j] = IF job[j].asset = req[r].asset THEN NoJob ELSE job[j]
    BY <2>1
  <2>3. ~NoJob.here
    BY DEF NoJob
  <2>. QED  BY <2>2, <2>3
<1>3. CASE \E r \in Requests : Record(r)
  BY <1>3 DEF Record, Still
<1>. QED
  BY <1>1, <1>2, <1>3
  DEF Next, Create, Handle, FindToEdit, Edit, FindToRemove, Refused, CheckTransition, Transition,
      FindToRender, Render, Validate, SetPolicy

\* A request that is under way after a step was so before it, about the same
\* design, or has just found its design.
Goes(q) ==
    /\ req[q].at = req'[q].at /\ req[q].asset = req'[q].asset
    /\ req[q].target = req'[q].target /\ req[q].role = req'[q].role
    /\ req[q].under = req'[q].under

\* As Goes, and no transition overtook it.
Undisturbed(q) ==
    ~req'[q].overtaken /\ req[q].at = "transition" =>
        /\ ~req[q].overtaken
        /\ asset'[req[q].asset].here =>
              asset'[req[q].asset].approval = asset[req[q].asset].approval

Starts(q) ==
    /\ req'[q].asset \in Assets /\ asset[req'[q].asset].here /\ asset' = asset
    /\ req'[q].at = "transition" =>
          /\ req'[q].target \in Valid(asset[req'[q].asset].approval)
          /\ req'[q].role \in RolesFor(req'[q].target)
    /\ req'[q].at = "record" /\ req'[q].under => Cleared(req'[q].asset) /\ policy

LEMMA RequestSteps ==
    ASSUME IInv, Next, NEW q \in Requests, req'[q].at # "idle"
    PROVE  (Goes(q) /\ Undisturbed(q)) \/ Starts(q)
<1>. req \in [Requests -> Request] /\ asset \in [Assets -> Asset]
  BY DEF IInv, TypeOK
<1>1. CASE \E a \in Assets : Create(a)
  <2>1. PICK a \in Assets : Create(a)
    BY <1>1
  <2>2. req' = req
    BY <2>1 DEF Create
  <2>3. req[q].asset \in Assets /\ req[q].asset # a
    BY <2>1, <2>2 DEF Create, IInv, Known, RequestsNameAssets
  <2>4. asset'[req[q].asset] = asset[req[q].asset]
    BY <2>1, <2>3 DEF Create
  <2>. QED  BY <2>2, <2>4 DEF Goes, Undisturbed
<1>2. CASE SetPolicy
  BY <1>2 DEF SetPolicy, Goes, Undisturbed
<1>3. ASSUME NEW r \in Requests, Edit(r) \/ Remove(r) \/ Refused(r) \/ Record(r)
      PROVE  Goes(q) /\ Undisturbed(q)
  <2>1. req' = [req EXCEPT ![r] = Idle]
    BY <1>3 DEF Edit, Remove, Refused, Record, End
  <2>2. q # r
    BY <2>1 DEF Idle
  <2>3. req'[q] = req[q]
    BY <2>1, <2>2
  <2>4. req[q].asset \in Assets
    BY <2>3 DEF IInv, Known, RequestsNameAssets
  <2>5. asset'[req[q].asset].here => asset'[req[q].asset].approval = asset[req[q].asset].approval
    <3>1. CASE Edit(r)
      <4>1. CASE asset' = asset
        BY <4>1
      <4>2. CASE asset' = [asset EXCEPT ![req[r].asset].master = TRUE]
        BY <2>4, <4>2 DEF Asset
      <4>. QED  BY <3>1, <4>1, <4>2 DEF Edit
    <3>2. CASE Remove(r)
      BY <2>4, <3>2 DEF Remove, NoAssetRow
    <3>3. CASE Refused(r) \/ Record(r)
      BY <3>3 DEF Refused, Record
    <3>. QED  BY <1>3, <3>1, <3>2, <3>3
  <2>. QED  BY <2>3, <2>5 DEF Goes, Undisturbed
<1>4. ASSUME NEW r \in Requests, NEW rec, Begin(r, rec), asset' = asset, q # r
      PROVE  Goes(q) /\ Undisturbed(q)
  BY <1>4 DEF Begin, Goes, Undisturbed
<1>5. ASSUME NEW r \in Requests, NEW rec, Begin(r, rec), q = r
      PROVE  req'[q] = rec
  BY <1>5 DEF Begin
<1>6. ASSUME NEW r \in Requests, NEW a \in Assets, Find(r, a), asset' = asset,
             NEW rec, rec.at \in {"edit", "remove", "render"}, rec.asset = a, Begin(r, rec)
      PROVE  (Goes(q) /\ Undisturbed(q)) \/ Starts(q)
  <2>1. CASE q = r
    <3>1. req'[q] = rec
      BY <1>5, <1>6, <2>1
    <3>. QED  BY <1>6, <3>1 DEF Starts, Find
  <2>. QED  BY <1>4, <1>6, <2>1
<1>7. CASE \E r \in Requests : FindToEdit(r) \/ FindToRemove(r) \/ FindToRender(r)
  <2>1. PICK r \in Requests : FindToEdit(r) \/ FindToRemove(r) \/ FindToRender(r)
    BY <1>7
  <2>2. asset' = asset
    BY <2>1 DEF FindToEdit, FindToRemove, FindToRender
  <2>3. CASE FindToEdit(r)
    <3>1. PICK a \in Assets : Find(r, a) /\ Begin(r, [Idle EXCEPT !.at = "edit", !.asset = a])
      BY <2>3 DEF FindToEdit
    <3>. DEFINE rec == [Idle EXCEPT !.at = "edit", !.asset = a]
    <3>2. rec.at = "edit" /\ rec.asset = a
      BY DEF Idle
    <3>3. Find(r, a) /\ Begin(r, rec)
      BY <3>1
    <3>. HIDE DEF rec
    <3>. QED  BY <1>6, <2>2, <3>2, <3>3
  <2>4. CASE FindToRemove(r)
    <3>1. PICK a \in Assets : Find(r, a) /\ Begin(r, [Idle EXCEPT !.at = "remove", !.asset = a])
      BY <2>4 DEF FindToRemove
    <3>. DEFINE rec == [Idle EXCEPT !.at = "remove", !.asset = a]
    <3>2. rec.at = "remove" /\ rec.asset = a
      BY DEF Idle
    <3>3. Find(r, a) /\ Begin(r, rec)
      BY <3>1
    <3>. HIDE DEF rec
    <3>. QED  BY <1>6, <2>2, <3>2, <3>3
  <2>5. CASE FindToRender(r)
    <3>1. PICK a \in Assets, todo \in SUBSET Platforms \ {{}} :
              /\ Find(r, a)
              /\ Begin(r, [Idle EXCEPT !.at = "render", !.asset = a, !.todo = todo])
      BY <2>5 DEF FindToRender
    <3>. DEFINE rec == [Idle EXCEPT !.at = "render", !.asset = a, !.todo = todo]
    <3>2. rec.at = "render" /\ rec.asset = a
      BY DEF Idle
    <3>3. Find(r, a) /\ Begin(r, rec)
      BY <3>1
    <3>. HIDE DEF rec
    <3>. QED  BY <1>6, <2>2, <3>2, <3>3
  <2>. QED  BY <2>1, <2>3, <2>4, <2>5
<1>8. CASE \E r \in Requests : CheckTransition(r)
  <2>1. PICK r \in Requests, a \in Assets : \E target \in Valid(asset[a].approval) :
            \E role \in RolesFor(target) :
                /\ Find(r, a) /\ asset' = asset
                /\ Begin(r, [Idle EXCEPT !.at = "transition", !.asset = a,
                                         !.target = target, !.role = role])
    BY <1>8 DEF CheckTransition
  <2>2. PICK target \in Valid(asset[a].approval) : \E role \in RolesFor(target) :
            Begin(r, [Idle EXCEPT !.at = "transition", !.asset = a,
                                  !.target = target, !.role = role])
    BY <2>1
  <2>3. CASE q = r
    <3>1. PICK role \in RolesFor(target) :
              req'[q] = [Idle EXCEPT !.at = "transition", !.asset = a, !.target = target,
                                     !.role = role]
      BY <1>5, <2>2, <2>3
    <3>2. /\ req'[q].at = "transition" /\ req'[q].asset = a /\ req'[q].target = target
          /\ req'[q].role = role
      BY <3>1 DEF Idle
    <3>. QED  BY <2>1, <2>2, <3>2 DEF Starts, Find
  <2>. QED  BY <1>4, <2>1, <2>2, <2>3
<1>9. CASE \E r \in Requests : Validate(r)
  <2>1. PICK r \in Requests, v \in variant :
            /\ Cleared(v[1]) /\ asset' = asset
            /\ Begin(r, [Idle EXCEPT !.at = "record", !.asset = v[1], !.under = policy])
    BY <1>9 DEF Validate
  <2>2. v[1] \in Assets /\ asset[v[1]].here
    BY DEF IInv, TypeOK, Variant, NothingOrphaned
  <2>3. CASE q = r
    <3>1. req'[q] = [Idle EXCEPT !.at = "record", !.asset = v[1], !.under = policy]
      BY <1>5, <2>1, <2>3
    <3>2. req'[q].at = "record" /\ req'[q].asset = v[1] /\ req'[q].under = policy
      BY <3>1 DEF Idle
    <3>. QED  BY <2>1, <2>2, <3>2 DEF Starts
  <2>. QED  BY <1>4, <2>1, <2>3
<1>10. CASE \E r \in Requests : Render(r)
  <2>1. PICK r \in Requests : \E p \in req[r].todo :
            /\ asset' = asset
            /\ IF req[r].todo = {p} THEN End(r) ELSE Begin(r, [req[r] EXCEPT !.todo = @ \ {p}])
    BY <1>10 DEF Render
  <2>2. CASE q # r
    BY <2>1, <2>2 DEF End, Begin, Goes, Undisturbed
  <2>3. CASE q = r
    <3>1. \/ req' = [req EXCEPT ![q] = Idle]
          \/ \E p \in req[q].todo : req'[q] = [req[q] EXCEPT !.todo = @ \ {p}]
      BY <2>1, <2>3 DEF End, Begin
    <3>2. PICK p \in req[q].todo : req'[q] = [req[q] EXCEPT !.todo = @ \ {p}]
      BY <3>1 DEF Idle
    <3>. QED  BY <2>1, <3>2 DEF Goes, Undisturbed, Request
  <2>. QED  BY <2>2, <2>3
<1>11. CASE \E r \in Requests : Transition(r)
  <2>1. PICK r \in Requests : Transition(r)
    BY <1>11
  <2>2. req'[q] = IF q = r THEN Idle
                  ELSE IF req[q].at = "transition" /\ req[q].asset = req[r].asset
                  THEN [req[q] EXCEPT !.overtaken = TRUE] ELSE req[q]
    BY <2>1 DEF Transition
  <2>3. q # r
    BY <2>2 DEF Idle
  <2>4. Goes(q)
    BY <2>2, <2>3 DEF Goes, Request
  <2>5. CASE req[q].asset # req[r].asset
    <3>1. req[q].asset \in Assets
      BY <2>4 DEF Goes, IInv, Known, RequestsNameAssets
    <3>2. asset'[req[q].asset] = asset[req[q].asset]
      BY <2>1, <2>5, <3>1 DEF Transition
    <3>. QED  BY <2>2, <2>3, <2>4, <2>5, <3>2 DEF Undisturbed
  <2>6. CASE req[q].asset = req[r].asset
    BY <2>2, <2>3, <2>4, <2>6 DEF Undisturbed, Request
  <2>. QED  BY <2>5, <2>6
<1>. QED
  BY <1>1, <1>2, <1>3, <1>7, <1>8, <1>9, <1>10, <1>11 DEF Next, Handle

LEMMA KnownKept == ASSUME IInv, Next PROVE Known'
<1>1. RequestsNameAssets'
  <2>. SUFFICES ASSUME NEW q \in Requests, req'[q].at # "idle"
                PROVE  req'[q].asset \in Assets /\ asset'[req'[q].asset].made
    BY DEF RequestsNameAssets
  <2>1. req'[q].asset \in Assets /\ asset[req'[q].asset].made
    BY RequestSteps DEF Goes, Starts, IInv, Known, RequestsNameAssets
  <2>. QED  BY <2>1, DesignSteps
<1>2. \A a \in Assets : asset'[a].here => asset'[a].made
  BY DesignSteps
<1>3. \A j \in Jobs : job'[j].here => job'[j].asset \in Assets
  BY JobSteps DEF IInv, Known, RequestsNameAssets
<1>. QED  BY <1>1, <1>2, <1>3 DEF Known

LEMMA ReviewedKept == ASSUME IInv, Next PROVE Reviewed'
<1>1. \A a \in Assets : asset'[a].approval = "approved" => asset'[a].cleared
  BY DesignSteps
<1>. SUFFICES ASSUME NEW q \in Requests, req'[q].at # "idle"
              PROVE  /\ req'[q].at = "transition" /\ req'[q].target = "approved" =>
                            req'[q].role = "admin"
                     /\ req'[q].at = "record" /\ req'[q].under /\ asset'[req'[q].asset].here =>
                            asset'[req'[q].asset].cleared
  BY <1>1 DEF Reviewed
<1>2. CASE Goes(q)
  <2>1. req[q].asset \in Assets /\ asset[req[q].asset].made
    BY <1>2 DEF Goes, IInv, Known, RequestsNameAssets
  <2>. QED  BY <1>2, <2>1, DesignSteps DEF Goes, IInv, Reviewed
<1>3. CASE Starts(q)
  BY <1>3 DEF Starts, RolesFor, Cleared, IInv, Reviewed
<1>. QED  BY <1>2, <1>3, RequestSteps

LEMMA OvertakesKept == ASSUME IInv, Next PROVE Overtakes'
<1>. SUFFICES ASSUME NEW q \in Requests, req'[q].at = "transition", ~req'[q].overtaken,
                     asset'[req'[q].asset].here
              PROVE  req'[q].target \in Valid(asset'[req'[q].asset].approval)
  BY DEF Overtakes, Valid
<1>2. CASE Goes(q) /\ Undisturbed(q)
  <2>1. req[q].asset \in Assets /\ asset[req[q].asset].made
    BY <1>2 DEF Goes, IInv, Known, RequestsNameAssets
  <2>. QED  BY <1>2, <2>1, DesignSteps DEF Goes, Undisturbed, IInv, Overtakes
<1>3. CASE Starts(q)
  BY <1>3 DEF Starts
<1>. QED  BY <1>2, <1>3, RequestSteps

LEMMA OrphansKept == ASSUME IInv, Next PROVE NothingOrphaned'
<1>1. ASSUME NEW a \in Assets, asset[a].here, ~asset'[a].here
      PROVE  \E r \in Requests : Remove(r) /\ req[r].asset = a
  <2>. asset \in [Assets -> Asset]
    BY DEF IInv, TypeOK
  <2>1. ASSUME NEW b \in Assets, Create(b) PROVE FALSE
    BY <1>1, <2>1 DEF Create, Asset
  <2>2. ASSUME NEW r \in Requests, Edit(r) PROVE FALSE
    <3>1. PICK row \in {asset, [asset EXCEPT ![req[r].asset].master = TRUE]} : asset' = row
      BY <2>2 DEF Edit
    <3>. QED  BY <1>1, <3>1 DEF Asset
  <2>3. ASSUME NEW r \in Requests, Transition(r) PROVE FALSE
    BY <1>1, <2>3 DEF Transition, Asset
  <2>4. ASSUME NEW r \in Requests, Remove(r) PROVE req[r].asset = a
    BY <1>1, <2>4 DEF Remove
  <2>. QED  BY <1>1, <2>1, <2>2, <2>3, <2>4, Changes
<1>2. ASSUME NEW v \in variant' PROVE asset'[v[1]].here
  <2>1. v[1] \in Assets /\ asset[v[1]].here
    <3>1. CASE v \in variant
      BY <3>1 DEF IInv, TypeOK, Variant, NothingOrphaned
    <3>2. CASE v \notin variant
      <4>1. PICK r \in Requests : Still(r, "render") /\ v[1] = req[r].asset
        <5>1. ~\E r \in Requests : Remove(r)
          BY <1>2, <3>2 DEF Remove
        <5>2. PICK r \in Requests : Render(r)
          BY <1>2, <3>2, <5>1, Changes
        <5>3. \E p \in req[r].todo : v = <<req[r].asset, p>>
          BY <1>2, <3>2, <5>2 DEF Render
        <5>. QED  BY <5>2, <5>3 DEF Render
      <4>. QED  BY <4>1 DEF Still, IInv, Known, RequestsNameAssets
    <3>. QED  BY <3>1, <3>2
  <2>2. ~\E r \in Requests : Remove(r) /\ req[r].asset = v[1]
    BY <1>2 DEF Remove
  <2>. QED  BY <1>1, <2>1, <2>2
<1>3. ASSUME NEW j \in Jobs, job'[j].here PROVE asset'[job'[j].asset].here
  <2>1. CASE job'[j] = job[j]
    <3>1. job[j].asset \in Assets /\ asset[job[j].asset].here
      BY <1>3, <2>1 DEF IInv, Known, NothingOrphaned
    <3>2. ASSUME NEW r \in Requests, Remove(r), req[r].asset = job[j].asset PROVE FALSE
      <4>1. job'[j] = NoJob
        BY <3>2 DEF Remove
      <4>. QED  BY <1>3, <4>1 DEF NoJob
    <3>. QED  BY <1>1, <2>1, <3>1, <3>2
  <2>2. CASE job'[j] # job[j]
    BY <1>3, <2>2, JobSteps
  <2>. QED  BY <2>1, <2>2
<1>. QED  BY <1>2, <1>3 DEF NothingOrphaned

LEMMA JobsClearedKept == ASSUME IInv, Next PROVE JobsCleared'
<1>. SUFFICES ASSUME NEW j \in Jobs, job'[j].here, job'[j].under
              PROVE  asset'[job'[j].asset].cleared
  BY DEF JobsCleared
<1>1. CASE job'[j] = job[j]
  <2>1. job[j].asset \in Assets /\ asset[job[j].asset].here /\ asset[job[j].asset].cleared
    BY <1>1 DEF IInv, Known, NothingOrphaned, JobsCleared
  <2>2. asset'[job[j].asset].here
    BY <1>1, OrphansKept DEF NothingOrphaned
  <2>. QED  BY <1>1, <2>1, <2>2, DesignSteps DEF IInv, Known
<1>2. CASE job'[j] # job[j]
  BY <1>2, JobSteps DEF IInv, Reviewed
<1>. QED  BY <1>1, <1>2

-----------------------------------------------------------------------------
(* The theorems. *)

LEMMA Invariance == Spec => []IInv
<1>1. ASSUME IInv, [Next]_vars PROVE IInv'
  <2>1. CASE Next
    BY <1>1, <2>1, TypesKept, KnownKept, OrphansKept, ReviewedKept, JobsClearedKept, OvertakesKept
    DEF IInv
  <2>2. CASE UNCHANGED vars
    BY <1>1, <2>2
    DEF IInv, vars, TypeOK, Known, RequestsNameAssets, NothingOrphaned, Reviewed, JobsCleared,
        Overtakes, Valid
  <2>. QED  BY <1>1, <2>1, <2>2
<1>. QED  BY Initially, <1>1, PTL DEF Spec

\* Nothing outlives its design: the deletion takes the renditions and the jobs
\* with it, and no request that is half done brings any back.
THEOREM NothingIsOrphaned == Spec => []NothingOrphaned
BY Invariance, PTL DEF IInv

\* Whatever was asked for while the organization required approval is of a design
\* that an admin had approved.
THEOREM JobsAreCleared == Spec => []JobsCleared
BY Invariance, PTL DEF IInv

\* An approval status changes against the review's state machine only by a
\* transition that another one overtook between its read and its write.
THEOREM OnlyOverlapIsIllegal == Spec => IllegalOnlyByOverlap
<1>. DEFINE Legal ==
        \A a \in Assets :
            Moved(a) /\ <<asset[a].approval, asset'[a].approval>> \notin ReviewMoves =>
            \E r \in Requests :
                req[r].at = "transition" /\ req[r].asset = a /\ req[r].overtaken
<1>1. ASSUME IInv, [Next]_vars PROVE [Legal]_vars
  <2>. SUFFICES ASSUME Next, NEW a \in Assets, Moved(a),
                       <<asset[a].approval, asset'[a].approval>> \notin ReviewMoves
                PROVE  \E r \in Requests :
                          req[r].at = "transition" /\ req[r].asset = a /\ req[r].overtaken
    BY <1>1
  <2>. asset \in [Assets -> Asset]
    BY <1>1 DEF IInv, TypeOK
  <2>1. asset[a].made
    BY <1>1 DEF Moved, IInv, Known
  <2>2. PICK r \in Requests : Transition(r)
    <3>1. ASSUME NEW b \in Assets, Create(b) PROVE FALSE
      BY <2>1, <3>1 DEF Create, Moved
    <3>2. ASSUME NEW q \in Requests, Edit(q) PROVE FALSE
      <4>1. PICK row \in {asset, [asset EXCEPT ![req[q].asset].master = TRUE]} : asset' = row
        BY <3>2 DEF Edit
      <4>. QED  BY <4>1 DEF Moved, Asset
    <3>3. ASSUME NEW q \in Requests, Remove(q) PROVE FALSE
      <4>1. asset'[a] = asset[a] \/ asset'[a] = [NoAssetRow EXCEPT !.made = TRUE]
        BY <3>3 DEF Remove
      <4>. QED  BY <4>1 DEF Moved, NoAssetRow
    <3>. QED  BY <3>1, <3>2, <3>3, Changes DEF Moved
  <2>3. a = req[r].asset /\ asset'[a].approval = req[r].target /\ req[r].at = "transition"
    BY <2>2 DEF Transition, Still, Moved
  <2>4. CASE ~req[r].overtaken
    <3>1. req[r].target \in Valid(asset[a].approval)
      BY <1>1, <2>3, <2>4 DEF IInv, Overtakes, Moved
    <3>. QED  BY <2>3, <3>1 DEF Valid, ReviewMoves, Asset, Approval
  <2>. QED  BY <2>3, <2>4
<1>. QED  BY Invariance, <1>1, PTL DEF Spec, IllegalOnlyByOverlap

=============================================================================
