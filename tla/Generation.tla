----------------------------- MODULE Generation -----------------------------
(***************************************************************************)
(* The AI features of one organization: the guard that meters them over a  *)
(* rolling window (quota.guard.ts), the calls it lets through, and the     *)
(* usage row that the gateway writes after each success                    *)
(* (ai-gateway.service.ts).                                                *)
(*                                                                         *)
(* The guard counts what has been recorded, not what is under way, and the *)
(* three queries of a refusal see three states of the table.               *)
(***************************************************************************)
EXTENDS Metering

vars == <<now, log, plan, peak, req, told>>

-----------------------------------------------------------------------------
(* State. *)

\* limit, used: as the guard read them.  rows: the length of the log then
\* (history).
Request == [at : {"idle", "count", "reset", "ask", "record"},
            limit : Nat, used : Nat, rows : Nat]
Idle == [at |-> "idle", limit |-> 0, used |-> 0, rows |-> 0]

\* A 429: resetAt, the quota it was measured by, and how many rows there were
\* when it was counted.
Refusal == [at : Nat, limit : Nat, rows : Nat]
NoRefusal == [at |-> 0, limit |-> 1, rows |-> 0]

Init ==
    /\ now = 0 /\ log = <<>>
    /\ plan \in Tiers /\ peak = Quota[plan]
    /\ req = [r \in Requests |-> Idle]
    /\ told = NoRefusal

-----------------------------------------------------------------------------
(* The guard. *)

Goto(r, at) == req' = [req EXCEPT ![r].at = at]
End(r) == req' = [req EXCEPT ![r] = Idle]

\* canActivate, its first query.
ReadPlan(r) ==
    /\ req[r].at = "idle"
    /\ req' = [req EXCEPT ![r] = [Idle EXCEPT !.at = "count", !.limit = Quota[plan]]]
    /\ UNCHANGED <<now, log, plan, peak, told>>

\* Mutant: one more than the quota.
HasRoomLoosely(used, limit) == used <= limit

HasRoom(used, limit) == used < limit

\* canActivate, its second query: pass, or work out when to come back.
Count(r) ==
    LET used == Cardinality(Recent(now)) IN
    /\ req[r].at = "count"
    /\ IF HasRoom(used, req[r].limit)
       THEN req' = [req EXCEPT ![r] = [Idle EXCEPT !.at = "ask"]]
       ELSE req' = [req EXCEPT ![r].at = "reset", ![r].used = used, ![r].rows = Len(log)]
    /\ UNCHANGED <<now, log, plan, peak, told>>

\* Mutant: the oldest row decides, whatever the quota is by now.
ResetByOldest(used, limit) ==
    IF Recent(now) = {} THEN now + Window
    ELSE log[CHOOSE i \in Recent(now) : \A k \in Recent(now) : i <= k] + Window

\* resolveResetAt: rows that leave the window before it is used - limit rows
\* later; with too few left, a full window from now.
ResetAt(used, limit) ==
    IF used - limit >= Cardinality(Recent(now)) THEN now + Window
    ELSE log[CHOOSE i \in Recent(now) :
                 Cardinality({k \in Recent(now) : k < i}) = used - limit] + Window

\* The 429.
Refuse(r) ==
    /\ req[r].at = "reset" /\ End(r)
    /\ told' = [at |-> ResetAt(req[r].used, req[r].limit), limit |-> req[r].limit,
                rows |-> req[r].rows]
    /\ UNCHANGED <<now, log, plan, peak>>

-----------------------------------------------------------------------------
(* A generation: caption, hashtags, tone or viral score. *)

\* The design is gone or empty, the provider fails, declines or has nothing to
\* say: an error, and no row.
Fail(r) ==
    /\ req[r].at = "ask" /\ End(r)
    /\ UNCHANGED <<now, log, plan, peak, told>>

\* The provider answers.
Answer(r) ==
    /\ req[r].at = "ask" /\ Goto(r, "record")
    /\ UNCHANGED <<now, log, plan, peak, told>>

\* recordUsage: a failed write is logged and swallowed.  What the feature makes of
\* the text, parse errors included, comes after.
RecordUsage(r) ==
    /\ req[r].at = "record" /\ End(r)
    /\ log' \in {log, Append(log, now)}
    /\ UNCHANGED <<now, plan, peak, told>>

-----------------------------------------------------------------------------
(* Around it. *)

\* Billing writes planTier.
ChangePlan ==
    /\ \E p \in Tiers \ {plan} :
        plan' = p /\ peak' = IF Quota[p] > peak THEN Quota[p] ELSE peak
    /\ UNCHANGED <<now, log, req, told>>

Tick ==
    /\ now < MaxTime /\ now' = now + 1
    /\ UNCHANGED <<log, plan, peak, req, told>>

Next ==
    \/ \E r \in Requests :
        ReadPlan(r) \/ Count(r) \/ Refuse(r) \/ Fail(r) \/ Answer(r) \/ RecordUsage(r)
    \/ ChangePlan \/ Tick

Spec == Init /\ [][Next]_vars

-----------------------------------------------------------------------------
(* Types. *)

TypeOK ==
    /\ now \in 0..MaxTime
    /\ log \in Seq(0..MaxTime)
    /\ plan \in Tiers /\ peak \in Nat
    /\ req \in [Requests -> Request]
    /\ told \in Refusal

=============================================================================
