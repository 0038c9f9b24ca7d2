------------------------------ MODULE Metering ------------------------------
(***************************************************************************)
(* What the AI quota of an organization is about, and what is promised of   *)
(* it: the usage log, its rolling window, who is under way, and the last    *)
(* refusal.  Generation has the steps of the guard and the gateway.        *)
(***************************************************************************)
EXTENDS Integers, Sequences, FiniteSets

CONSTANTS
    Requests,  \* requests that overlap; each serves many calls
    Tiers,     \* plans
    Quota,     \* [Tiers -> Nat], AI_QUOTA_PER_WINDOW
    Window,    \* AI_QUOTA_WINDOW_DAYS
    MaxTime    \* bound: the clock

ASSUME MeteringAssumption ==
    /\ IsFiniteSet(Requests) /\ Requests # {}
    /\ Quota \in [Tiers -> Nat \ {0}]
    /\ Window \in Nat \ {0}
    /\ MaxTime \in Nat

VARIABLES
    now,    \* 0..MaxTime
    log,    \* Seq(0..MaxTime), createdAt of the rows of ai_usage_log, oldest first
    plan,   \* planTier of the organization
    peak,   \* the largest quota it has had (history)
    req,    \* [Requests -> Request]
    told    \* the last refusal (history)

-----------------------------------------------------------------------------

\* The rows of `createdAt >= windowStart`, by place in the log.
Recent(t) == {i \in DOMAIN log : log[i] >= t - Window}

-----------------------------------------------------------------------------
(* Properties. *)

\* What the guard has let through and the window still holds exceeds the largest
\* quota by no more than the other requests that were under way, through every
\* downgrade, lost row and row that grows old.
OvershootBounded ==
    Cardinality(Recent(now)) + Cardinality({r \in Requests : req[r].at \in {"ask", "record"}})
        <= peak + Cardinality(Requests) - 1

\* "It never tells the user to retry sooner than they actually can": once resetAt
\* is past, the rows that the refusal counted leave room under the quota it was
\* measured by, whatever was recorded or grew old while it was worked out.
ResetKept ==
    told.at > 0 => Cardinality({i \in Recent(told.at + 1) : i <= told.rows}) < told.limit

=============================================================================
