----------------------------- MODULE Overview -------------------------------
(***************************************************************************)
(* What the users are shown of the rows of PostMetrics: the overview of    *)
(* analytics-aggregation.ts and the times that best-time-ranking.ts        *)
(* recommends, each from the rows that are there when it is asked for.     *)
(***************************************************************************)
EXTENDS PostMetrics, FiniteSetsExt, SequencesExt

Networks == UNION {{a[j] : j \in Jobs} : a \in Assignments}

\* loadRows.
Rows == {j \in Jobs : metric[j].row}

AddInto(acc, m) == [k \in DOMAIN acc |-> acc[k] + m[k]]

Zero == [k \in Fields |-> 0]

\* sort: S in an order in which every two are a pair of R.  Which of those that R
\* does not tell apart comes first depends on the rows' order, hence a set.
Sorted(S, R) ==
    {q \in SetToSeqs(S) : \A i, j \in DOMAIN q : i < j => <<q[i], q[j]>> \in R}

\* slice.
First(q) == SubSeq(q, 1, Min({TopN, Len(q)}))

\* One row of loadRows, counted in what the rows before it came to.
AddRow(j, o) ==
    LET p == job[j].platform IN
    [totals |-> AddInto(o.totals, metric[j].counts),
     byPlatform |-> [o.byPlatform EXCEPT
         ![p] = [postCount |-> @.postCount + 1,
                 metrics |-> AddInto(@.metrics, metric[j].counts)]]]

NoPosts == [totals |-> Zero,
            byPlatform |-> [p \in Networks |-> [postCount |-> 0, metrics |-> Zero]]]

\* The more engagement, the earlier in the list; impressions do not count.
TopPosts ==
    LET Score(j) == EngagementOf(metric[j].counts)
    IN {First(q) : q \in Sorted(Rows, {x \in Rows \X Rows : Score(x[1]) >= Score(x[2])})}

AggregateOverview ==
    LET sums == FoldSet(AddRow, NoPosts, Rows)
    IN [totals |-> sums.totals, byPlatform |-> sums.byPlatform, topPosts |-> TopPosts]

In(slot, s) == {j \in Rows : slot[j] = s}

\* recommend and rankBestTimes: the posts by the slot of the week that they were
\* sent in; the average decides, then the number of posts, then the week.
RankBestTimes(slot) ==
    LET engagement == [j \in Rows |-> EngagementOf(metric[j].counts)]
        Total(s) == SumFunctionOnSet(engagement, In(slot, s))
        Count(s) == Cardinality(In(slot, s))
        Before(s, t) ==
            LET lead == Total(s) * Count(t) - Total(t) * Count(s)
                more == Count(s) - Count(t)
            IN lead > 0 \/ (lead = 0 /\ (more > 0 \/ (more = 0 /\ s <= t)))
        taken == {slot[j] : j \in Rows}
    IN {First(q) : q \in Sorted(taken, {x \in taken \X taken : Before(x[1], x[2])})}

-----------------------------------------------------------------------------
(* Properties. *)

\* list has the best of S, each once, in order, and as many as are asked for.
TopOf(list, S, R) ==
    LET top == Range(list) IN
    /\ top \subseteq S /\ Cardinality(top) = Len(list)
    /\ Len(list) = Min({TopN, Cardinality(S)})
    /\ \A i, j \in DOMAIN list : i < j => <<list[i], list[j]>> \in R
    /\ \A x \in top, y \in S \ top : <<x, y>> \in R

\* The overview counts every reaction that the platforms told of, whatever they
\* call it, and counts it once: in the totals, in each platform's share of
\* them, in the order of the top posts and in the times it recommends, whatever
\* comes of ties: no post or slot of the week that is left out, or further down, has
\* outdone one that is listed.  A post that is deleted is in none.  The top posts
\* are those "by engagement" (the comment on aggregateOverview), views apart.  The
\* comment on engagementScore says that they are ranked by impressions and
\* engagement together; the code does not, and this holds of what it does.
OverviewTrue ==
    LET o == AggregateOverview
        seen == [j \in Jobs |-> metric[j].seen]
        More(x) == seen[x[1]] >= seen[x[2]]
    IN
    /\ EngagementOf(o.totals) = SumFunctionOnSet(seen, Rows)
    /\ \A p \in Networks : LET of == {j \in Rows : job[j].platform = p} IN
        /\ o.byPlatform[p].postCount = Cardinality(of)
        /\ EngagementOf(o.byPlatform[p].metrics) = SumFunctionOnSet(seen, of)
    /\ o.topPosts # {}
    /\ \A list \in o.topPosts : TopOf(list, Rows, {x \in Rows \X Rows : More(x)})
    /\ \A slot \in [Jobs -> Slots] :
        LET taken == {slot[j] : j \in Rows}
            Average(x) ==
                SumFunctionOnSet(seen, In(slot, x[1])) * Cardinality(In(slot, x[2]))
                    >= SumFunctionOnSet(seen, In(slot, x[2])) * Cardinality(In(slot, x[1]))
        IN /\ RankBestTimes(slot) # {}
           /\ \A list \in RankBestTimes(slot) :
                TopOf(list, taken, {x \in taken \X taken : Average(x)})
    /\ \A j \in Rows : job[j].status # "gone"

=============================================================================
