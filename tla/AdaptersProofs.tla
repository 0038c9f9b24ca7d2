--------------------------- MODULE AdaptersProofs ----------------------------
(***************************************************************************)
(* Proofs about Adapters, for any number of overlapping calls, any images, *)
(* any length of a carousel and any bound of the polling; that every plan  *)
(* keeps the contract PlatformCall; and about Ingestion, which reads from  *)
(* the same platforms how those posts fare, and what Overview makes of     *)
(* what it has read.                                                       *)
(***************************************************************************)
EXTENDS Adapters, Overview, FiniteSetTheorems, TLAPS

-----------------------------------------------------------------------------
(* The plans, by their shapes. *)

PostPlan(item, close) ==
    \/ item = <<"create", "wait">> /\ close \in {<<"post">>, <<"album", "wait", "post">>}
    \/ item = <<"register", "fetch", "put">> /\ close = <<"post">>
    \/ item = <<"fetch", "upload">> /\ close = <<"post">>
    \/ item = <<"upload">> /\ close = <<"post">>
    \/ item = <<>> /\ close = <<"photo">>

\* The token that a plan for tokens is given, and the kind it has to come to.
TokenPlan(close, given, aim) ==
    \/ /\ request.purpose = "connect"
       /\ \/ close = <<"short", "extend", "profile">> /\ aim = "long"
          \/ close = <<"short", "extend", "page">> /\ aim = "page"
          \/ close = <<"pair", "profile">> /\ aim = "access"
    \/ /\ request.purpose = "refresh"
       /\ \/ close = <<"extend">> /\ aim \in {"long", "page"} /\ given = aim
          \/ close = <<"pair">> /\ aim = "access"

Aim == Tokens[request.platform].posts

-----------------------------------------------------------------------------
(* The inductive invariant.  k is a call, m the media it had created and p *)
(* what it made visible.                                                   *)

\* n media are held, each made after the one before it.
Holds(held, m, n) ==
    /\ Len(held) = n
    /\ \A i \in 1 .. n : held[i] \in 1 .. Len(m)
    /\ \A i, j \in 1 .. n : i < j => held[i] < held[j]

\* The first n of them show the first n images, and are ready.
ShowsFirst(held, m, n) ==
    \A i \in 1 .. n : m[held[i]] = [shows |-> <<request.images[i]>>, state |-> "ready"]

\* Where k stands in the part for one image.
ItemStage(k, m) ==
    LET kind == Plan.item[k.step] IN
    /\ k.step \in 1 .. Len(Plan.item)
    /\ ShowsFirst(k.held, m, k.item - 1)
    /\ IF kind \in {"create", "register", "upload"} \/ Plan.item = <<"fetch", "upload">>
       THEN Holds(k.held, m, k.item - 1)
       ELSE /\ Holds(k.held, m, k.item)
            /\ kind = "wait" => m[k.held[k.item]].shows = <<request.images[k.item]>>

\* Where it stands when all images are done.
CloseStage(k, m) ==
    LET kind == Plan.close[k.step] IN
    /\ k.step \in 1 .. Len(Plan.close)
    /\ k.step = 1 /\ kind # "photo" => Holds(k.held, m, Count) /\ ShowsFirst(k.held, m, Count)
    /\ k.step > 1 => Holds(k.held, m, 1) /\ m[k.held[1]].shows = request.images
    /\ k.step > 1 /\ kind = "post" => m[k.held[1]].state = "ready"

PostStage(k, m) ==
    /\ k.item \in 1 .. Count + 1
    /\ Plan.item = <<>> => k.item = Count + 1
    /\ IF k.item <= Count THEN ItemStage(k, m) ELSE CloseStage(k, m)

\* Where a plan for tokens stands.
TokenStage(k) ==
    LET kind == Plan.close[k.step] IN
    /\ k.item = 1 /\ k.step \in 1 .. Len(Plan.close)
    /\ kind = "extend" => k.token = IF k.step = 1 THEN Aim ELSE "short"
    /\ k.step > 1 /\ kind = "profile" => k.token = Aim

CallOK(k, m, p) ==
    /\ k.at = "idle" => k.step = 1 /\ k.held = <<>>
    /\ k.at \in {"idle", "running"} \/ request.purpose # "post" => p = <<>>
    /\ p \in {<<>>, <<request.images>>}
    /\ k.at = "running" =>
          IF request.purpose = "post" THEN PostStage(k, m) ELSE TokenStage(k)
    /\ k.at = "returned" =>
          IF request.purpose = "post" THEN p = <<request.images>>
          ELSE k.token = Aim /\ (request.purpose = "connect" => k.named)

IInv == TypeOK /\ \A c \in Callers : CallOK(call[c], media[c], posts[c])

-----------------------------------------------------------------------------
(* What a request is, and its plan. *)

\* Five platforms have a plan each for one image, for a carousel, and for
\* their tokens (capabilities, publish, connect and refresh of the adapters).
LEMMA Posting ==
    ASSUME TypeOK, request.purpose = "post"
    PROVE  /\ Count \in Nat \ {0}
           /\ request.images \in [1 .. Count -> Images]
           /\ request.images \in Seq(Images)
           /\ PostPlan(Plan.item, Plan.close)
           /\ Plan.item = <<>> => Count = 1
<1>1. request \in PostRequest
  BY DEF TypeOK, Request, TokenRequest
<1>2. PICK n \in 1 .. MaxImages : request.images \in [1 .. n -> Images]
  BY <1>1 DEF PostRequest
<1>3. /\ Count = n /\ n \in Nat \ {0}
      /\ request.images \in Seq(Images)
  BY <1>2, AdaptersAssumption DEF Count
<1>4. request.platform \in PlatformName
  BY <1>1, AdaptersAssumption DEF PostRequest
<1>5. PostPlan(Publish[request.platform].item, Publish[request.platform].close)
  BY <1>4 DEF PlatformName, PostPlan, Publish, InstagramPublish, ThreadsPublish, LinkedInPublish,
     XPublish, FacebookPublish
<1>6. /\ PostPlan(Carousel[request.platform].item, Carousel[request.platform].close)
      /\ Carousel[request.platform].item # <<>>
  BY <1>4 DEF PlatformName, PostPlan, Carousel, InstagramCarousel, ThreadsCarousel,
     LinkedInCarousel, XCarousel, FacebookCarousel
<1> QED  BY <1>2, <1>3, <1>5, <1>6 DEF Plan

LEMMA ForTokens ==
    ASSUME TypeOK, request.purpose # "post"
    PROVE  /\ request.purpose \in {"connect", "refresh"}
           /\ Count = 0 /\ Plan.item = <<>>
           /\ TokenPlan(Plan.close, Given, Aim)
           /\ Given \in Token
<1>1. request \in TokenRequest
  BY DEF TypeOK, Request, PostRequest
<1>2. /\ request.purpose \in {"connect", "refresh"}
      /\ request.platform \in PlatformName
      /\ request.images = <<>>
  BY <1>1, AdaptersAssumption DEF TokenRequest
<1>3. Count = 0
  BY <1>2 DEF Count
<1>4. CASE request.purpose = "connect"
  BY <1>2, <1>3, <1>4 DEF PlatformName, Plan, TokenPlan, Given, Aim, Token, Tokens, InstagramTokens,
     ThreadsTokens, LinkedInTokens, XTokens, FacebookTokens
<1>5. CASE request.purpose = "refresh"
  BY <1>2, <1>3, <1>5 DEF PlatformName, Plan, TokenPlan, Given, Aim, Token, Tokens, InstagramTokens,
     ThreadsTokens, LinkedInTokens, XTokens, FacebookTokens
<1> QED  BY <1>2, <1>4, <1>5

-----------------------------------------------------------------------------
(* Where a plan goes next. *)

LEMMA ItemKinds ==
    ASSUME NEW item, NEW close, PostPlan(item, close), NEW s \in 1 .. Len(item)
    PROVE  \/ /\ item = <<"create", "wait">> /\ close[1] # "photo"
              /\ \/ item[s] = "create" /\ s = 1
                 \/ item[s] = "wait" /\ s = 2
           \/ /\ item = <<"register", "fetch", "put">> /\ close = <<"post">>
              /\ \/ item[s] = "register" /\ s = 1
                 \/ item[s] = "fetch" /\ s = 2
                 \/ item[s] = "put" /\ s = 3
           \/ /\ item = <<"fetch", "upload">> /\ close = <<"post">>
              /\ \/ item[s] = "fetch" /\ s = 1
                 \/ item[s] = "upload" /\ s = 2
           \/ /\ item = <<"upload">> /\ close = <<"post">>
              /\ item[s] = "upload" /\ s = 1
<1>1. CASE item = <<"create", "wait">>
  <2>1. s \in {1, 2}
    BY <1>1
  <2>2. close[1] # "photo"
    BY <1>1 DEF PostPlan
  <2> QED  BY <1>1, <2>1, <2>2
<1>2. CASE item = <<"register", "fetch", "put">>
  <2>1. s \in {1, 2, 3}
    BY <1>2
  <2>2. item[1] = "register"
    BY <1>2
  <2>3. close = <<"post">>
    BY <2>2 DEF PostPlan
  <2> QED  BY <1>2, <2>1, <2>3
<1>3. CASE item = <<"fetch", "upload">>
  <2>1. s \in {1, 2}
    BY <1>3
  <2>2. item[1] = "fetch"
    BY <1>3
  <2>3. close = <<"post">>
    BY <2>2 DEF PostPlan
  <2> QED  BY <1>3, <2>1, <2>3
<1>4. CASE item = <<"upload">>
  <2>1. s = 1
    BY <1>4
  <2>2. item[1] = "upload"
    BY <1>4
  <2>3. close = <<"post">>
    BY <2>2 DEF PostPlan
  <2> QED  BY <1>4, <2>1, <2>3
<1>5. item # <<>>
  OBVIOUS
<1> QED  BY <1>1, <1>2, <1>3, <1>4, <1>5 DEF PostPlan

LEMMA CloseKinds ==
    ASSUME NEW item, NEW close, PostPlan(item, close), NEW s \in 1 .. Len(close)
    PROVE  \/ close = <<"photo">> /\ item = <<>> /\ close[s] = "photo" /\ s = 1
           \/ close = <<"post">> /\ item # <<>> /\ close[s] = "post" /\ s = 1
           \/ /\ close = <<"album", "wait", "post">> /\ item # <<>>
              /\ \/ close[s] = "album" /\ s = 1
                 \/ close[s] = "wait" /\ s = 2
                 \/ close[s] = "post" /\ s = 3
<1>1. CASE close = <<"photo">>
  <2>1. s = 1
    BY <1>1
  <2>2. item = <<>>
    BY <1>1 DEF PostPlan
  <2> QED  BY <1>1, <2>1, <2>2
<1>2. CASE close = <<"post">>
  <2>1. s = 1
    BY <1>2
  <2>2. item # <<>>
    BY <1>2 DEF PostPlan
  <2> QED  BY <1>2, <2>1, <2>2
<1>3. CASE close = <<"album", "wait", "post">>
  <2>1. s \in {1, 2, 3}
    BY <1>3
  <2>2. item # <<>>
    BY <1>3 DEF PostPlan
  <2> QED  BY <1>3, <2>1, <2>2
<1> QED  BY <1>1, <1>2, <1>3 DEF PostPlan

\* Advance goes on within the part of the plan it is in, or on to the next
\* image, or to the close, or returns.
LEMMA Advanced ==
    ASSUME TypeOK, NEW c \in Callers, NEW g \in Call, Advance(c, g),
           g.item = call[c].item, g.step = call[c].step, g.at = "running"
    PROVE  /\ call' = [call EXCEPT ![c] = call'[c]]
           /\ call'[c] \in Call
           /\ call'[c].held = g.held /\ call'[c].token = g.token /\ call'[c].named = g.named
           /\ call[c].step # Len(Part(c)) =>
                 /\ call'[c].item = g.item /\ call'[c].step = g.step + 1
                 /\ call'[c].at = "running"
           /\ call[c].step = Len(Part(c)) =>
                 /\ call'[c].item = g.item + 1 /\ call'[c].step = 1
                 /\ call'[c].at = IF g.item > Count THEN "returned" ELSE "running"
<1> DEFINE last == call[c].step = Len(Part(c))
           step == IF last THEN 1 ELSE g.step + 1
           item == IF last THEN g.item + 1 ELSE g.item
           at == IF last /\ call[c].item > Count THEN "returned" ELSE g.at
           new == [g EXCEPT !.polls = 0, !.step = step, !.item = item, !.at = at]
<1>1. call \in [Callers -> Call]
  BY DEF TypeOK
<1>2. call' = [call EXCEPT ![c] = new]
  BY DEF Advance
<1>3. call'[c] = new
  BY <1>1, <1>2
<1>4. g.item \in Nat /\ g.step \in Nat
  BY DEF Call
<1>5. step \in Nat /\ item \in Nat /\ at \in {"running", "returned"}
  BY <1>4
<1> HIDE DEF step, item, at
<1>6. new \in Call
  BY <1>5 DEF Call
<1>7. /\ new.held = g.held /\ new.token = g.token /\ new.named = g.named
      /\ new.step = step /\ new.item = item /\ new.at = at
  BY DEF Call
<1> HIDE DEF new
<1> QED  BY <1>2, <1>3, <1>6, <1>7 DEF step, item, at

\* Where a plan for tokens can be.
LEMMA TokenSteps ==
    ASSUME NEW close, NEW given, NEW aim, TokenPlan(close, given, aim), NEW s \in 1 .. Len(close)
    PROVE  \/ /\ close = <<"short", "extend", "profile">> /\ aim = "long"
              /\ request.purpose = "connect"
              /\ \/ close[s] = "short" /\ s = 1
                 \/ close[s] = "extend" /\ s = 2
                 \/ close[s] = "profile" /\ s = 3
           \/ /\ close = <<"short", "extend", "page">> /\ aim = "page"
              /\ request.purpose = "connect"
              /\ \/ close[s] = "short" /\ s = 1
                 \/ close[s] = "extend" /\ s = 2
                 \/ close[s] = "page" /\ s = 3
           \/ /\ close = <<"pair", "profile">> /\ aim = "access"
              /\ request.purpose = "connect"
              /\ \/ close[s] = "pair" /\ s = 1
                 \/ close[s] = "profile" /\ s = 2
           \/ /\ close = <<"extend">> /\ aim \in {"long", "page"} /\ given = aim
              /\ request.purpose = "refresh" /\ close[s] = "extend" /\ s = 1
           \/ /\ close = <<"pair">> /\ aim = "access"
              /\ request.purpose = "refresh" /\ close[s] = "pair" /\ s = 1
<1>1. CASE request.purpose = "connect"
  <2>1. ASSUME close = <<"short", "extend", "profile">>
        PROVE  s \in {1, 2, 3}
    BY <2>1
  <2>2. ASSUME close = <<"short", "extend", "page">>
        PROVE  s \in {1, 2, 3}
    BY <2>2
  <2>3. ASSUME close = <<"pair", "profile">>
        PROVE  s \in {1, 2}
    BY <2>3
  <2> QED  BY <1>1, <2>1, <2>2, <2>3 DEF TokenPlan
<1>2. CASE request.purpose = "refresh"
  <2>1. ASSUME close = <<"extend">>
        PROVE  s = 1
    BY <2>1
  <2>2. ASSUME close = <<"pair">>
        PROVE  s = 1
    BY <2>2
  <2> QED  BY <1>2, <2>1, <2>2 DEF TokenPlan
<1> QED  BY <1>1, <1>2 DEF TokenPlan

LEMMA TokenFirst ==
    ASSUME NEW close, NEW given, NEW aim, TokenPlan(close, given, aim)
    PROVE  1 \in 1 .. Len(close) /\ (close[1] = "extend" => given = aim)
<1>1. CASE close = <<"short", "extend", "profile">>
  BY <1>1
<1>2. CASE close = <<"short", "extend", "page">>
  BY <1>2
<1>3. CASE close = <<"pair", "profile">>
  BY <1>3
<1>4. ASSUME close = <<"extend">>, given = aim
      PROVE  1 \in 1 .. Len(close) /\ (close[1] = "extend" => given = aim)
  BY <1>4
<1>5. CASE close = <<"pair">>
  BY <1>5
<1> QED  BY <1>1, <1>2, <1>3, <1>4, <1>5 DEF TokenPlan

-----------------------------------------------------------------------------
(* Media. *)

\* What the platform may do with the media it has: it adds to them, and it
\* finishes those it was processing.
Kept(m, m2) ==
    /\ Len(m) <= Len(m2)
    /\ \A i \in 1 .. Len(m) : /\ m2[i].shows = m[i].shows
                              /\ m[i].state = "ready" => m2[i] = m[i]

LEMMA KeptAppended ==
    ASSUME NEW m \in Seq(Medium), NEW x \in Medium
    PROVE  /\ Append(m, x) \in Seq(Medium)
           /\ Kept(m, Append(m, x))
           /\ Len(Append(m, x)) = Len(m) + 1
           /\ Append(m, x)[Len(m) + 1] = x
  BY DEF Kept

LEMMA KeptHeld ==
    ASSUME NEW held, NEW m \in Seq(Medium), NEW m2 \in Seq(Medium), NEW n \in Nat,
           Kept(m, m2), Holds(held, m, n)
    PROVE  /\ Holds(held, m2, n)
           /\ \A i \in 1 .. n : m2[held[i]].shows = m[held[i]].shows
           /\ \A i \in 1 .. n : m[held[i]].state = "ready" => m2[held[i]] = m[held[i]]
<1>1. \A i \in 1 .. n : held[i] \in 1 .. Len(m)
  BY DEF Holds
<1>2. Len(m) \in Nat /\ Len(m2) \in Nat /\ Len(m) <= Len(m2)
  BY DEF Kept
<1>3. Holds(held, m2, n)
  BY <1>2 DEF Holds
<1> QED  BY <1>1, <1>3 DEF Kept

LEMMA KeptShows ==
    ASSUME NEW held, NEW m \in Seq(Medium), NEW m2 \in Seq(Medium), NEW n \in Nat,
           Kept(m, m2), Holds(held, m, n), NEW j \in Nat, j <= n, ShowsFirst(held, m, j)
    PROVE  ShowsFirst(held, m2, j)
<1> SUFFICES ASSUME NEW i \in 1 .. j
             PROVE  m2[held[i]] = [shows |-> <<request.images[i]>>, state |-> "ready"]
  BY DEF ShowsFirst
<1>1. m[held[i]] = [shows |-> <<request.images[i]>>, state |-> "ready"]
  BY DEF ShowsFirst
<1>2. m[held[i]].state = "ready" /\ i \in 1 .. n
  BY <1>1
<1> QED  BY <1>1, <1>2, KeptHeld

\* Another medium, held after the others.
LEMMA HeldMore ==
    ASSUME NEW held \in Seq(Nat), NEW m \in Seq(Medium), NEW x \in Medium, NEW n \in Nat,
           Holds(held, m, n)
    PROVE  /\ Holds(Append(held, Len(m) + 1), Append(m, x), n + 1)
           /\ Append(m, x)[Append(held, Len(m) + 1)[n + 1]] = x
           /\ ShowsFirst(held, m, n) => ShowsFirst(Append(held, Len(m) + 1), Append(m, x), n)
<1> DEFINE m2 == Append(m, x)
           held2 == Append(held, Len(m) + 1)
<1>1. /\ m2 \in Seq(Medium) /\ Len(m2) = Len(m) + 1 /\ m2[Len(m) + 1] = x
      /\ \A i \in 1 .. Len(m) : m2[i] = m[i]
      /\ Len(m) \in Nat
  OBVIOUS
<1>2. /\ Len(held) = n
      /\ \A i \in 1 .. n : held[i] \in 1 .. Len(m)
      /\ \A i, j \in 1 .. n : i < j => held[i] < held[j]
  BY DEF Holds
<1>3. /\ Len(held2) = n + 1 /\ held2[n + 1] = Len(m) + 1
      /\ \A i \in 1 .. n : held2[i] = held[i]
  BY <1>2
<1> HIDE DEF m2, held2
<1>4. Holds(held2, m2, n + 1)
  <2>1. \A i \in 1 .. n + 1 : held2[i] \in 1 .. Len(m2)
    BY <1>1, <1>2, <1>3
  <2>2. ASSUME NEW i \in 1 .. n + 1, NEW j \in 1 .. n + 1, i < j
        PROVE  held2[i] < held2[j]
    <3>1. i \in 1 .. n
      BY <2>2
    <3>2. CASE j = n + 1
      BY <1>1, <1>2, <1>3, <3>1, <3>2
    <3>3. CASE j # n + 1
      BY <1>1, <1>2, <1>3, <2>2, <3>1, <3>3
    <3> QED  BY <3>2, <3>3
  <2> QED  BY <1>3, <2>1, <2>2 DEF Holds
<1>5. ASSUME ShowsFirst(held, m, n)
      PROVE  ShowsFirst(held2, m2, n)
  <2> SUFFICES ASSUME NEW i \in 1 .. n
               PROVE  m2[held2[i]] = [shows |-> <<request.images[i]>>, state |-> "ready"]
    BY DEF ShowsFirst
  <2>1. held2[i] = held[i] /\ held[i] \in 1 .. Len(m)
    BY <1>2, <1>3
  <2>2. m2[held2[i]] = m[held[i]]
    BY <1>1, <2>1
  <2> QED  BY <1>5, <2>2 DEF ShowsFirst
<1> QED  BY <1>1, <1>3, <1>4, <1>5 DEF m2, held2

\* The medium held last.
LEMMA LastHeld ==
    ASSUME NEW held, NEW m \in Seq(Medium), NEW n \in Nat, n >= 1, Holds(held, m, n)
    PROVE  LastOf(held) = held[n] /\ LastOf(held) \in 1 .. Len(m)
<1>1. n \in 1 .. n
  OBVIOUS
<1>2. Len(held) = n /\ held[n] \in 1 .. Len(m)
  BY <1>1 DEF Holds
<1> QED  BY <1>2 DEF LastOf

\* A caller's stage only rests on what its media show and on the ready ones.
LEMMA StageKept ==
    ASSUME NEW k \in Call, NEW k2 \in Call, NEW m \in Seq(Medium), NEW m2 \in Seq(Medium),
           Kept(m, m2), PostStage(k, m), TypeOK, request.purpose = "post",
           k2.held = k.held, k2.item = k.item, k2.step = k.step
    PROVE  PostStage(k2, m2)
<1>0. Count \in Nat \ {0}
  BY Posting
<1>1. k.item \in 1 .. Count + 1 /\ (Plan.item = <<>> => k.item = Count + 1)
  BY DEF PostStage
<1>2. CASE k.item <= Count
  <2>0. ItemStage(k, m)
    BY <1>2 DEF PostStage
  <2>1. k.item - 1 \in Nat /\ k.item \in Nat /\ k.item - 1 <= k.item
    BY <1>0, <1>1
  <2>2. ShowsFirst(k.held, m, k.item - 1)
    BY <2>0 DEF ItemStage
  <2>3. CASE Plan.item[k.step] \in {"create", "register", "upload"} \/ Plan.item = <<"fetch", "upload">>
    <3>1. Holds(k.held, m, k.item - 1)
      BY <2>0, <2>3 DEF ItemStage
    <3> DEFINE n == k.item - 1
    <3>2. n \in Nat /\ n <= n
      BY <2>1
    <3>4. Holds(k.held, m, n) /\ ShowsFirst(k.held, m, n)
      BY <2>2, <3>1
    <3> HIDE DEF n
    <3>5. Holds(k.held, m2, n) /\ ShowsFirst(k.held, m2, n)
      BY <3>2, <3>4, KeptHeld, KeptShows
    <3>6. Holds(k2.held, m2, k.item - 1) /\ ShowsFirst(k2.held, m2, k.item - 1)
      BY <3>5 DEF n
    <3>7. ItemStage(k2, m2)
      BY <2>0, <2>3, <3>6 DEF ItemStage
    <3> QED  BY <1>1, <1>2, <3>7 DEF PostStage
  <2>4. CASE ~(Plan.item[k.step] \in {"create", "register", "upload"} \/ Plan.item = <<"fetch", "upload">>)
    <3>1. /\ Holds(k.held, m, k.item)
          /\ Plan.item[k.step] = "wait" => m[k.held[k.item]].shows = <<request.images[k.item]>>
      BY <2>0, <2>4 DEF ItemStage
    <3> DEFINE n == k.item
    <3>5. n \in Nat /\ n \in 1 .. n
      BY <1>1, <2>1
    <3>6. /\ Holds(k.held, m2, n)
          /\ \A i \in 1 .. n : m2[k.held[i]].shows = m[k.held[i]].shows
      <4> HIDE DEF n
      <4>1. Holds(k.held, m, n)
        BY <3>1 DEF n
      <4> QED  BY <3>5, <4>1, KeptHeld
    <3>7. ShowsFirst(k.held, m2, n - 1)
      <4> DEFINE j == n - 1
      <4>1. j \in Nat /\ j <= n /\ ShowsFirst(k.held, m, j) /\ Holds(k.held, m, n)
        BY <2>1, <2>2, <3>1
      <4> HIDE DEF j, n
      <4>2. ShowsFirst(k.held, m2, j)
        BY <3>5, <4>1, KeptShows
      <4> QED  BY <4>2 DEF j
    <3>2. /\ Holds(k2.held, m2, k.item) /\ ShowsFirst(k2.held, m2, k.item - 1)
          /\ m2[k2.held[k.item]].shows = m[k.held[k.item]].shows
      BY <3>5, <3>6, <3>7
    <3>3. ItemStage(k2, m2)
      BY <2>0, <2>4, <3>1, <3>2 DEF ItemStage
    <3> QED  BY <1>1, <1>2, <3>3 DEF PostStage
  <2> QED  BY <2>3, <2>4
<1>3. CASE ~(k.item <= Count)
  <2>0. CloseStage(k, m)
    BY <1>3 DEF PostStage
  <2>1. k.step = 1 /\ Plan.close[k.step] # "photo"
          => Holds(k2.held, m2, Count) /\ ShowsFirst(k2.held, m2, Count)
    <3> SUFFICES ASSUME k.step = 1, Plan.close[k.step] # "photo"
                 PROVE  Holds(k2.held, m2, Count) /\ ShowsFirst(k2.held, m2, Count)
      OBVIOUS
    <3>1. Holds(k.held, m, Count) /\ ShowsFirst(k.held, m, Count)
      BY <2>0 DEF CloseStage
    <3>2. Count \in Nat /\ Count <= Count
      BY <1>0
    <3>3. Holds(k.held, m2, Count)
      BY <3>1, <3>2, KeptHeld
    <3>4. ShowsFirst(k.held, m2, Count)
      BY <3>1, <3>2, KeptShows
    <3> QED  BY <3>3, <3>4
  <2>2. k.step > 1 => Holds(k.held, m, 1) /\ m[k.held[1]].shows = request.images
    BY <2>0 DEF CloseStage
  <2>3. k.step > 1 => /\ Holds(k2.held, m2, 1)
                      /\ m2[k2.held[1]].shows = m[k.held[1]].shows
                      /\ m[k.held[1]].state = "ready" => m2[k2.held[1]] = m[k.held[1]]
    BY <2>2, KeptHeld
  <2>4. CloseStage(k2, m2)
    BY <2>0, <2>1, <2>2, <2>3 DEF CloseStage
  <2> QED  BY <1>1, <1>3, <2>4 DEF PostStage
<1> QED  BY <1>2, <1>3

\* After the last step for an image all of them up to it are held and ready.
LEMMA ItemDone ==
    ASSUME TypeOK, request.purpose = "post", NEW k \in Call, NEW m, Plan.item # <<>>,
           k.item \in 2 .. Count + 1, k.step = 1,
           Holds(k.held, m, k.item - 1), ShowsFirst(k.held, m, k.item - 1)
    PROVE  PostStage(k, m)
<1>0. Count \in Nat \ {0} /\ PostPlan(Plan.item, Plan.close)
  BY Posting
<1>1. CASE k.item <= Count
  <2>1. /\ 1 \in 1 .. Len(Plan.item)
        /\ Plan.item[1] \in {"create", "register", "upload"} \/ Plan.item = <<"fetch", "upload">>
    BY <1>0 DEF PostPlan
  <2>2. ItemStage(k, m)
    BY <2>1 DEF ItemStage
  <2> QED  BY <1>0, <1>1, <2>2 DEF PostStage
<1>2. CASE ~(k.item <= Count)
  <2>1. k.item - 1 = Count
    BY <1>0, <1>2
  <2>2. 1 \in 1 .. Len(Plan.close)
    <3>1. \/ Plan.close = <<"photo">> \/ Plan.close = <<"post">>
          \/ Plan.close = <<"album", "wait", "post">>
      BY <1>0 DEF PostPlan
    <3>2. CASE Plan.close = <<"photo">>
      BY <3>2
    <3>3. CASE Plan.close = <<"post">>
      BY <3>3
    <3>4. CASE Plan.close = <<"album", "wait", "post">>
      BY <3>4
    <3> QED  BY <3>1, <3>2, <3>3, <3>4
  <2>3. CloseStage(k, m)
    BY <2>1, <2>2 DEF CloseStage
  <2> QED  BY <1>0, <1>2, <2>3 DEF PostStage
<1> QED  BY <1>1, <1>2

-----------------------------------------------------------------------------
(* One step of the call c. *)

Moved(c) ==
    /\ request' = request /\ spent' \in BOOLEAN
    /\ call' = [call EXCEPT ![c] = call'[c]] /\ call'[c] \in Call
    /\ media' = [media EXCEPT ![c] = media'[c]] /\ media'[c] \in Seq(Medium)
    /\ posts' = [posts EXCEPT ![c] = posts'[c]] /\ posts'[c] \in Seq(Seq(Images))
    /\ CallOK(call'[c], media'[c], posts'[c])

LEMMA MovedKeeps ==
    ASSUME IInv, NEW c \in Callers, Moved(c)
    PROVE  IInv'
<1>1. TypeOK'
  BY DEF IInv, TypeOK, Moved
<1>2. ASSUME NEW d \in Callers
      PROVE  CallOK(call'[d], media'[d], posts'[d])
  <2>1. CASE d = c
    BY <2>1 DEF Moved
  <2>2. CASE d # c
    BY <2>2 DEF IInv, TypeOK, Moved
  <2> QED  BY <2>1, <2>2
<1>3. request' = request
  BY DEF Moved
<1>4. ASSUME NEW d \in Callers
      PROVE  CallOK(call[d], media[d], posts[d])'
  <2>1. CallOK(call'[d], media'[d], posts'[d])
    BY <1>2
  <2> QED
    BY <1>3, <2>1 DEF CallOK, PostStage, TokenStage, ItemStage, CloseStage, Holds, ShowsFirst, Plan,
       Count, Aim
<1> QED  BY <1>1, <1>4 DEF IInv

\* What is known of a call that is running, by where its plan is.
LEMMA Running ==
    ASSUME IInv, NEW c \in Callers
    PROVE  /\ TypeOK
           /\ call[c] \in Call /\ media[c] \in Seq(Medium) /\ posts[c] \in Seq(Seq(Images))
           /\ call \in [Callers -> Call]
           /\ CallOK(call[c], media[c], posts[c])
           /\ call[c].held \in Seq(Nat) /\ call[c].item \in Nat /\ call[c].step \in Nat
           /\ call[c].at = "running" => posts[c] = <<>>
  BY DEF IInv, TypeOK, Call, CallOK

\* The steps for an image, and those that close.
LEMMA InPost ==
    ASSUME IInv, NEW c \in Callers, call[c].at = "running", request.purpose = "post"
    PROVE  /\ PostStage(call[c], media[c])
           /\ call[c].item \in 1 .. Count + 1
           /\ call[c].item <= Count =>
                 /\ ItemStage(call[c], media[c]) /\ Part(c) = Plan.item
                 /\ call[c].step \in 1 .. Len(Plan.item) /\ Plan.item # <<>>
           /\ ~(call[c].item <= Count) =>
                 /\ CloseStage(call[c], media[c]) /\ Part(c) = Plan.close
                 /\ call[c].step \in 1 .. Len(Plan.close)
<1>0. Count \in Nat \ {0}
  BY Running, Posting
<1>1. PostStage(call[c], media[c])
  BY Running DEF CallOK
<1>2. call[c].item \in 1 .. Count + 1 /\ (Plan.item = <<>> => call[c].item = Count + 1)
  BY <1>1 DEF PostStage
<1>3. call[c].item <= Count => ItemStage(call[c], media[c]) /\ Plan.item # <<>>
  BY <1>0, <1>1, <1>2 DEF PostStage
<1>4. ~(call[c].item <= Count) => CloseStage(call[c], media[c])
  BY <1>1 DEF PostStage
<1> QED  BY <1>1, <1>2, <1>3, <1>4 DEF ItemStage, CloseStage, Part

LEMMA InTokens ==
    ASSUME IInv, NEW c \in Callers, call[c].at = "running", request.purpose # "post"
    PROVE  /\ TokenStage(call[c]) /\ posts[c] = <<>>
           /\ Part(c) = Plan.close
           /\ call[c].item = 1 /\ Count = 0
           /\ call[c].step \in 1 .. Len(Plan.close)
           /\ TokenPlan(Plan.close, Given, Aim)
<1>1. TokenStage(call[c]) /\ posts[c] = <<>>
  BY Running DEF CallOK
<1>2. Count = 0 /\ TokenPlan(Plan.close, Given, Aim)
  BY Running, ForTokens
<1>3. call[c].item = 1 /\ call[c].step \in 1 .. Len(Plan.close)
  BY <1>1 DEF TokenStage
<1> QED  BY <1>1, <1>2, <1>3 DEF Part

\* A call that throws only has to have shown nothing, or what was asked for.
LEMMA Threw ==
    ASSUME IInv, NEW c \in Callers, Throw(c), request' = request, spent' \in BOOLEAN,
           media' = [media EXCEPT ![c] = media'[c]], media'[c] \in Seq(Medium),
           posts' = [posts EXCEPT ![c] = posts'[c]], posts'[c] \in Seq(Seq(Images)),
           posts'[c] \in {<<>>, <<request.images>>},
           request.purpose # "post" => posts'[c] = <<>>
    PROVE  Moved(c)
<1>1. call' = [call EXCEPT ![c] = [call[c] EXCEPT !.at = "threw"]]
  BY DEF Throw
<1>2. call'[c] = [call[c] EXCEPT !.at = "threw"]
  BY <1>1, Running
<1>3. call'[c] \in Call /\ call'[c].at = "threw"
  BY <1>2, Running DEF Call
<1>4. CallOK(call'[c], media'[c], posts'[c])
  BY <1>3 DEF CallOK
<1> QED  BY <1>1, <1>2, <1>3, <1>4 DEF Moved

\* The call goes on: it has to be where its plan can be.
LEMMA WentOn ==
    ASSUME IInv, NEW c \in Callers, request' = request, spent' \in BOOLEAN,
           call' = [call EXCEPT ![c] = call'[c]], call'[c] \in Call, call'[c].at = "running",
           media' = [media EXCEPT ![c] = media'[c]], media'[c] \in Seq(Medium),
           posts' = posts, posts[c] = <<>>,
           IF request.purpose = "post" THEN PostStage(call'[c], media'[c])
           ELSE TokenStage(call'[c])
    PROVE  Moved(c)
<1>1. CallOK(call'[c], media'[c], posts'[c])
  BY DEF CallOK
<1>2. posts' = [posts EXCEPT ![c] = posts'[c]] /\ posts'[c] \in Seq(Seq(Images))
  BY DEF IInv, TypeOK
<1> QED  BY <1>1, <1>2 DEF Moved

LEMMA BeginMoves ==
    ASSUME IInv, NEW c \in Callers, Begin(c)
    PROVE  Moved(c)
<1> DEFINE item == IF Plan.item = <<>> THEN Count + 1 ELSE 1
           token == IF request.purpose = "post" THEN call[c].token ELSE Given
           new == [call[c] EXCEPT !.at = "running", !.item = item, !.token = token]
<1>0. TypeOK /\ call[c] \in Call /\ media[c] \in Seq(Medium) /\ spent \in BOOLEAN
  BY Running DEF TypeOK
<1>1. call[c].step = 1 /\ call[c].held = <<>> /\ posts[c] = <<>> /\ call[c].at = "idle"
  BY Running DEF Begin, CallOK
<1>2. Count \in Nat
  BY <1>0, Posting, ForTokens
<1>3. item \in Nat /\ token \in Token
  BY <1>0, <1>2, ForTokens DEF Call
<1>4. call' = [call EXCEPT ![c] = new] /\ UNCHANGED <<request, media, posts, spent>>
  BY DEF Begin
<1> HIDE DEF item, token
<1>5. /\ new \in Call /\ new.at = "running" /\ new.item = item /\ new.token = token
      /\ new.step = 1 /\ new.held = <<>>
  BY <1>0, <1>1, <1>3 DEF Call
<1> HIDE DEF new
<1>6. call'[c] = new
  BY <1>4, Running
<1>9. /\ request' = request /\ spent' \in BOOLEAN
      /\ call' = [call EXCEPT ![c] = call'[c]] /\ call'[c] \in Call /\ call'[c].at = "running"
      /\ media' = [media EXCEPT ![c] = media'[c]] /\ media'[c] = media[c]
      /\ posts' = posts /\ posts[c] = <<>>
  BY <1>0, <1>1, <1>4, <1>5, <1>6 DEF IInv, TypeOK
<1>7. CASE request.purpose = "post"
  <2>1. Count \in Nat \ {0} /\ PostPlan(Plan.item, Plan.close)
    BY <1>0, <1>7, Posting
  <2>2. CASE Plan.item = <<>>
    <3>1. new.item = Count + 1
      BY <1>5, <2>2 DEF item
    <3>2. Plan.close = <<"photo">>
      BY <2>1, <2>2 DEF PostPlan
    <3>3. CloseStage(new, media[c])
      BY <1>5, <3>2 DEF CloseStage
    <3>4. PostStage(new, media[c])
      BY <2>1, <3>1, <3>3 DEF PostStage
    <3> QED  BY <1>0, <1>6, <1>7, <1>9, <3>4, WentOn
  <2>3. CASE Plan.item # <<>>
    <3>1. new.item = 1
      BY <1>5, <2>3 DEF item
    <3>2. Holds(new.held, media[c], 0) /\ ShowsFirst(new.held, media[c], 0)
      BY <1>5 DEF Holds, ShowsFirst
    <3>3. /\ 1 \in 1 .. Len(Plan.item)
          /\ Plan.item[1] \in {"create", "register", "upload"} \/ Plan.item = <<"fetch", "upload">>
      BY <2>1, <2>3 DEF PostPlan
    <3>4. ItemStage(new, media[c])
      BY <1>5, <3>1, <3>2, <3>3 DEF ItemStage
    <3>5. PostStage(new, media[c])
      BY <2>1, <2>3, <3>1, <3>4 DEF PostStage
    <3> QED  BY <1>0, <1>6, <1>7, <1>9, <3>5, WentOn
  <2> QED  BY <2>2, <2>3
<1>8. CASE request.purpose # "post"
  <2>1. Count = 0 /\ Plan.item = <<>> /\ TokenPlan(Plan.close, Given, Aim)
    BY <1>0, <1>8, ForTokens
  <2>2. new.item = 1 /\ new.token = Given
    BY <1>5, <1>8, <2>1 DEF item, token
  <2>3. /\ 1 \in 1 .. Len(Plan.close)
        /\ Plan.close[1] = "extend" => Given = Aim
    BY <2>1, TokenFirst
  <2>4. TokenStage(new)
    BY <1>5, <2>2, <2>3 DEF TokenStage
  <2> QED  BY <1>0, <1>6, <1>8, <1>9, <2>4, WentOn
<1> QED  BY <1>7, <1>8

LEMMA RefusedMoves ==
    ASSUME IInv, NEW c \in Callers, Refused(c)
    PROVE  Moved(c)
<1>1. posts[c] = <<>> /\ posts \in [Callers -> Seq(Seq(Images))] /\ spent \in BOOLEAN
  BY Running DEF Refused, IInv, TypeOK
<1>2. media' = [media EXCEPT ![c] = media'[c]] /\ media'[c] \in Seq(Medium)
  BY Running DEF Refused, IInv, TypeOK
<1> QED  BY <1>1, <1>2, Threw DEF Refused

\* Advance with what the call already had.
LEMMA SameAdvanced ==
    ASSUME IInv, NEW c \in Callers, Advance(c, call[c]), call[c].at = "running"
    PROVE  /\ call' = [call EXCEPT ![c] = call'[c]]
           /\ call'[c] \in Call
           /\ call'[c].held = call[c].held /\ call'[c].token = call[c].token
           /\ call'[c].named = call[c].named
           /\ call[c].step # Len(Part(c)) =>
                 /\ call'[c].item = call[c].item /\ call'[c].step = call[c].step + 1
                 /\ call'[c].at = "running"
           /\ call[c].step = Len(Part(c)) =>
                 /\ call'[c].item = call[c].item + 1 /\ call'[c].step = 1
                 /\ call'[c].at = IF call[c].item > Count THEN "returned" ELSE "running"
  BY Running, Advanced

\* The kinds of call that only a plan to post has, in the part for an image.
LEMMA ItemOnly ==
    ASSUME IInv, NEW c \in Callers,
           AtKind(c, {"fetch"}) \/ AtKind(c, {"create"}) \/ AtKind(c, {"upload"})
           \/ AtKind(c, {"register"}) \/ AtKind(c, {"put"})
    PROVE  /\ request.purpose = "post" /\ call[c].at = "running"
           /\ call[c].item <= Count /\ Part(c) = Plan.item
           /\ PostPlan(Plan.item, Plan.close)
<1>0. call[c].at = "running"
  BY DEF AtKind
<1>1. request.purpose = "post"
  <2> SUFFICES ASSUME request.purpose # "post"
               PROVE  FALSE
    OBVIOUS
  <2>1. /\ Part(c) = Plan.close /\ call[c].step \in 1 .. Len(Plan.close)
        /\ TokenPlan(Plan.close, Given, Aim)
    BY <1>0, InTokens
  <2>2. Plan.close[call[c].step] \in {"short", "extend", "profile", "page", "pair"}
    BY <2>1, TokenSteps
  <2> QED  BY <2>1, <2>2 DEF AtKind
<1>2. PostPlan(Plan.item, Plan.close)
  BY <1>1, Running, Posting
<1>3. call[c].item <= Count
  BY <1>0, <1>1, <1>2, InPost, CloseKinds DEF AtKind
<1> QED  BY <1>0, <1>1, <1>2, <1>3 DEF Part

LEMMA FetchMoves ==
    ASSUME IInv, NEW c \in Callers, Fetch(c)
    PROVE  Moved(c)
<1> DEFINE k == call[c]
           k2 == call'[c]
           m == media[c]
<1>0. /\ request.purpose = "post" /\ k.at = "running"
      /\ k.item <= Count /\ Part(c) = Plan.item
      /\ PostPlan(Plan.item, Plan.close)
  BY ItemOnly DEF Fetch
<1>1. /\ ItemStage(k, m) /\ k.item \in 1 .. Count + 1
      /\ k.step \in 1 .. Len(Plan.item) /\ Plan.item # <<>>
      /\ Plan.item[k.step] = "fetch" /\ posts[c] = <<>> /\ Count \in Nat \ {0}
  BY <1>0, InPost, Running, Posting DEF Fetch, AtKind
<1>2. Advance(c, k) /\ UNCHANGED <<request, media, posts, spent>>
  BY DEF Fetch
<1>3. \/ Plan.item = <<"register", "fetch", "put">> /\ k.step = 2
      \/ Plan.item = <<"fetch", "upload">> /\ k.step = 1
  BY <1>0, <1>1, ItemKinds
<1>4. k.step # Len(Plan.item) /\ k.step + 1 \in 1 .. Len(Plan.item)
  <2>1. CASE Plan.item = <<"register", "fetch", "put">> /\ k.step = 2
    BY <2>1
  <2>2. CASE Plan.item = <<"fetch", "upload">> /\ k.step = 1
    BY <2>2
  <2> QED  BY <1>3, <2>1, <2>2
<1>5. /\ call' = [call EXCEPT ![c] = k2] /\ k2 \in Call
      /\ k2.held = k.held /\ k2.item = k.item /\ k2.step = k.step + 1 /\ k2.at = "running"
  BY <1>0, <1>2, <1>4, SameAdvanced
<1>6. ItemStage(k2, m)
  <2>1. CASE Plan.item = <<"register", "fetch", "put">> /\ k.step = 2
    <3>1. Plan.item[k.step] = "fetch" /\ Plan.item[k2.step] = "put" /\ Plan.item # <<"fetch", "upload">>
      BY <1>5, <2>1
    <3> QED  BY <1>1, <1>4, <1>5, <3>1 DEF ItemStage
  <2>2. CASE Plan.item = <<"fetch", "upload">> /\ k.step = 1
    <3>1. Plan.item[k.step] = "fetch" /\ Plan.item[k2.step] = "upload"
      BY <1>5, <2>2
    <3> QED  BY <1>1, <1>4, <1>5, <2>2, <3>1 DEF ItemStage
  <2> QED  BY <1>3, <2>1, <2>2
<1>7. PostStage(k2, m)
  BY <1>0, <1>1, <1>5, <1>6 DEF PostStage
<1>8. /\ spent' \in BOOLEAN /\ request' = request /\ posts' = posts
      /\ media' = [media EXCEPT ![c] = media'[c]] /\ media'[c] \in Seq(Medium)
      /\ media'[c] = m
  BY <1>2 DEF IInv, TypeOK
<1> QED  BY <1>0, <1>1, <1>5, <1>7, <1>8, WentOn

\* Wherever c goes next holding held, with the media m2, its plan can be.
NextStage(c, held, m2) ==
    \A k2 \in Call :
        /\ k2.held = held /\ k2.at = "running"
        /\ call[c].step # Len(Part(c)) => k2.item = call[c].item /\ k2.step = call[c].step + 1
        /\ call[c].step = Len(Part(c)) => k2.item = call[c].item + 1 /\ k2.step = 1
        => PostStage(k2, m2)

\* A medium made and held after the others.
LEMMA MakeMoves ==
    ASSUME IInv, NEW c \in Callers, NEW shows \in Seq(Images),
           NEW state \in {"empty", "processing", "ready"}, NEW held \in Seq(Nat),
           call[c].at = "running", request.purpose = "post", Make(c, shows, state, held),
           NextStage(c, held, Append(media[c], [shows |-> shows, state |-> state])),
           call[c].item > Count => call[c].step # Len(Part(c))
    PROVE  Moved(c)
<1> DEFINE x == [shows |-> shows, state |-> state]
           m2 == Append(media[c], x)
           g == Holding(c, held)
<1>1. x \in Medium /\ media[c] \in Seq(Medium) /\ call[c] \in Call /\ posts[c] = <<>> /\ TypeOK
  BY Running DEF Medium
<1>2. m2 \in Seq(Medium)
  BY <1>1
<1>3. media' = [media EXCEPT ![c] = m2] /\ UNCHANGED <<request, posts, spent>>
  BY DEF Make
<1>4. media'[c] = m2
  BY <1>3 DEF IInv, TypeOK
<1>5. /\ g \in Call /\ g.held = held /\ g.item = call[c].item /\ g.step = call[c].step
      /\ g.at = "running"
  BY <1>1 DEF Holding, Call
<1>6. CASE Throw(c)
  <2>1. /\ request' = request /\ spent' \in BOOLEAN /\ media' = [media EXCEPT ![c] = media'[c]]
        /\ posts' = [posts EXCEPT ![c] = posts'[c]] /\ posts'[c] = <<>>
        /\ posts'[c] \in Seq(Seq(Images))
    BY <1>1, <1>3, <1>4 DEF IInv, TypeOK
  <2> HIDE DEF m2
  <2> QED  BY <1>2, <1>3, <1>4, <1>6, <2>1, Threw
<1>7. CASE Advance(c, g)
  <2> HIDE DEF g
  <2>1. /\ call' = [call EXCEPT ![c] = call'[c]] /\ call'[c] \in Call /\ call'[c].held = held
        /\ call[c].step # Len(Part(c)) =>
              /\ call'[c].item = call[c].item /\ call'[c].step = call[c].step + 1
              /\ call'[c].at = "running"
        /\ call[c].step = Len(Part(c)) =>
              /\ call'[c].item = call[c].item + 1 /\ call'[c].step = 1
              /\ call'[c].at = IF call[c].item > Count THEN "returned" ELSE "running"
    BY <1>1, <1>5, <1>7, Advanced
  <2>2. call'[c].at = "running"
    BY <2>1
  <2>3. PostStage(call'[c], m2)
    BY <2>1, <2>2 DEF NextStage
  <2>4. spent' \in BOOLEAN /\ media' = [media EXCEPT ![c] = media'[c]]
    BY <1>3, <1>4 DEF IInv, TypeOK
  <2> QED  BY <1>1, <1>2, <1>3, <1>4, <2>1, <2>2, <2>3, <2>4, WentOn
<1> QED  BY <1>6, <1>7 DEF Make

LEMMA CreateMoves ==
    ASSUME IInv, NEW c \in Callers, Create(c)
    PROVE  Moved(c)
<1> DEFINE k == call[c]
           m == media[c]
           image == request.images[k.item]
           held == Append(k.held, NewId(c))
<1>0. /\ request.purpose = "post" /\ k.at = "running"
      /\ k.item <= Count /\ Part(c) = Plan.item
      /\ PostPlan(Plan.item, Plan.close)
  <2>1. AtKind(c, {"create"}) \/ AtKind(c, {"upload"}) \/ AtKind(c, {"register"})
    BY DEF Create
  <2> QED  BY <2>1, ItemOnly
<1>1. /\ ItemStage(k, m) /\ k.item \in 1 .. Count + 1
      /\ k.step \in 1 .. Len(Plan.item) /\ Plan.item # <<>>
      /\ Count \in Nat \ {0} /\ request.images \in [1 .. Count -> Images]
      /\ m \in Seq(Medium) /\ k.held \in Seq(Nat) /\ TypeOK
  BY <1>0, InPost, Running, Posting
<1>9. k.item \in Nat /\ k.item >= 1 /\ Count \in Nat /\ k.item <= Count /\ ~(k.item > Count)
  BY <1>0, <1>1
<1>2. image \in Images /\ <<image>> \in Seq(Images) /\ <<>> \in Seq(Images)
  BY <1>0, <1>1
<1>3. held \in Seq(Nat) /\ held = Append(k.held, Len(m) + 1) /\ k.item - 1 \in Nat
  BY <1>1 DEF NewId
<1>4. /\ ShowsFirst(k.held, m, k.item - 1)
      /\ Plan.item[k.step] \in {"create", "register", "upload"} => Holds(k.held, m, k.item - 1)
  BY <1>1 DEF ItemStage
<1>5. ASSUME NEW x \in Medium, Holds(k.held, m, k.item - 1)
      PROVE  /\ Holds(held, Append(m, x), k.item) /\ ShowsFirst(held, Append(m, x), k.item - 1)
             /\ Append(m, x)[held[k.item]] = x
  <2> DEFINE n == k.item - 1
  <2>1. n \in Nat /\ n + 1 = k.item
    BY <1>1
  <2>2. Holds(k.held, m, n) /\ ShowsFirst(k.held, m, n)
    BY <1>4, <1>5
  <2> HIDE DEF n
  <2> DEFINE h == k.held
  <2>4. h \in Seq(Nat) /\ Holds(h, m, n) /\ ShowsFirst(h, m, n) /\ held = Append(h, Len(m) + 1)
    BY <1>1, <1>3, <2>2
  <2> HIDE DEF h, held
  <2>6. m \in Seq(Medium) /\ x \in Medium
    BY <1>1, <1>5
  <2> HIDE DEF m
  <2>7. Holds(Append(h, Len(m) + 1), Append(m, x), n + 1)
    BY <2>1, <2>4, <2>6, HeldMore
  <2>8. ShowsFirst(Append(h, Len(m) + 1), Append(m, x), n)
    BY <2>1, <2>4, <2>6, HeldMore
  <2>9. Append(m, x)[Append(h, Len(m) + 1)[n + 1]] = x
    BY <2>1, <2>4, <2>6, HeldMore
  <2>5. /\ Holds(Append(h, Len(m) + 1), Append(m, x), n + 1)
        /\ Append(m, x)[Append(h, Len(m) + 1)[n + 1]] = x
        /\ ShowsFirst(Append(h, Len(m) + 1), Append(m, x), n)
    BY <2>7, <2>8, <2>9
  <2>3. /\ Holds(held, Append(m, x), n + 1) /\ Append(m, x)[held[n + 1]] = x
        /\ ShowsFirst(held, Append(m, x), n)
    BY <2>4, <2>5
  <2> QED  BY <2>1, <2>3 DEF n
<1> HIDE DEF held, image
<1>6. CASE AtKind(c, {"create"}) /\ Make(c, <<image>>, "processing", held)
  <2> DEFINE x == [shows |-> <<image>>, state |-> "processing"]
  <2>1. Plan.item[k.step] = "create"
    BY <1>0, <1>6 DEF AtKind
  <2>2. Plan.item = <<"create", "wait">> /\ k.step = 1
    BY <1>0, <1>1, <2>1, ItemKinds
  <2>3. k.step # Len(Part(c)) /\ k.step + 1 \in 1 .. Len(Plan.item) /\ Plan.item[2] = "wait"
        /\ Plan.item # <<"fetch", "upload">>
    BY <1>0, <2>2
  <2>4. x \in Medium /\ x.shows = <<image>>
    BY <1>2 DEF Medium
  <2> HIDE DEF x
  <2>5. ASSUME NEW k2 \in Call, k2.held = held, k2.item = k.item, k2.step = k.step + 1
        PROVE  PostStage(k2, Append(m, x))
    <3>0. k2.step = 2
      BY <2>2, <2>5
    <3>1. /\ Holds(held, Append(m, x), k.item) /\ ShowsFirst(held, Append(m, x), k.item - 1)
          /\ Append(m, x)[held[k.item]].shows = <<image>>
      BY <1>4, <1>5, <2>1, <2>4
    <3>2. ItemStage(k2, Append(m, x))
      BY <2>2, <2>3, <2>5, <3>0, <3>1 DEF ItemStage, image
    <3> QED  BY <1>0, <1>1, <2>5, <3>2 DEF PostStage
  <2>6. NextStage(c, held, Append(m, x))
    BY <2>3, <2>5 DEF NextStage
  <2> QED  BY <1>0, <1>2, <1>3, <1>6, <2>3, <2>6, MakeMoves DEF x
<1>7. CASE AtKind(c, {"register"}) /\ Make(c, <<>>, "empty", held)
  <2> DEFINE x == [shows |-> <<>>, state |-> "empty"]
  <2>1. Plan.item[k.step] = "register"
    BY <1>0, <1>7 DEF AtKind
  <2>2. Plan.item = <<"register", "fetch", "put">> /\ k.step = 1
    BY <1>0, <1>1, <2>1, ItemKinds
  <2>3. k.step # Len(Part(c)) /\ k.step + 1 \in 1 .. Len(Plan.item) /\ Plan.item[2] = "fetch"
        /\ Plan.item # <<"fetch", "upload">>
    BY <1>0, <2>2
  <2>4. x \in Medium /\ x.shows = <<>>
    BY <1>2 DEF Medium
  <2> HIDE DEF x
  <2>5. ASSUME NEW k2 \in Call, k2.held = held, k2.item = k.item, k2.step = k.step + 1
        PROVE  PostStage(k2, Append(m, x))
    <3>0. k2.step = 2
      BY <2>2, <2>5
    <3>1. Holds(held, Append(m, x), k.item) /\ ShowsFirst(held, Append(m, x), k.item - 1)
      BY <1>4, <1>5, <2>1, <2>4
    <3>2. ItemStage(k2, Append(m, x))
      BY <2>2, <2>3, <2>5, <3>0, <3>1 DEF ItemStage
    <3> QED  BY <1>0, <1>1, <2>5, <3>2 DEF PostStage
  <2>6. NextStage(c, held, Append(m, x))
    BY <2>3, <2>5 DEF NextStage
  <2> QED  BY <1>0, <1>2, <1>3, <1>7, <2>3, <2>6, MakeMoves DEF x
<1>8. CASE AtKind(c, {"upload"}) /\ Make(c, <<image>>, "ready", held)
  <2> DEFINE x == [shows |-> <<image>>, state |-> "ready"]
  <2>1. Plan.item[k.step] = "upload"
    BY <1>0, <1>8 DEF AtKind
  <2>2. \/ Plan.item = <<"fetch", "upload">> /\ k.step = 2
        \/ Plan.item = <<"upload">> /\ k.step = 1
    BY <1>0, <1>1, <2>1, ItemKinds
  <2>3. k.step = Len(Part(c))
    <3>1. CASE Plan.item = <<"fetch", "upload">> /\ k.step = 2
      BY <1>0, <3>1
    <3>2. CASE Plan.item = <<"upload">> /\ k.step = 1
      BY <1>0, <3>2
    <3> QED  BY <2>2, <3>1, <3>2
  <2>4. x \in Medium /\ x.shows = <<image>>
    BY <1>2 DEF Medium
  <2> HIDE DEF x
  <2>5. ASSUME NEW k2 \in Call, k2.held = held, k2.item = k.item + 1, k2.step = 1
        PROVE  PostStage(k2, Append(m, x))
    <3>1. /\ Holds(held, Append(m, x), k.item) /\ ShowsFirst(held, Append(m, x), k.item - 1)
          /\ Append(m, x)[held[k.item]] = x
      BY <1>4, <1>5, <2>1, <2>4
    <3>2. ShowsFirst(held, Append(m, x), k.item)
      <4> SUFFICES ASSUME NEW i \in 1 .. k.item
                   PROVE  Append(m, x)[held[i]] = [shows |-> <<request.images[i]>>, state |-> "ready"]
        BY DEF ShowsFirst
      <4>1. CASE i = k.item
        BY <3>1, <4>1 DEF x, image
      <4>2. CASE i # k.item
        <5>1. i \in 1 .. (k.item - 1)
          BY <1>1, <4>2
        <5> QED  BY <3>1, <5>1 DEF ShowsFirst
      <4> QED  BY <4>1, <4>2
    <3>3. k2.item - 1 = k.item /\ k2.item \in 2 .. Count + 1
      BY <1>9, <2>5
    <3>4. Holds(k2.held, Append(m, x), k2.item - 1) /\ ShowsFirst(k2.held, Append(m, x), k2.item - 1)
      BY <2>5, <3>1, <3>2, <3>3
    <3> QED  BY <1>0, <1>1, <2>5, <3>3, <3>4, ItemDone
  <2>6. NextStage(c, held, Append(m, x))
    BY <2>3, <2>5 DEF NextStage
  <2> QED  BY <1>0, <1>2, <1>3, <1>8, <1>9, <2>6, MakeMoves DEF x
<1> QED  BY <1>6, <1>7, <1>8 DEF Create, image, held

LEMMA PutMoves ==
    ASSUME IInv, NEW c \in Callers, Put(c)
    PROVE  Moved(c)
<1> DEFINE k == call[c]
           k2 == call'[c]
           m == media[c]
           last == LastOf(k.held)
           y == [shows |-> <<request.images[k.item]>>, state |-> "ready"]
           m2 == [m EXCEPT ![last] = y]
<1>0. /\ request.purpose = "post" /\ k.at = "running"
      /\ k.item <= Count /\ Part(c) = Plan.item
      /\ PostPlan(Plan.item, Plan.close)
  BY ItemOnly DEF Put
<1>1. /\ ItemStage(k, m) /\ k.item \in 1 .. Count + 1
      /\ k.step \in 1 .. Len(Plan.item) /\ Plan.item # <<>>
      /\ Count \in Nat \ {0} /\ request.images \in [1 .. Count -> Images]
      /\ m \in Seq(Medium) /\ k.held \in Seq(Nat) /\ TypeOK /\ posts[c] = <<>>
  BY <1>0, InPost, Running, Posting
<1>2. k.item \in Nat /\ k.item >= 1 /\ Count \in Nat /\ k.item <= Count /\ ~(k.item > Count)
  BY <1>0, <1>1
<1>3. Plan.item[k.step] = "put"
  BY <1>0 DEF Put, AtKind
<1>4. Plan.item = <<"register", "fetch", "put">> /\ k.step = 3
  BY <1>0, <1>1, <1>3, ItemKinds
<1>5. k.step = Len(Part(c)) /\ Plan.item # <<"fetch", "upload">>
  BY <1>0, <1>4
<1>6. Holds(k.held, m, k.item) /\ ShowsFirst(k.held, m, k.item - 1)
  BY <1>1, <1>3, <1>5 DEF ItemStage
<1>7. last = k.held[k.item] /\ last \in 1 .. Len(m)
  BY <1>1, <1>2, <1>6, LastHeld DEF last
<1>8. y \in Medium
  <2>1. <<request.images[k.item]>> \in Seq(Images)
    BY <1>1, <1>2
  <2> QED  BY <2>1 DEF Medium
<1> HIDE DEF y, last
<1>9. /\ m2 \in Seq(Medium) /\ Len(m2) = Len(m) /\ m2[last] = y
      /\ \A i \in 1 .. Len(m) : i # last => m2[i] = m[i]
  <2>1. m2 = [m EXCEPT ![last] = y] /\ DOMAIN m = 1 .. Len(m)
    BY <1>1
  <2> HIDE DEF m2, m
  <2> QED  BY <1>1, <1>7, <1>8, <2>1
<1>10. media' = [media EXCEPT ![c] = m2] /\ UNCHANGED <<request, posts, spent>>
  BY DEF Put, y, last
<1> HIDE DEF m2
<1>11. /\ media'[c] = m2 /\ media' = [media EXCEPT ![c] = media'[c]] /\ request' = request
       /\ spent' \in BOOLEAN /\ posts' = posts
       /\ posts' = [posts EXCEPT ![c] = posts'[c]] /\ posts'[c] = <<>>
       /\ posts'[c] \in Seq(Seq(Images))
  BY <1>1, <1>10 DEF TypeOK
<1>12. CASE Throw(c)
  BY <1>9, <1>11, <1>12, Threw
<1>13. CASE Advance(c, k)
  <2>1. /\ call' = [call EXCEPT ![c] = k2] /\ k2 \in Call /\ k2.held = k.held
        /\ k2.item = k.item + 1 /\ k2.step = 1 /\ k2.at = "running"
    BY <1>0, <1>2, <1>5, <1>13, SameAdvanced
  <2>2. Holds(k.held, m2, k.item)
    BY <1>6, <1>9 DEF Holds
  <2>3. ShowsFirst(k.held, m2, k.item)
    <3> SUFFICES ASSUME NEW i \in 1 .. k.item
                 PROVE  m2[k.held[i]] = [shows |-> <<request.images[i]>>, state |-> "ready"]
      BY DEF ShowsFirst
    <3>1. CASE i = k.item
      BY <1>7, <1>9, <3>1 DEF y
    <3>2. CASE i # k.item
      <4>1. i \in 1 .. (k.item - 1) /\ i < k.item /\ k.item \in 1 .. k.item
        BY <1>2, <3>2
      <4>2. k.held[i] \in 1 .. Len(m) /\ k.held[i] < k.held[k.item]
        BY <1>6, <4>1 DEF Holds
      <4>3. k.held[i] # last
        BY <1>7, <4>2
      <4> QED  BY <1>6, <1>9, <4>1, <4>2, <4>3 DEF ShowsFirst
    <3> QED  BY <3>1, <3>2
  <2>4. k2.item - 1 = k.item /\ k2.item \in 2 .. Count + 1
    BY <1>2, <2>1
  <2>5. Holds(k2.held, m2, k2.item - 1) /\ ShowsFirst(k2.held, m2, k2.item - 1)
    BY <2>1, <2>2, <2>3, <2>4
  <2>6. PostStage(k2, m2)
    BY <1>0, <1>1, <2>1, <2>4, <2>5, ItemDone
  <2> QED  BY <1>0, <1>1, <1>9, <1>11, <2>1, <2>6, WentOn
<1> QED  BY <1>12, <1>13 DEF Put

\* A step that leaves the media and what is visible alone.
LEMMA OnlyCall ==
    ASSUME IInv, NEW c \in Callers, call[c].at = "running", UNCHANGED <<request, media, posts, spent>>
    PROVE  /\ request' = request /\ spent' \in BOOLEAN /\ posts' = posts /\ posts[c] = <<>>
           /\ media' = [media EXCEPT ![c] = media'[c]] /\ media'[c] \in Seq(Medium)
           /\ media'[c] = media[c]
           /\ posts' = [posts EXCEPT ![c] = posts'[c]] /\ posts'[c] = <<>>
           /\ posts'[c] \in Seq(Seq(Images))
  BY Running DEF IInv, TypeOK

LEMMA Polled ==
    ASSUME NEW k \in Call, NEW n \in Nat
    PROVE  LET k2 == [k EXCEPT !.polls = n] IN
               /\ k2 \in Call /\ k2.held = k.held /\ k2.item = k.item /\ k2.step = k.step
               /\ k2.at = k.at
  BY DEF Call

\* A wait is over when the medium held last is ready; it throws, or goes on.
LEMMA PollMoves ==
    ASSUME IInv, NEW c \in Callers, Poll(c)
    PROVE  Moved(c)
<1> DEFINE k == call[c]
           k2 == call'[c]
           m == media[c]
           last == LastOf(k.held)
<1>0. k.at = "running" /\ Part(c)[k.step] = "wait" /\ UNCHANGED <<request, media, posts, spent>>
  BY DEF Poll, AtKind
<1>1. request.purpose = "post"
  <2> SUFFICES ASSUME request.purpose # "post"
               PROVE  FALSE
    OBVIOUS
  <2> QED  BY <1>0, InTokens, TokenSteps
<1>2. /\ k.item \in 1 .. Count + 1 /\ PostPlan(Plan.item, Plan.close) /\ TypeOK
      /\ Count \in Nat \ {0} /\ request.images \in [1 .. Count -> Images]
      /\ m \in Seq(Medium) /\ k.held \in Seq(Nat) /\ k \in Call /\ PostStage(k, m)
      /\ k.item \in Nat /\ Count \in Nat
  BY <1>0, <1>1, InPost, Running, Posting
<1>3. CASE Throw(c)
  BY <1>0, <1>1, <1>3, OnlyCall, Threw
<1>4. CASE m[last].state = "ready" /\ Advance(c, k)
  <2>1. CASE k.item <= Count
    <3>1. /\ ItemStage(k, m) /\ Part(c) = Plan.item /\ Plan.item # <<>>
          /\ k.step \in 1 .. Len(Plan.item)
      BY <1>0, <1>1, <2>1, InPost
    <3>2. Plan.item = <<"create", "wait">> /\ k.step = 2
      BY <1>0, <1>2, <3>1, ItemKinds
    <3>3. k.step = Len(Part(c)) /\ Plan.item # <<"fetch", "upload">>
      BY <3>1, <3>2
    <3>4. /\ Holds(k.held, m, k.item) /\ ShowsFirst(k.held, m, k.item - 1)
          /\ m[k.held[k.item]].shows = <<request.images[k.item]>>
      BY <1>0, <3>1, <3>3 DEF ItemStage
    <3>5. last = k.held[k.item] /\ last \in 1 .. Len(m)
      <4>1. k.item >= 1
        BY <1>2
      <4> QED  BY <1>2, <3>4, <4>1, LastHeld DEF last
    <3>6. m[last] \in Medium
      <4>1. m \in Seq(Medium) /\ last \in 1 .. Len(m)
        BY <1>2, <3>5
      <4> HIDE DEF m, last
      <4> QED  BY <4>1
    <3>7. m[last] = [shows |-> <<request.images[k.item]>>, state |-> "ready"]
      BY <1>4, <3>4, <3>5, <3>6 DEF Medium
    <3>8. ShowsFirst(k.held, m, k.item)
      <4> SUFFICES ASSUME NEW i \in 1 .. k.item
                   PROVE  m[k.held[i]] = [shows |-> <<request.images[i]>>, state |-> "ready"]
        BY DEF ShowsFirst
      <4>1. CASE i = k.item
        BY <3>5, <3>7, <4>1
      <4>2. CASE i # k.item
        <5>1. i \in 1 .. (k.item - 1)
          BY <1>2, <4>2
        <5> QED  BY <3>4, <5>1 DEF ShowsFirst
      <4> QED  BY <4>1, <4>2
    <3>9. /\ call' = [call EXCEPT ![c] = k2] /\ k2 \in Call /\ k2.held = k.held
          /\ k2.item = k.item + 1 /\ k2.step = 1 /\ k2.at = "running"
      BY <1>0, <1>2, <1>4, <2>1, <3>3, SameAdvanced
    <3>10. k2.item - 1 = k.item /\ k2.item \in 2 .. Count + 1
      BY <1>2, <2>1, <3>9
    <3>11. Holds(k2.held, m, k2.item - 1) /\ ShowsFirst(k2.held, m, k2.item - 1)
      BY <3>4, <3>8, <3>9, <3>10
    <3>12. PostStage(k2, m)
      BY <1>1, <1>2, <3>1, <3>9, <3>10, <3>11, ItemDone
    <3> QED  BY <1>0, <1>1, <3>9, <3>12, OnlyCall, WentOn
  <2>2. CASE ~(k.item <= Count)
    <3>1. CloseStage(k, m) /\ Part(c) = Plan.close /\ k.step \in 1 .. Len(Plan.close)
      BY <1>0, <1>1, <2>2, InPost
    <3>2. Plan.close = <<"album", "wait", "post">> /\ k.step = 2
      <4>1. PostPlan(Plan.item, Plan.close) /\ Plan.close[k.step] = "wait"
        BY <1>0, <1>2, <3>1
      <4> HIDE DEF k, m
      <4> QED  BY <3>1, <4>1, CloseKinds
    <3>3. k.step # Len(Part(c)) /\ k.step + 1 \in 1 .. Len(Plan.close)
      BY <3>1, <3>2
    <3>4. Holds(k.held, m, 1) /\ m[k.held[1]].shows = request.images
      BY <3>1, <3>2 DEF CloseStage
    <3>5. last = k.held[1]
      BY <3>4 DEF Holds, LastOf
    <3>6. /\ call' = [call EXCEPT ![c] = k2] /\ k2 \in Call /\ k2.held = k.held
          /\ k2.item = k.item /\ k2.step = k.step + 1 /\ k2.at = "running"
      BY <1>0, <1>4, <3>3, SameAdvanced
    <3>9. k2.step = 3
      BY <3>2, <3>6
    <3>7. CloseStage(k2, m)
      BY <1>4, <3>2, <3>3, <3>4, <3>5, <3>6, <3>9 DEF CloseStage
    <3>8. PostStage(k2, m)
      BY <1>1, <1>2, <2>2, <3>6, <3>7, InPost, <1>0 DEF PostStage
    <3> QED  BY <1>0, <1>1, <3>6, <3>8, OnlyCall, WentOn
  <2> QED  BY <2>1, <2>2
<1>5. CASE call' = [call EXCEPT ![c].polls = @ + 1]
  <2>1. k2 = [k EXCEPT !.polls = @ + 1]
    BY <1>5, Running
  <2>2. /\ k2 \in Call /\ k2.held = k.held /\ k2.item = k.item /\ k2.step = k.step
        /\ k2.at = "running"
    <3>1. k.polls \in Nat
      BY <1>2 DEF Call
    <3>2. k.polls + 1 \in Nat
      BY <3>1
    <3> QED  BY <1>0, <1>2, <2>1, <3>2, Polled
  <2>3. call' = [call EXCEPT ![c] = k2]
    BY <1>5, <2>1
  <2>4. Kept(m, m)
    BY <1>2 DEF Kept
  <2>5. PostStage(k2, m)
    BY <1>1, <1>2, <2>2, <2>4, StageKept
  <2> QED  BY <1>0, <1>1, <2>2, <2>3, <2>5, OnlyCall, WentOn
<1> QED  BY <1>3, <1>4, <1>5 DEF Poll

\* All images held, in order, show what was asked for.
LEMMA ShownAll ==
    ASSUME NEW c \in Callers, TypeOK, request.purpose = "post",
           Holds(call[c].held, media[c], Count), ShowsFirst(call[c].held, media[c], Count)
    PROVE  Shown(c) = request.images /\ HeldReady(c)
<1> DEFINE held == call[c].held
           m == media[c]
<1>1. /\ Count \in Nat \ {0} /\ request.images \in [1 .. Count -> Images]
      /\ request.images \in Seq(Images)
  BY Posting
<1>2. held \in Seq(Nat) /\ Len(held) = Count /\ DOMAIN held = 1 .. Count
  BY DEF TypeOK, Call, Holds
<1>3. \A i \in 1 .. Count : m[held[i]] = [shows |-> <<request.images[i]>>, state |-> "ready"]
  BY DEF ShowsFirst
<1>4. \A i \in 1 .. Count : m[held[i]].shows = <<request.images[i]>> /\ m[held[i]].state = "ready"
  <2> SUFFICES ASSUME NEW i \in 1 .. Count
               PROVE  m[held[i]].shows = <<request.images[i]>> /\ m[held[i]].state = "ready"
    OBVIOUS
  <2>1. m[held[i]] = [shows |-> <<request.images[i]>>, state |-> "ready"]
    BY <1>3
  <2> QED  BY <2>1
<1>5. HeldReady(c)
  BY <1>2, <1>4 DEF HeldReady
<1>6. CASE Count = 1
  <2>1. m[held[1]].shows = <<request.images[1]>>
    BY <1>4, <1>6
  <2>2. <<request.images[1]>> = request.images
    BY <1>1, <1>6
  <2> QED  BY <1>2, <1>5, <1>6, <2>1, <2>2 DEF Shown
<1>7. CASE Count # 1
  <2>1. Shown(c) = [i \in 1 .. Count |-> m[held[i]].shows[1]]
    BY <1>2, <1>7 DEF Shown
  <2>2. \A i \in 1 .. Count : m[held[i]].shows[1] = request.images[i]
    BY <1>4
  <2> QED  BY <1>1, <1>5, <2>1, <2>2
<1> QED  BY <1>6, <1>7

\* The kinds of call that only the close of a plan to post has.
LEMMA CloseOnly ==
    ASSUME IInv, NEW c \in Callers,
           AtKind(c, {"album"}) \/ AtKind(c, {"post", "photo"}) \/ AtKind(c, {"album", "post"})
    PROVE  /\ request.purpose = "post" /\ call[c].at = "running"
           /\ call[c].item > Count /\ Part(c) = Plan.close
           /\ PostPlan(Plan.item, Plan.close) /\ TypeOK
           /\ CloseStage(call[c], media[c]) /\ call[c].step \in 1 .. Len(Plan.close)
<1>0. call[c].at = "running" /\ Part(c)[call[c].step] \in {"album", "post", "photo"}
  BY DEF AtKind
<1>1. request.purpose = "post"
  <2> SUFFICES ASSUME request.purpose # "post"
               PROVE  FALSE
    OBVIOUS
  <2> QED  BY <1>0, InTokens, TokenSteps
<1>2. PostPlan(Plan.item, Plan.close) /\ TypeOK /\ Count \in Nat /\ call[c].item \in Nat
  BY <1>1, Running, Posting
<1>3. ~(call[c].item <= Count)
  BY <1>0, <1>1, <1>2, InPost, ItemKinds
<1> QED  BY <1>0, <1>1, <1>2, <1>3, InPost

LEMMA AlbumMoves ==
    ASSUME IInv, NEW c \in Callers, Album(c)
    PROVE  Moved(c)
<1> DEFINE k == call[c]
           m == media[c]
           x == [shows |-> Shown(c), state |-> "processing"]
           held == <<NewId(c)>>
<1>0. /\ request.purpose = "post" /\ k.at = "running" /\ k.item > Count /\ Part(c) = Plan.close
      /\ PostPlan(Plan.item, Plan.close) /\ TypeOK
      /\ CloseStage(k, m) /\ k.step \in 1 .. Len(Plan.close)
      /\ Plan.close[k.step] = "album" /\ Make(c, Shown(c), "processing", held)
  BY CloseOnly DEF Album, AtKind
<1>1. Plan.close = <<"album", "wait", "post">> /\ k.step = 1
  BY <1>0, CloseKinds
<1>2. /\ Holds(k.held, m, Count) /\ ShowsFirst(k.held, m, Count)
      /\ k.step # Len(Part(c)) /\ 2 \in 1 .. Len(Plan.close) /\ Plan.close[2] = "wait"
  BY <1>0, <1>1 DEF CloseStage
<1>3. Shown(c) = request.images
  BY <1>0, <1>2, ShownAll
<1>4. /\ m \in Seq(Medium) /\ request.images \in Seq(Images) /\ Count \in Nat \ {0}
      /\ k.item \in 1 .. Count + 1
  BY <1>0, Running, Posting, InPost
<1>5. x \in Medium /\ x.shows = request.images
  BY <1>3, <1>4 DEF Medium
<1> HIDE DEF x
<1>6. NewId(c) \in Nat /\ NewId(c) = Len(m) + 1 /\ held \in Seq(Nat)
  BY <1>4 DEF NewId
<1>7. /\ Len(held) = 1 /\ held[1] = Len(m) + 1
      /\ Len(Append(m, x)) = Len(m) + 1 /\ Append(m, x)[Len(m) + 1] = x
      /\ Len(m) \in Nat
  BY <1>4, <1>5, <1>6
<1> HIDE DEF held
<1>8. Holds(held, Append(m, x), 1) /\ Append(m, x)[held[1]].shows = request.images
  BY <1>5, <1>7 DEF Holds
<1>9. ASSUME NEW k2 \in Call, k2.held = held, k2.item = k.item, k2.step = k.step + 1
      PROVE  PostStage(k2, Append(m, x))
  <2>1. k2.step = 2
    BY <1>1, <1>9
  <2>4. k2.step \in 1 .. Len(Plan.close) /\ Plan.close[k2.step] = "wait" /\ k2.step # 1
    BY <1>2, <2>1
  <2>5. Holds(k2.held, Append(m, x), 1) /\ Append(m, x)[k2.held[1]].shows = request.images
    BY <1>8, <1>9
  <2>2. CloseStage(k2, Append(m, x))
    BY <2>4, <2>5 DEF CloseStage
  <2>3. ~(k2.item <= Count) /\ k2.item = Count + 1
    BY <1>0, <1>4, <1>9
  <2> QED  BY <1>4, <1>9, <2>2, <2>3 DEF PostStage
<1>10. NextStage(c, held, Append(m, x))
  BY <1>2, <1>9 DEF NextStage
<1>11. Make(c, request.images, "processing", held)
       /\ x = [shows |-> request.images, state |-> "processing"]
  BY <1>0, <1>3 DEF held, x
<1> QED  BY <1>0, <1>2, <1>4, <1>6, <1>10, <1>11, MakeMoves

\* What becomes visible is what was asked for.
LEMMA PostShows ==
    ASSUME IInv, NEW c \in Callers, AtKind(c, {"post", "photo"})
    PROVE  /\ Visible(c) = request.images /\ request.images \in Seq(Images)
           /\ call[c].step = Len(Part(c)) /\ call[c].item > Count
           /\ request.purpose = "post" /\ call[c].at = "running"
<1> DEFINE k == call[c]
           m == media[c]
<1>0. /\ request.purpose = "post" /\ k.at = "running" /\ k.item > Count /\ Part(c) = Plan.close
      /\ PostPlan(Plan.item, Plan.close) /\ TypeOK
      /\ CloseStage(k, m) /\ k.step \in 1 .. Len(Plan.close)
      /\ Plan.close[k.step] \in {"post", "photo"}
  BY CloseOnly DEF AtKind
<1>1. request.images \in Seq(Images)
  BY <1>0, Posting
<1>2. CASE Plan.close = <<"photo">> /\ k.step = 1
  <2>1. k.step = Len(Plan.close) /\ Plan.close[k.step] = "photo"
    BY <1>2
  <2> QED  BY <1>0, <1>1, <2>1 DEF Visible, AtKind
<1>3. CASE Plan.close = <<"post">> /\ k.step = 1
  <2>1. k.step = Len(Plan.close) /\ Plan.close[k.step] = "post"
    BY <1>3
  <2>2. Shown(c) = request.images
    BY <1>0, <1>3, <2>1, ShownAll DEF CloseStage
  <2> QED  BY <1>0, <1>1, <2>1, <2>2 DEF Visible, AtKind
<1>4. CASE Plan.close = <<"album", "wait", "post">> /\ k.step = 3
  <2>1. k.step = Len(Plan.close) /\ Plan.close[k.step] = "post"
    BY <1>4
  <2>2. Len(k.held) = 1 /\ m[k.held[1]].shows = request.images
    BY <1>0, <1>4 DEF CloseStage, Holds
  <2>3. Shown(c) = request.images
    BY <2>2 DEF Shown
  <2> QED  BY <1>0, <1>1, <2>1, <2>3 DEF Visible, AtKind
<1> QED  BY <1>0, <1>2, <1>3, <1>4, CloseKinds

LEMMA PostMoves ==
    ASSUME IInv, NEW c \in Callers, Post(c)
    PROVE  /\ Moved(c) /\ posts'[c] = <<request.images>> /\ request.purpose = "post"
           /\ call[c].at = "running" /\ call'[c].at \in {"returned", "threw"}
<1>1. /\ Visible(c) = request.images /\ request.images \in Seq(Images)
      /\ call[c].step = Len(Part(c)) /\ call[c].item > Count
      /\ request.purpose = "post" /\ call[c].at = "running"
  BY PostShows DEF Post
<1>2. posts[c] = <<>> /\ posts \in [Callers -> Seq(Seq(Images))]
  BY <1>1, Running DEF IInv, TypeOK
<1>3. posts' = [posts EXCEPT ![c] = Append(@, request.images)]
  BY <1>1 DEF Post
<1>4. posts'[c] = <<request.images>>
  BY <1>2, <1>3
<1>5. <<request.images>> \in Seq(Seq(Images))
  BY <1>1
<1>6. posts' = [posts EXCEPT ![c] = posts'[c]] /\ posts'[c] \in Seq(Seq(Images))
  BY <1>2, <1>3, <1>4, <1>5
<1>7. /\ request' = request /\ spent' \in BOOLEAN /\ media' = [media EXCEPT ![c] = media'[c]]
      /\ media'[c] \in Seq(Medium)
  BY DEF Post, IInv, TypeOK
<1>8. CASE Throw(c)
  <2>1. Moved(c)
    BY <1>1, <1>4, <1>6, <1>7, <1>8, Threw
  <2>2. call'[c].at = "threw"
    BY <1>8, Running DEF Throw, Call
  <2> QED  BY <1>1, <1>4, <2>1, <2>2
<1>9. CASE Advance(c, call[c])
  <2>1. /\ call' = [call EXCEPT ![c] = call'[c]] /\ call'[c] \in Call /\ call'[c].at = "returned"
    BY <1>1, <1>9, SameAdvanced
  <2>2. CallOK(call'[c], media'[c], posts'[c])
    BY <1>1, <1>4, <2>1 DEF CallOK
  <2> QED  BY <1>1, <1>4, <1>6, <1>7, <2>1, <2>2 DEF Moved
<1> QED  BY <1>8, <1>9 DEF Post

\* The tokens of a call that has its plan behind it.
LEMMA TokensMoved ==
    ASSUME IInv, NEW c \in Callers, NEW g \in Call, Advance(c, g),
           request.purpose # "post", call[c].at = "running",
           g.item = call[c].item, g.step = call[c].step, g.at = "running",
           UNCHANGED <<request, media, posts>>, spent' \in BOOLEAN,
           call[c].step # Len(Plan.close) =>
              (Plan.close[call[c].step + 1] = "extend" => g.token = "short")
              /\ (Plan.close[call[c].step + 1] = "profile" => g.token = Aim),
           call[c].step = Len(Plan.close) =>
              g.token = Aim /\ (request.purpose = "connect" => g.named)
    PROVE  Moved(c)
<1> DEFINE k == call[c]
           k2 == call'[c]
<1>0. /\ TokenStage(k) /\ posts[c] = <<>> /\ Part(c) = Plan.close /\ k.item = 1 /\ Count = 0
      /\ k.step \in 1 .. Len(Plan.close) /\ TypeOK
  BY InTokens, Running
<1>1. /\ call' = [call EXCEPT ![c] = k2] /\ k2 \in Call
      /\ k2.token = g.token /\ k2.named = g.named
      /\ k.step # Len(Plan.close) =>
            k2.item = 1 /\ k2.step = k.step + 1 /\ k2.at = "running"
      /\ k.step = Len(Plan.close) => k2.at = "returned"
  BY <1>0, Advanced
<1>2. /\ request' = request /\ media' = [media EXCEPT ![c] = media'[c]]
      /\ media'[c] \in Seq(Medium)
      /\ posts' = posts /\ posts' = [posts EXCEPT ![c] = posts'[c]] /\ posts'[c] = <<>>
      /\ posts'[c] \in Seq(Seq(Images))
  BY <1>0 DEF TypeOK
<1>3. CASE k.step # Len(Plan.close)
  <2>1. k2.step \in 1 .. Len(Plan.close) /\ k2.step # 1 /\ k2.step = k.step + 1
    BY <1>0, <1>1, <1>3
  <2>2. TokenStage(k2)
    BY <1>1, <1>3, <2>1 DEF TokenStage
  <2> QED  BY <1>0, <1>1, <1>2, <1>3, <2>2, WentOn
<1>4. CASE k.step = Len(Plan.close)
  <2>1. k2.at = "returned" /\ k2.token = Aim /\ (request.purpose = "connect" => k2.named)
    BY <1>1, <1>4
  <2>2. CallOK(k2, media'[c], posts'[c])
    BY <1>2, <2>1 DEF CallOK
  <2> QED  BY <1>1, <1>2, <2>2 DEF Moved
<1> QED  BY <1>3, <1>4

\* Their kinds of call are those of tokens.
LEMMA TokensOnly ==
    ASSUME IInv, NEW c \in Callers,
           AtKind(c, {"short", "pair"}) \/ AtKind(c, {"extend"}) \/ AtKind(c, {"profile", "page"})
    PROVE  /\ request.purpose # "post" /\ call[c].at = "running"
           /\ TokenStage(call[c]) /\ Part(c) = Plan.close /\ TypeOK
           /\ call[c].step \in 1 .. Len(Plan.close) /\ TokenPlan(Plan.close, Given, Aim)
<1>0. /\ call[c].at = "running"
      /\ Part(c)[call[c].step] \in {"short", "pair", "extend", "profile", "page"}
  BY DEF AtKind
<1>1. request.purpose # "post"
  <2> SUFFICES ASSUME request.purpose = "post"
               PROVE  FALSE
    OBVIOUS
  <2>1. PostPlan(Plan.item, Plan.close)
    BY Running, Posting
  <2>2. CASE call[c].item <= Count
    <3>1. Part(c) = Plan.item /\ call[c].step \in 1 .. Len(Plan.item)
      BY <1>0, <2>2, InPost
    <3> QED  BY <1>0, <2>1, <3>1, ItemKinds
  <2>3. CASE ~(call[c].item <= Count)
    <3>1. Part(c) = Plan.close /\ call[c].step \in 1 .. Len(Plan.close)
      BY <1>0, <2>3, InPost
    <3> QED  BY <1>0, <2>1, <3>1, CloseKinds
  <2> QED  BY <2>2, <2>3
<1> QED  BY <1>0, <1>1, InTokens, Running

LEMMA WithToken ==
    ASSUME NEW k \in Call, NEW token \in Token
    PROVE  LET g == [k EXCEPT !.token = token] IN
               /\ g \in Call /\ g.item = k.item /\ g.step = k.step /\ g.at = k.at
               /\ g.token = token
  BY DEF Call

LEMMA NamedWithToken ==
    ASSUME NEW k \in Call, NEW token \in Token
    PROVE  LET g == [k EXCEPT !.named = TRUE, !.token = token] IN
               /\ g \in Call /\ g.item = k.item /\ g.step = k.step /\ g.at = k.at
               /\ g.token = token /\ g.named = TRUE
  BY DEF Call

\* Where each kind of step leaves a plan for tokens.
LEMMA AfterStep ==
    ASSUME NEW close, NEW given, NEW aim, TokenPlan(close, given, aim), NEW s \in 1 .. Len(close)
    PROVE  /\ close[s] = "short" => s # Len(close) /\ close[s + 1] = "extend"
           /\ close[s] = "pair" =>
                 /\ aim = "access"
                 /\ s # Len(close) => close[s + 1] = "profile"
                 /\ s = Len(close) => request.purpose # "connect"
           /\ close[s] = "extend" =>
                 /\ s # Len(close) =>
                       /\ s # 1
                       /\ close[s + 1] = "profile" => aim = "long"
                       /\ close[s + 1] \in {"profile", "page"}
                 /\ s = Len(close) =>
                       s = 1 /\ aim \in {"long", "page"} /\ request.purpose # "connect"
           /\ close[s] \in {"profile", "page"} => s = Len(close)
           /\ close[s] = "page" => aim = "page"
           /\ close[s] = "profile" => s > 1
<1>1. CASE close = <<"short", "extend", "profile">>
  <2>1. Len(close) = 3 /\ s \in {1, 2, 3}
    BY <1>1
  <2> QED  BY <1>1, <2>1 DEF TokenPlan
<1>2. CASE close = <<"short", "extend", "page">>
  <2>1. Len(close) = 3 /\ s \in {1, 2, 3}
    BY <1>2
  <2> QED  BY <1>2, <2>1 DEF TokenPlan
<1>3. CASE close = <<"pair", "profile">>
  <2>1. Len(close) = 2 /\ s \in {1, 2}
    BY <1>3
  <2> QED  BY <1>3, <2>1 DEF TokenPlan
<1>4. CASE close = <<"extend">>
  <2>1. Len(close) = 1 /\ s = 1
    BY <1>4
  <2> QED  BY <1>4, <2>1 DEF TokenPlan
<1>5. CASE close = <<"pair">>
  <2>1. Len(close) = 1 /\ s = 1
    BY <1>5
  <2> QED  BY <1>5, <2>1 DEF TokenPlan
<1> QED  BY <1>1, <1>2, <1>3, <1>4, <1>5 DEF TokenPlan

LEMMA RedeemMoves ==
    ASSUME IInv, NEW c \in Callers, Redeem(c)
    PROVE  Moved(c)
<1> DEFINE k == call[c]
           token == IF AtKind(c, {"pair"}) THEN "access" ELSE "short"
           g == [k EXCEPT !.token = token]
<1>0. /\ request.purpose # "post" /\ k.at = "running" /\ TypeOK
      /\ TokenStage(k) /\ Part(c) = Plan.close
      /\ k.step \in 1 .. Len(Plan.close) /\ TokenPlan(Plan.close, Given, Aim)
  BY TokensOnly DEF Redeem
<1>1. /\ UNCHANGED <<request, media, posts>> /\ spent' \in BOOLEAN
      /\ posts[c] = <<>> /\ k \in Call
  BY <1>0, Running DEF Redeem
<1>2. CASE Throw(c)
  <2>1. /\ request' = request /\ media' = [media EXCEPT ![c] = media'[c]]
        /\ media'[c] \in Seq(Medium)
        /\ posts' = [posts EXCEPT ![c] = posts'[c]] /\ posts'[c] = <<>>
        /\ posts'[c] \in Seq(Seq(Images))
    BY <1>0, <1>1 DEF TypeOK
  <2> QED  BY <1>0, <1>1, <1>2, <2>1, Threw
<1>3. CASE Advance(c, g)
  <2>1. token \in Token
    BY DEF Token
  <2>2. token = IF Plan.close[k.step] = "pair" THEN "access" ELSE "short"
    BY <1>0 DEF AtKind
  <2>3. Plan.close[k.step] \in {"short", "pair"}
    BY <1>0 DEF Redeem, AtKind
  <2> HIDE DEF token
  <2>4. /\ g \in Call /\ g.item = k.item /\ g.step = k.step /\ g.at = "running"
        /\ g.token = token
    BY <1>0, <1>1, <2>1, WithToken
  <2> HIDE DEF g
  <2>5. /\ k.step # Len(Plan.close) =>
           /\ Plan.close[k.step + 1] = "extend" => token = "short"
           /\ Plan.close[k.step + 1] = "profile" => token = Aim
        /\ k.step = Len(Plan.close) => token = Aim /\ request.purpose # "connect"
    <3>1. CASE Plan.close[k.step] = "short"
      BY <1>0, <2>2, <3>1, AfterStep
    <3>2. CASE Plan.close[k.step] = "pair"
      BY <1>0, <2>2, <3>2, AfterStep
    <3> QED  BY <2>3, <3>1, <3>2
  <2> QED  BY <1>0, <1>1, <1>3, <2>4, <2>5, TokensMoved
<1> QED  BY <1>2, <1>3 DEF Redeem

LEMMA ExtendMoves ==
    ASSUME IInv, NEW c \in Callers, Extend(c)
    PROVE  Moved(c)
<1> DEFINE k == call[c]
           token == IF k.token = "short" THEN "long" ELSE k.token
           g == [k EXCEPT !.token = token]
<1>0. /\ request.purpose # "post" /\ k.at = "running" /\ TypeOK
      /\ TokenStage(k) /\ Part(c) = Plan.close
      /\ k.step \in 1 .. Len(Plan.close) /\ TokenPlan(Plan.close, Given, Aim)
  BY TokensOnly DEF Extend
<1>1. /\ UNCHANGED <<request, media, posts>> /\ spent' \in BOOLEAN /\ k \in Call
  BY <1>0, Running DEF Extend, TypeOK
<1>2. Advance(c, g) /\ Plan.close[k.step] = "extend"
  BY <1>0 DEF Extend, AtKind
<1>3. k.token = IF k.step = 1 THEN Aim ELSE "short"
  BY <1>0, <1>2 DEF TokenStage
<1>4. token \in Token
  BY <1>1 DEF Token, Call
<1>5. token = IF k.token = "short" THEN "long" ELSE k.token
  OBVIOUS
<1> HIDE DEF token
<1>6. /\ g \in Call /\ g.item = k.item /\ g.step = k.step /\ g.at = "running"
      /\ g.token = token
  BY <1>0, <1>1, <1>4, WithToken
<1> HIDE DEF g
<1>7. /\ k.step # Len(Plan.close) =>
         /\ k.step # 1
         /\ Plan.close[k.step + 1] = "profile" => Aim = "long"
         /\ Plan.close[k.step + 1] \in {"profile", "page"}
      /\ k.step = Len(Plan.close) =>
         k.step = 1 /\ Aim \in {"long", "page"} /\ request.purpose # "connect"
  BY <1>0, <1>2, AfterStep
<1>8. /\ k.step # Len(Plan.close) =>
         /\ Plan.close[k.step + 1] = "extend" => token = "short"
         /\ Plan.close[k.step + 1] = "profile" => token = Aim
      /\ k.step = Len(Plan.close) => token = Aim /\ request.purpose # "connect"
  BY <1>3, <1>5, <1>7
<1> QED  BY <1>0, <1>1, <1>2, <1>6, <1>8, TokensMoved

LEMMA IdentifyMoves ==
    ASSUME IInv, NEW c \in Callers, Identify(c)
    PROVE  Moved(c)
<1> DEFINE k == call[c]
           token == IF AtKind(c, {"page"}) THEN "page" ELSE k.token
           g == [k EXCEPT !.named = TRUE, !.token = token]
<1>0. /\ request.purpose # "post" /\ k.at = "running" /\ TypeOK
      /\ TokenStage(k) /\ Part(c) = Plan.close
      /\ k.step \in 1 .. Len(Plan.close) /\ TokenPlan(Plan.close, Given, Aim)
  BY TokensOnly DEF Identify
<1>1. /\ UNCHANGED <<request, media, posts>> /\ spent' \in BOOLEAN /\ k \in Call
  BY <1>0, Running DEF Identify, TypeOK
<1>2. Advance(c, g) /\ Plan.close[k.step] \in {"profile", "page"}
  BY <1>0 DEF Identify, AtKind
<1>3. token \in Token
  BY <1>1 DEF Token, Call
<1>4. token = IF Plan.close[k.step] = "page" THEN "page" ELSE k.token
  BY <1>0 DEF AtKind
<1> HIDE DEF token
<1>5. /\ g \in Call /\ g.item = k.item /\ g.step = k.step /\ g.at = "running"
      /\ g.token = token /\ g.named = TRUE
  BY <1>0, <1>1, <1>3, NamedWithToken
<1> HIDE DEF g
<1>6. k.step = Len(Plan.close) /\ (Plan.close[k.step] = "page" => Aim = "page")
      /\ (Plan.close[k.step] = "profile" => k.step > 1)
  BY <1>0, <1>2, AfterStep
<1>7. token = Aim
  BY <1>0, <1>2, <1>4, <1>6 DEF TokenStage
<1> QED  BY <1>0, <1>1, <1>2, <1>5, <1>6, <1>7, TokensMoved

LEMMA ProcessMoves ==
    ASSUME IInv, NEW c \in Callers, Process(c)
    PROVE  Moved(c) /\ UNCHANGED <<request, call, posts>>
<1> DEFINE k == call[c]
           m == media[c]
<1>0. /\ TypeOK /\ k \in Call /\ m \in Seq(Medium) /\ CallOK(k, m, posts[c])
      /\ posts[c] \in Seq(Seq(Images)) /\ media \in [Callers -> Seq(Medium)]
      /\ call \in [Callers -> Call]
  BY Running DEF TypeOK
<1>1. PICK id \in 1 .. Len(m), state \in {"ready", "broken"} :
        /\ m[id].state = "processing"
        /\ media' = [media EXCEPT ![c][id].state = state]
  <2>1. DOMAIN m = 1 .. Len(m)
    BY <1>0
  <2> QED  BY <2>1 DEF Process
<1> DEFINE y == [m[id] EXCEPT !.state = state]
           m2 == [m EXCEPT ![id] = y]
<1>2. m[id] \in Medium
  BY <1>0
<1>3. y \in Medium /\ y.shows = m[id].shows
  BY <1>2 DEF Medium
<1> HIDE DEF y
<1>4. /\ m2 \in Seq(Medium) /\ Len(m2) = Len(m) /\ m2[id] = y
      /\ \A i \in 1 .. Len(m) : i # id => m2[i] = m[i]
  BY <1>0, <1>3
<1>5. media' = [media EXCEPT ![c] = m2]
  BY <1>1 DEF y
<1> HIDE DEF m2
<1>6. Kept(m, m2)
  BY <1>0, <1>1, <1>3, <1>4 DEF Kept
<1>7. media'[c] = m2 /\ UNCHANGED <<request, call, posts, spent>>
  BY <1>0, <1>5 DEF Process
<1>8. CallOK(k, m2, posts[c])
  <2>1. k.at = "running" /\ request.purpose = "post" => PostStage(k, m2)
    <3> SUFFICES ASSUME k.at = "running", request.purpose = "post"
                 PROVE  PostStage(k, m2)
      OBVIOUS
    <3>1. PostStage(k, m)
      BY <1>0 DEF CallOK
    <3> QED  BY <1>0, <1>4, <1>6, <3>1, StageKept
  <2> QED  BY <1>0, <2>1 DEF CallOK
<1> QED  BY <1>0, <1>4, <1>5, <1>7, <1>8 DEF Moved, TypeOK

-----------------------------------------------------------------------------
(* Every step of every call, and the platform's. *)

LEMMA StepMoves ==
    ASSUME IInv, NEW c \in Callers, Begin(c) \/ Step(c)
    PROVE  Moved(c)
<1>1. CASE Begin(c)
  BY <1>1, BeginMoves
<1>2. CASE Refused(c)
  BY <1>2, RefusedMoves
<1>3. CASE Fetch(c)
  BY <1>3, FetchMoves
<1>4. CASE Create(c)
  BY <1>4, CreateMoves
<1>5. CASE Put(c)
  BY <1>5, PutMoves
<1>6. CASE Poll(c)
  BY <1>6, PollMoves
<1>7. CASE Album(c)
  BY <1>7, AlbumMoves
<1>8. CASE Post(c)
  BY <1>8, PostMoves
<1>9. CASE Redeem(c)
  BY <1>9, RedeemMoves
<1>10. CASE Extend(c)
  BY <1>10, ExtendMoves
<1>11. CASE Identify(c)
  BY <1>11, IdentifyMoves
<1> QED
  BY <1>1, <1>2, <1>3, <1>4, <1>5, <1>6, <1>7, <1>8, <1>9, <1>10, <1>11 DEF Step

LEMMA IInvInit == Init => IInv
<1> SUFFICES ASSUME Init
             PROVE  IInv
  OBVIOUS
<1> DEFINE k == [at |-> "idle", item |-> 1, step |-> 1, polls |-> 0, held |-> <<>>,
                 token |-> "code", named |-> FALSE]
<1>1. k \in Call /\ k.at = "idle" /\ k.step = 1 /\ k.held = <<>>
  BY DEF Call, Token
<1>2. call = [c \in Callers |-> k]
  BY DEF Init
<1> HIDE DEF k
<1>3. TypeOK
  <2>1. <<>> \in Seq(Medium) /\ <<>> \in Seq(Seq(Images))
    OBVIOUS
  <2>2. call \in [Callers -> Call]
    BY <1>1, <1>2
  <2>3. media \in [Callers -> Seq(Medium)] /\ posts \in [Callers -> Seq(Seq(Images))]
    BY <2>1 DEF Init
  <2> QED  BY <2>2, <2>3 DEF Init, TypeOK
<1>4. \A c \in Callers : CallOK(call[c], media[c], posts[c])
  BY <1>1, <1>2 DEF Init, CallOK
<1> QED  BY <1>3, <1>4 DEF IInv

LEMMA IInvNext == IInv /\ [Next]_vars => IInv'
<1> SUFFICES ASSUME IInv, [Next]_vars
             PROVE  IInv'
  OBVIOUS
<1>1. ASSUME NEW c \in Callers, Begin(c) \/ Step(c) \/ Process(c)
      PROVE  IInv'
  <2>1. Moved(c)
    BY <1>1, StepMoves, ProcessMoves
  <2> QED  BY <2>1, MovedKeeps
<1>2. CASE UNCHANGED vars
  <2>1. UNCHANGED <<request, call, media, posts, spent>>
    BY <1>2 DEF vars
  <2>2. TypeOK'
    BY <2>1 DEF IInv, TypeOK
  <2>3. ASSUME NEW d \in Callers
        PROVE  CallOK(call[d], media[d], posts[d])'
    <3>1. CallOK(call[d], media[d], posts[d])
      BY DEF IInv
    <3> QED
      BY <2>1, <3>1 DEF CallOK, PostStage, TokenStage, ItemStage, CloseStage, Holds, ShowsFirst,
         Plan, Count, Aim
  <2> QED  BY <2>2, <2>3 DEF IInv
<1> QED  BY <1>1, <1>2 DEF Next

\* Wherever any call of any adapter is, what it holds is what its plan has
\* made so far, in order, and what its plan needs next.
THEOREM CallsOK == Spec => []IInv
  BY IInvInit, IInvNext, PTL DEF Spec

-----------------------------------------------------------------------------
(* The properties. *)

\* The variables keep their types: no adapter indexes past the images or the
\* media it holds.
THEOREM TypeCorrect == Spec => []TypeOK
<1>1. IInv => TypeOK
  BY DEF IInv
<1> QED  BY <1>1, CallsOK, PTL

\* publish and publishCarousel make visible what was asked for and nothing
\* else, on each platform, for a carousel of any length.
THEOREM PostsWhatWasAsked == Spec => []PostsShowRequest
<1>1. IInv => PostsShowRequest
  <2> SUFFICES ASSUME IInv, NEW c \in Callers, NEW k \in DOMAIN posts[c]
               PROVE  posts[c][k] = request.images
    BY DEF PostsShowRequest
  <2>1. posts[c] \in {<<>>, <<request.images>>}
    BY DEF IInv, CallOK
  <2>2. posts[c] # <<>>
    OBVIOUS
  <2>3. posts[c] = <<request.images>>
    BY <2>1, <2>2
  <2> QED  BY <2>3
<1> QED  BY <1>1, CallsOK, PTL

\* createCarouselContainer and publishContainer are only reached when every
\* waitForContainerReady before them has seen its container finished.
THEOREM NamesReadyMedia == Spec => []OnlyReadyMedia
<1>1. IInv => OnlyReadyMedia
  <2> SUFFICES ASSUME IInv, NEW c \in Callers, AtKind(c, {"album", "post"})
               PROVE  HeldReady(c)
    BY DEF OnlyReadyMedia
  <2> DEFINE k == call[c]
             m == media[c]
  <2>1. /\ request.purpose = "post" /\ TypeOK /\ Part(c) = Plan.close
        /\ PostPlan(Plan.item, Plan.close) /\ CloseStage(k, m)
        /\ k.step \in 1 .. Len(Plan.close) /\ Plan.close[k.step] \in {"album", "post"}
    BY CloseOnly DEF AtKind
  <2>2. CASE k.step = 1
    <3>1. Holds(k.held, m, Count) /\ ShowsFirst(k.held, m, Count)
      BY <2>1, <2>2 DEF CloseStage
    <3> QED  BY <2>1, <3>1, ShownAll
  <2>3. CASE k.step # 1
    <3>1. k.step = 3 /\ Plan.close[k.step] = "post"
      BY <2>1, <2>3, CloseKinds
    <3>2. Holds(k.held, m, 1) /\ m[k.held[1]].state = "ready"
      BY <2>1, <3>1 DEF CloseStage
    <3>3. k.held \in Seq(Nat) /\ Len(k.held) = 1
      BY <3>2, Running DEF Holds
    <3> QED  BY <3>2, <3>3 DEF HeldReady
  <2> QED  BY <2>2, <2>3
<1> QED  BY <1>1, CallsOK, PTL

\* connect and refresh return a token that publish can post with, and connect
\* the account it is for, whatever overlaps and gets lost.
THEOREM ReturnsTokenThatPosts == Spec => []TokenPosts
<1>1. IInv => TokenPosts
  BY DEF IInv, CallOK, TokenPosts, Aim
<1> QED  BY <1>1, CallsOK, PTL

-----------------------------------------------------------------------------
(* The contract. *)

\* Seen from the caller, a step of c is one of the contract's, or none.
LEMMA MovedByContract ==
    ASSUME IInv, NEW c \in Callers, Moved(c), call[c].at \in {"idle", "running"}
    PROVE  [Contract!Next]_(Contract!vars)
<1> DEFINE k == call[c]
           k2 == call'[c]
<1>1. /\ request' = request /\ call' = [call EXCEPT ![c] = k2] /\ k2 \in Call
      /\ posts' = [posts EXCEPT ![c] = posts'[c]]
      /\ CallOK(k2, media'[c], posts'[c]) /\ call \in [Callers -> Call]
      /\ posts \in [Callers -> Seq(Seq(Images))] /\ posts[c] = <<>>
  BY DEF Moved, IInv, TypeOK, CallOK
<1>2. CASE request.purpose # "post"
  <2>1. posts'[c] = <<>>
    BY <1>1, <1>2 DEF CallOK
  <2>2. posts' = posts
    BY <1>1, <2>1
  <2>3. Outcome' = Outcome
    BY <1>1, <1>2 DEF Outcome
  <2> QED  BY <1>1, <2>2, <2>3 DEF Contract!vars
<1>3. CASE request.purpose = "post"
  <2>1. Outcome[c] = "pending"
    BY DEF Outcome
  <2>2. Outcome' = [Outcome EXCEPT ![c] =
                      IF k2.at \in {"idle", "running"} THEN "pending" ELSE k2.at]
    BY <1>1, <1>3 DEF Outcome
  <2>3. k2.at \in {"idle", "running", "returned", "threw"}
    BY <1>1 DEF Call
  <2>4. CASE k2.at \in {"idle", "running"}
    <3>1. posts' = posts
      BY <1>1, <2>4 DEF CallOK
    <3>2. Outcome' = Outcome
      BY <2>1, <2>2, <2>4 DEF Outcome
    <3> QED  BY <1>1, <3>1, <3>2 DEF Contract!vars
  <2>5. CASE k2.at = "returned"
    <3>1. posts'[c] = <<request.images>>
      BY <1>1, <1>3, <2>5 DEF CallOK
    <3>2. Contract!Publish(c)
      BY <1>1, <2>1, <2>2, <2>5, <3>1 DEF Contract!Publish, Contract!End
    <3> QED  BY <3>2 DEF Contract!Next
  <2>6. CASE k2.at = "threw"
    <3>1. posts'[c] \in {<<>>, <<request.images>>}
      BY <1>1 DEF CallOK
    <3>2. Contract!Refuse(c) \/ Contract!Lose(c)
      BY <1>1, <2>1, <2>2, <2>6, <3>1 DEF Contract!Refuse, Contract!Lose, Contract!End
    <3> QED  BY <3>2 DEF Contract!Next
  <2> QED  BY <2>3, <2>4, <2>5, <2>6
<1> QED  BY <1>2, <1>3

\* Every plan keeps the contract of adapter.interface.ts: one post at most, and
\* none before the last request of the plan, on every platform.
THEOREM PlansImplementContract == Spec => ImplementsContract
<1>1. Init => Contract!Init
  <2> SUFFICES ASSUME Init
               PROVE  Contract!Init
    OBVIOUS
  <2>1. request.images \in {r.images : r \in Request}
    BY DEF Init
  <2>2. Outcome = [c \in Callers |-> "pending"]
    BY DEF Init, Outcome
  <2> QED  BY <2>1, <2>2 DEF Init, Contract!Init
<1>2. IInv /\ [Next]_vars => [Contract!Next]_(Contract!vars)
  <2> SUFFICES ASSUME IInv, [Next]_vars
               PROVE  [Contract!Next]_(Contract!vars)
    OBVIOUS
  <2>1. ASSUME NEW c \in Callers, Begin(c) \/ Step(c)
        PROVE  [Contract!Next]_(Contract!vars)
    <3>1. Moved(c)
      BY <2>1, StepMoves
    <3>2. call[c].at \in {"idle", "running"}
      BY <2>1 DEF Begin, Step, Refused, Fetch, Create, Put, Poll, Album, Post, Redeem, Extend,
         Identify, AtKind
    <3> QED  BY <3>1, <3>2, MovedByContract
  <2>2. ASSUME NEW c \in Callers, Process(c)
        PROVE  [Contract!Next]_(Contract!vars)
    BY <2>2, ProcessMoves DEF Contract!vars, Outcome
  <2>3. CASE UNCHANGED vars
    BY <2>3 DEF vars, Contract!vars, Outcome
  <2> QED  BY <2>1, <2>2, <2>3 DEF Next
<1> QED  BY <1>1, <1>2, CallsOK, PTL DEF Spec, ImplementsContract, Contract!Spec

-----------------------------------------------------------------------------
(* What the platforms tell of posts, and what is kept of it: Ingestion, for  *)
(* any number of posts, platforms and overlapping runs.                      *)

Analytics == INSTANCE Ingestion

PlatformNames == {"instagram", "facebook", "threads", "x", "linkedin"}

\* Rows that can be compared, and the order.
Counts == [Fields -> Nat]

LEMMA ToldTyped ==
    ASSUME NEW p \in PlatformNames, NEW n \in [Analytics!Kind -> Nat]
    PROVE  Told(p, n) \in Counts
<1>1. \A k \in Analytics!Kind : n[k] \in Nat
  OBVIOUS
<1>2. /\ n["view"] \in Nat /\ n["like"] \in Nat /\ n["comment"] \in Nat
      /\ n["repost"] \in Nat /\ n["quote"] \in Nat /\ n["click"] \in Nat
  BY <1>1 DEF Analytics!Kind
<1>3. n["repost"] + n["quote"] \in Nat
  BY <1>2
<1> QED  BY <1>2, <1>3 DEF Told, Counts, Fields

LEMMA ToldGrows ==
    ASSUME NEW p \in PlatformNames, NEW n \in [Analytics!Kind -> Nat],
           NEW n2 \in [Analytics!Kind -> Nat], \A k \in Analytics!Kind : n[k] <= n2[k]
    PROVE  AtMost(Told(p, n), Told(p, n2))
<1>1. \A k \in Analytics!Kind : n[k] \in Nat /\ n2[k] \in Nat /\ n[k] <= n2[k]
  OBVIOUS
<1>2. /\ n["view"] <= n2["view"] /\ n["like"] <= n2["like"] /\ n["comment"] <= n2["comment"]
      /\ n["repost"] <= n2["repost"] /\ n["quote"] <= n2["quote"] /\ n["click"] <= n2["click"]
  BY <1>1 DEF Analytics!Kind
<1>3. n["repost"] + n["quote"] <= n2["repost"] + n2["quote"]
  BY <1>1, <1>2 DEF Analytics!Kind
<1> QED  BY <1>1, <1>2, <1>3 DEF Told, AtMost, Fields

\* The answer of platform p about a post with the reactions n.
Answered(p, n, missing) ==
    [name \in (Analytics!Asked[p] \cap DOMAIN Analytics!Means[p]) \ missing
        |-> n[Analytics!Means[p][name]]]

\* The reactions k of an answer: the number by any name that stands for them.
Named(p, raw, k) == {name \in DOMAIN raw : Analytics!Means[p][name] = k}
Heard(p, raw, k) ==
    IF Named(p, raw, k) = {} THEN 0 ELSE raw[CHOOSE name \in Named(p, raw, k) : TRUE]

\* normalizeMetrics gives a row of the schema, of no more than readers did, with the
\* engagement of the answer.
Normalized(p, n, raw) ==
    LET row == Analytics!NormalizeMetrics(p, raw) IN
    /\ row \in Counts /\ AtMost(row, Told(p, n))
    /\ EngagementOf(row) = Heard(p, raw, "like") + Heard(p, raw, "comment")
          + Heard(p, raw, "repost") + Heard(p, raw, "quote") + Heard(p, raw, "click")

\* An answer in the names of platform p about the reactions n.
AnswerOf(p, n, raw) ==
    /\ DOMAIN raw \subseteq DOMAIN Analytics!Means[p]
    /\ \A name \in DOMAIN raw : raw[name] = n[Analytics!Means[p][name]]

LEMMA AnsweredOf ==
    ASSUME NEW p, NEW n, NEW missing
    PROVE  AnswerOf(p, n, Answered(p, n, missing))
<1> DEFINE names == (Analytics!Asked[p] \cap DOMAIN Analytics!Means[p]) \ missing
           raw == Answered(p, n, missing)
<1>1. names \subseteq DOMAIN Analytics!Means[p]
  OBVIOUS
<1>2. raw = [name \in names |-> n[Analytics!Means[p][name]]]
  BY DEF Answered
<1> HIDE DEF names, raw
<1>3. DOMAIN raw = names /\ \A name \in names : raw[name] = n[Analytics!Means[p][name]]
  BY <1>2
<1>4. AnswerOf(p, n, raw)
  BY <1>1, <1>3 DEF AnswerOf
<1> QED  BY <1>4 DEF raw

\* num: no more than readers did, whether the name is there or not.
LEMMA NumRead ==
    ASSUME NEW p, NEW n \in [Analytics!Kind -> Nat], NEW raw, AnswerOf(p, n, raw),
           NEW name, Analytics!Means[p][name] \in Analytics!Kind
    PROVE  LET x == Analytics!Num(raw, name)
           IN x \in Nat /\ x <= n[Analytics!Means[p][name]]
<1> DEFINE k == Analytics!Means[p][name]
<1>1. n[k] \in Nat
  OBVIOUS
<1>2. name \in DOMAIN raw => raw[name] = n[k]
  BY DEF AnswerOf
<1> HIDE DEF k
<1>3. Analytics!Num(raw, name) = n[k] \/ Analytics!Num(raw, name) = 0
  BY <1>2 DEF Analytics!Num
<1>4. Analytics!Num(raw, name) \in Nat /\ Analytics!Num(raw, name) <= n[k]
  BY <1>1, <1>3
<1> QED  BY <1>4 DEF k

\* A sort of reaction with one name, and one with none.
LEMMA OneName ==
    ASSUME NEW p, NEW n, NEW raw, AnswerOf(p, n, raw), NEW k, NEW name,
           Analytics!Means[p][name] = k,
           \A other \in DOMAIN Analytics!Means[p] : Analytics!Means[p][other] = k => other = name
    PROVE  Heard(p, raw, k) = Analytics!Num(raw, name)
<1>1. CASE name \in DOMAIN raw
  <2>1. Named(p, raw, k) = {name}
    BY <1>1 DEF Named, AnswerOf
  <2>2. (CHOOSE other \in Named(p, raw, k) : TRUE) = name
    BY <2>1
  <2> QED  BY <1>1, <2>1, <2>2 DEF Heard, Analytics!Num
<1>2. CASE name \notin DOMAIN raw
  <2>1. Named(p, raw, k) = {}
    BY <1>2 DEF Named, AnswerOf
  <2> QED  BY <1>2, <2>1 DEF Heard, Analytics!Num
<1> QED  BY <1>1, <1>2

LEMMA NoName ==
    ASSUME NEW p, NEW n, NEW raw, AnswerOf(p, n, raw), NEW k,
           \A name \in DOMAIN Analytics!Means[p] : Analytics!Means[p][name] # k
    PROVE  Heard(p, raw, k) = 0
  BY DEF Named, Heard, AnswerOf

LEMMA InstagramTold ==
    ASSUME NEW n \in [Analytics!Kind -> Nat], NEW raw, AnswerOf("instagram", n, raw)
    PROVE  Normalized("instagram", n, raw)
<1> DEFINE means == Analytics!Means["instagram"]
           N(name) == Analytics!Num(raw, name)
<1>1. DOMAIN means = {"impressions", "reach", "likes", "comments", "shares"}
  BY DEF Analytics!Means
<1>2. /\ means["impressions"] = "view" /\ means["reach"] = "view"
      /\ means["likes"] = "like" /\ means["comments"] = "comment"
      /\ means["shares"] = "repost"
  BY DEF Analytics!Means
<1>3. \A name : means[name] \in Analytics!Kind => N(name) \in Nat /\ N(name) <= n[means[name]]
  BY NumRead
<1>4. /\ Heard("instagram", raw, "like") = N("likes")
      /\ Heard("instagram", raw, "comment") = N("comments")
      /\ Heard("instagram", raw, "repost") = N("shares")
      /\ Heard("instagram", raw, "quote") = 0 /\ Heard("instagram", raw, "click") = 0
  <2>1. Heard("instagram", raw, "like") = N("likes")
    BY <1>1, <1>2, OneName
  <2>2. Heard("instagram", raw, "comment") = N("comments")
    BY <1>1, <1>2, OneName
  <2>3. Heard("instagram", raw, "repost") = N("shares")
    BY <1>1, <1>2, OneName
  <2>4. Heard("instagram", raw, "quote") = 0 /\ Heard("instagram", raw, "click") = 0
    BY <1>1, <1>2, NoName
  <2> QED  BY <2>1, <2>2, <2>3, <2>4
<1> HIDE DEF means, N
<1>5. /\ N("impressions") \in Nat /\ N("impressions") <= n["view"]
      /\ N("reach") \in Nat /\ N("reach") <= n["view"]
      /\ N("likes") \in Nat /\ N("likes") <= n["like"]
      /\ N("comments") \in Nat /\ N("comments") <= n["comment"]
      /\ N("shares") \in Nat /\ N("shares") <= n["repost"]
  BY <1>2, <1>3 DEF Analytics!Kind
<1>6. Analytics!NormalizeMetrics("instagram", raw)
        = [impressions |-> N("impressions"), reach |-> N("reach"), likes |-> N("likes"),
           comments |-> N("comments"), shares |-> N("shares"), clicks |-> 0]
  BY DEF Analytics!NormalizeMetrics, Analytics!NormalizeInstagram, Analytics!CanonicalMetrics, N
<1> QED  BY <1>4, <1>5, <1>6 DEF Normalized, Counts, Fields, AtMost, Told, EngagementOf

LEMMA FacebookTold ==
    ASSUME NEW n \in [Analytics!Kind -> Nat], NEW raw, AnswerOf("facebook", n, raw)
    PROVE  Normalized("facebook", n, raw)
<1> DEFINE means == Analytics!Means["facebook"]
           N(name) == Analytics!Num(raw, name)
<1>1. DOMAIN means = {"post_impressions", "post_impressions_unique", "post_clicks",
                      "likes", "comments", "shares"}
  BY DEF Analytics!Means
<1>2. /\ means["post_impressions"] = "view" /\ means["post_impressions_unique"] = "view"
      /\ means["post_clicks"] = "click" /\ means["likes"] = "like"
      /\ means["comments"] = "comment" /\ means["shares"] = "repost"
  BY DEF Analytics!Means
<1>3. \A name : means[name] \in Analytics!Kind => N(name) \in Nat /\ N(name) <= n[means[name]]
  BY NumRead
<1>4. /\ Heard("facebook", raw, "like") = N("likes")
      /\ Heard("facebook", raw, "comment") = N("comments")
      /\ Heard("facebook", raw, "repost") = N("shares")
      /\ Heard("facebook", raw, "quote") = 0
      /\ Heard("facebook", raw, "click") = N("post_clicks")
  <2>1. Heard("facebook", raw, "like") = N("likes")
    BY <1>1, <1>2, OneName
  <2>2. Heard("facebook", raw, "comment") = N("comments")
    BY <1>1, <1>2, OneName
  <2>3. Heard("facebook", raw, "repost") = N("shares")
    BY <1>1, <1>2, OneName
  <2>4. Heard("facebook", raw, "quote") = 0
    BY <1>1, <1>2, NoName
  <2>5. Heard("facebook", raw, "click") = N("post_clicks")
    BY <1>1, <1>2, OneName
  <2> QED  BY <2>1, <2>2, <2>3, <2>4, <2>5
<1> HIDE DEF means, N
<1>5. /\ N("post_impressions") \in Nat /\ N("post_impressions") <= n["view"]
      /\ N("post_impressions_unique") \in Nat /\ N("post_impressions_unique") <= n["view"]
      /\ N("post_clicks") \in Nat /\ N("post_clicks") <= n["click"]
      /\ N("likes") \in Nat /\ N("likes") <= n["like"]
      /\ N("comments") \in Nat /\ N("comments") <= n["comment"]
      /\ N("shares") \in Nat /\ N("shares") <= n["repost"]
  BY <1>2, <1>3 DEF Analytics!Kind
<1>6. Analytics!NormalizeMetrics("facebook", raw)
        = [impressions |-> N("post_impressions"), reach |-> N("post_impressions_unique"),
           likes |-> N("likes"), comments |-> N("comments"), shares |-> N("shares"),
           clicks |-> N("post_clicks")]
  BY DEF Analytics!NormalizeMetrics, Analytics!NormalizeFacebook, Analytics!CanonicalMetrics, N
<1> QED  BY <1>4, <1>5, <1>6 DEF Normalized, Counts, Fields, AtMost, Told, EngagementOf

LEMMA ThreadsTold ==
    ASSUME NEW n \in [Analytics!Kind -> Nat], NEW raw, AnswerOf("threads", n, raw)
    PROVE  Normalized("threads", n, raw)
<1> DEFINE means == Analytics!Means["threads"]
           N(name) == Analytics!Num(raw, name)
<1>1. DOMAIN means = {"views", "likes", "replies", "reposts", "quotes"}
  BY DEF Analytics!Means
<1>2. /\ means["views"] = "view" /\ means["likes"] = "like"
      /\ means["replies"] = "comment" /\ means["reposts"] = "repost"
      /\ means["quotes"] = "quote"
  BY DEF Analytics!Means
<1>3. \A name : means[name] \in Analytics!Kind => N(name) \in Nat /\ N(name) <= n[means[name]]
  BY NumRead
<1>4. /\ Heard("threads", raw, "like") = N("likes")
      /\ Heard("threads", raw, "comment") = N("replies")
      /\ Heard("threads", raw, "repost") = N("reposts")
      /\ Heard("threads", raw, "quote") = N("quotes") /\ Heard("threads", raw, "click") = 0
  <2>1. Heard("threads", raw, "like") = N("likes")
    BY <1>1, <1>2, OneName
  <2>2. Heard("threads", raw, "comment") = N("replies")
    BY <1>1, <1>2, OneName
  <2>3. Heard("threads", raw, "repost") = N("reposts")
    BY <1>1, <1>2, OneName
  <2>4. Heard("threads", raw, "quote") = N("quotes")
    BY <1>1, <1>2, OneName
  <2>5. Heard("threads", raw, "click") = 0
    BY <1>1, <1>2, NoName
  <2> QED  BY <2>1, <2>2, <2>3, <2>4, <2>5
<1> HIDE DEF means, N
<1>5. /\ N("views") \in Nat /\ N("views") <= n["view"]
      /\ N("likes") \in Nat /\ N("likes") <= n["like"]
      /\ N("replies") \in Nat /\ N("replies") <= n["comment"]
      /\ N("reposts") \in Nat /\ N("reposts") <= n["repost"]
      /\ N("quotes") \in Nat /\ N("quotes") <= n["quote"]
      /\ n["repost"] \in Nat /\ n["quote"] \in Nat
  BY <1>2, <1>3 DEF Analytics!Kind
<1>6. Analytics!NormalizeMetrics("threads", raw)
        = [impressions |-> N("views"), reach |-> 0, likes |-> N("likes"),
           comments |-> N("replies"), shares |-> N("reposts") + N("quotes"), clicks |-> 0]
  BY DEF Analytics!NormalizeMetrics, Analytics!NormalizeThreads, Analytics!CanonicalMetrics, N
<1> QED  BY <1>4, <1>5, <1>6 DEF Normalized, Counts, Fields, AtMost, Told, EngagementOf

\* An answer without public_metrics is as good as one that leaves each of them out.
LEMMA XTold ==
    ASSUME NEW n \in [Analytics!Kind -> Nat], NEW raw, AnswerOf("x", n, raw)
    PROVE  Normalized("x", n, raw)
<1> DEFINE means == Analytics!Means["x"]
           N(name) == Analytics!Num(raw, name)
<1>1. DOMAIN means = {"impression_count", "like_count", "reply_count", "retweet_count",
                      "quote_count"}
  BY DEF Analytics!Means
<1>2. /\ means["impression_count"] = "view" /\ means["like_count"] = "like"
      /\ means["reply_count"] = "comment" /\ means["retweet_count"] = "repost"
      /\ means["quote_count"] = "quote"
  BY DEF Analytics!Means
<1>3. \A name : means[name] \in Analytics!Kind => N(name) \in Nat /\ N(name) <= n[means[name]]
  BY NumRead
<1>4. /\ Heard("x", raw, "like") = N("like_count")
      /\ Heard("x", raw, "comment") = N("reply_count")
      /\ Heard("x", raw, "repost") = N("retweet_count")
      /\ Heard("x", raw, "quote") = N("quote_count") /\ Heard("x", raw, "click") = 0
  <2>1. Heard("x", raw, "like") = N("like_count")
    BY <1>1, <1>2, OneName
  <2>2. Heard("x", raw, "comment") = N("reply_count")
    BY <1>1, <1>2, OneName
  <2>3. Heard("x", raw, "repost") = N("retweet_count")
    BY <1>1, <1>2, OneName
  <2>4. Heard("x", raw, "quote") = N("quote_count")
    BY <1>1, <1>2, OneName
  <2>5. Heard("x", raw, "click") = 0
    BY <1>1, <1>2, NoName
  <2> QED  BY <2>1, <2>2, <2>3, <2>4, <2>5
<1>5. DOMAIN raw = {} => /\ N("impression_count") = 0 /\ N("like_count") = 0
                         /\ N("reply_count") = 0 /\ N("retweet_count") = 0 /\ N("quote_count") = 0
  BY DEF Analytics!Num
<1> HIDE DEF means, N
<1>6. /\ N("impression_count") \in Nat /\ N("impression_count") <= n["view"]
      /\ N("like_count") \in Nat /\ N("like_count") <= n["like"]
      /\ N("reply_count") \in Nat /\ N("reply_count") <= n["comment"]
      /\ N("retweet_count") \in Nat /\ N("retweet_count") <= n["repost"]
      /\ N("quote_count") \in Nat /\ N("quote_count") <= n["quote"]
      /\ n["repost"] \in Nat /\ n["quote"] \in Nat
  BY <1>2, <1>3 DEF Analytics!Kind
<1>7. Analytics!NormalizeMetrics("x", raw)
        = [impressions |-> N("impression_count"), reach |-> 0, likes |-> N("like_count"),
           comments |-> N("reply_count"), shares |-> N("retweet_count") + N("quote_count"),
           clicks |-> 0]
  <2>1. Analytics!NormalizeMetrics("x", raw) = Analytics!NormalizeX(raw)
    BY DEF Analytics!NormalizeMetrics
  <2>2. CASE DOMAIN raw = {}
    <3>1. Analytics!NormalizeX(raw) = Analytics!CanonicalMetrics(0, 0, 0, 0, 0, 0)
      BY <2>2 DEF Analytics!NormalizeX
    <3>2. N("retweet_count") + N("quote_count") = 0
      BY <1>5, <2>2
    <3> QED  BY <1>5, <2>1, <2>2, <3>1, <3>2 DEF Analytics!CanonicalMetrics
  <2>3. CASE DOMAIN raw # {}
    BY <2>1, <2>3 DEF Analytics!NormalizeX, Analytics!CanonicalMetrics, N
  <2> QED  BY <2>2, <2>3
<1> QED  BY <1>4, <1>6, <1>7 DEF Normalized, Counts, Fields, AtMost, Told, EngagementOf

\* aggregatedTotalComments ?? count: two names of one number.
LEMMA LinkedInTold ==
    ASSUME NEW n \in [Analytics!Kind -> Nat], NEW raw, AnswerOf("linkedin", n, raw)
    PROVE  Normalized("linkedin", n, raw)
<1> DEFINE means == Analytics!Means["linkedin"]
           N(name) == Analytics!Num(raw, name)
           comments == IF "aggregatedTotalComments" \in DOMAIN raw
                       THEN raw.aggregatedTotalComments ELSE N("count")
<1>1. DOMAIN means = {"totalLikes", "aggregatedTotalComments", "count"}
  BY DEF Analytics!Means
<1>2. /\ means["totalLikes"] = "like" /\ means["aggregatedTotalComments"] = "comment"
      /\ means["count"] = "comment"
  BY DEF Analytics!Means
<1>3. \A name : means[name] \in Analytics!Kind => N(name) \in Nat /\ N(name) <= n[means[name]]
  BY NumRead
<1>4. /\ Heard("linkedin", raw, "like") = N("totalLikes")
      /\ Heard("linkedin", raw, "repost") = 0 /\ Heard("linkedin", raw, "quote") = 0
      /\ Heard("linkedin", raw, "click") = 0
  <2>1. Heard("linkedin", raw, "like") = N("totalLikes")
    BY <1>1, <1>2, OneName
  <2>2. /\ Heard("linkedin", raw, "repost") = 0 /\ Heard("linkedin", raw, "quote") = 0
        /\ Heard("linkedin", raw, "click") = 0
    BY <1>1, <1>2, NoName
  <2> QED  BY <2>1, <2>2
<1>5. /\ DOMAIN raw \subseteq DOMAIN means
      /\ \A name \in DOMAIN raw : raw[name] = n[means[name]]
  BY DEF AnswerOf
<1>6. Heard("linkedin", raw, "comment") = comments
  <2> DEFINE both == Named("linkedin", raw, "comment")
             one == CHOOSE name \in both : TRUE
  <2>1. both = DOMAIN raw \cap {"aggregatedTotalComments", "count"}
    BY <1>1, <1>2, <1>5 DEF Named
  <2>2. Heard("linkedin", raw, "comment") = IF both = {} THEN 0 ELSE raw[one]
    BY DEF Heard
  <2>3. both # {} => one \in both
    OBVIOUS
  <2> HIDE DEF both, one, means
  <2>4. both # {} => raw[one] = n["comment"]
    BY <1>2, <1>5, <2>1, <2>3
  <2>5. both # {} => comments = n["comment"]
    BY <1>2, <1>5, <2>1 DEF Analytics!Num
  <2>6. both = {} => comments = 0
    BY <2>1 DEF Analytics!Num
  <2> QED  BY <2>2, <2>4, <2>5, <2>6
<1>7. /\ comments \in Nat /\ comments <= n["comment"]
      /\ N("totalLikes") \in Nat /\ N("totalLikes") <= n["like"]
  <2>1. n["comment"] \in Nat
    BY DEF Analytics!Kind
  <2> HIDE DEF means
  <2>2. "aggregatedTotalComments" \in DOMAIN raw => raw.aggregatedTotalComments = n["comment"]
    BY <1>2, <1>5
  <2> HIDE DEF N
  <2>3. /\ N("count") \in Nat /\ N("count") <= n["comment"]
        /\ N("totalLikes") \in Nat /\ N("totalLikes") <= n["like"]
    BY <1>2, <1>3 DEF Analytics!Kind
  <2> QED  BY <2>1, <2>2, <2>3
<1>8. Analytics!NormalizeMetrics("linkedin", raw)
        = [impressions |-> 0, reach |-> 0, likes |-> N("totalLikes"), comments |-> comments,
           shares |-> 0, clicks |-> 0]
  BY DEF Analytics!NormalizeMetrics, Analytics!NormalizeLinkedIn, Analytics!CanonicalMetrics
<1> HIDE DEF means, N, comments
<1> QED  BY <1>4, <1>6, <1>7, <1>8 DEF Normalized, Counts, Fields, AtMost, Told, EngagementOf

\* FetchRaw, whatever the platform is and leaves out.
LEMMA PlatformTold ==
    ASSUME NEW p \in PlatformNames, NEW n \in [Analytics!Kind -> Nat], NEW missing
    PROVE  Normalized(p, n, Answered(p, n, missing))
<1> DEFINE raw == Answered(p, n, missing)
<1>1. AnswerOf(p, n, raw)
  BY AnsweredOf
<1> SUFFICES Normalized(p, n, raw)
  OBVIOUS
<1> HIDE DEF raw
<1>2. CASE p = "linkedin"
  BY <1>1, <1>2, LinkedInTold
<1>3. CASE p = "instagram"
  BY <1>1, <1>3, InstagramTold
<1>4. CASE p = "facebook"
  BY <1>1, <1>4, FacebookTold
<1>5. CASE p = "threads"
  BY <1>1, <1>5, ThreadsTold
<1>6. CASE p = "x"
  BY <1>1, <1>6, XTold
<1> QED  BY <1>2, <1>3, <1>4, <1>5, <1>6 DEF PlatformNames

\* The engagement an answer tells of is that of the row made of it.
LEMMA SeenTold ==
    ASSUME NEW t, NEW p \in PlatformNames, job[t.job].platform = p, NEW n, NEW raw,
           Normalized(p, n, raw)
    PROVE  Analytics!EngagementIn(t, raw) = EngagementOf(Analytics!NormalizeMetrics(p, raw))
  BY DEF Normalized, Analytics!EngagementIn, Heard, Named

-----------------------------------------------------------------------------
(* The inductive invariant. *)

\* A run asks about posts that were made, once about each, and has such a row in hand.
RunTrue(x) ==
    /\ x.at # "idle" => x.status = "running"
    /\ \A t \in x.todo : t.post \in 1 .. Len(reactions[t.job])
    /\ \A t, u \in x.todo : t.job = u.job => t = u
    /\ x.at = "upsert" =>
          /\ x.job \in Jobs /\ x.counts.row /\ x.counts.post = x.post
          /\ RowTrue(x.counts, job[x.job].platform, reactions[x.job])
          /\ \A t \in x.todo : t.job # x.job

\* While a run is alone no other is under way, so no row overtakes what it has
\* found and what it has in hand.
Newer(x) ==
    x.alone /\ x.at # "idle" =>
        /\ \A t \in x.todo : metric[t.job].row => metric[t.job].post <= t.post
        /\ x.at = "upsert" /\ metric[x.job].row =>
              metric[x.job].post <= x.post /\ metric[x.job].asked <= x.counts.asked

\* Answers are numbered as they come.
Stamped ==
    /\ \A j \in Jobs : metric[j].asked <= asked[j]
    /\ \A r \in Runs : run[r].at = "upsert" => run[r].counts.asked <= asked[run[r].job]

AloneIsAlone ==
    \A r, q \in Runs : r # q /\ run[r].alone /\ run[r].at # "idle" => run[q].at = "idle"

PostsKnown ==
    \A j \in Jobs : /\ job[j].platform \in PlatformNames
                    /\ job[j].post = Len(reactions[j]) /\ Len(reactions[j]) >= 1

AnalyticsInv ==
    /\ Analytics!TypeOK /\ PostsKnown /\ RowsTrue
    /\ \A r \in Runs : RunTrue(run[r]) /\ Newer(run[r])
    /\ AloneIsAlone /\ Stamped

Reactions == [Analytics!Kind -> Nat]

\* Readers react; another post may have been made.
Grown(tally, tally2) ==
    /\ Len(tally) <= Len(tally2)
    /\ \A i \in 1 .. Len(tally) : \A k \in Analytics!Kind : tally[i][k] <= tally2[i][k]

LEMMA RowGrows ==
    ASSUME NEW x \in Analytics!Metric, NEW p \in PlatformNames,
           NEW tally \in Seq(Reactions), NEW tally2 \in Seq(Reactions),
           RowTrue(x, p, tally), Grown(tally, tally2)
    PROVE  RowTrue(x, p, tally2)
<1> SUFFICES ASSUME x.row
             PROVE  /\ x.post \in 1 .. Len(tally2)
                    /\ AtMost(x.counts, Told(p, tally2[x.post]))
                    /\ EngagementOf(x.counts) = x.seen
  BY DEF RowTrue
<1> DEFINE i == x.post
           n == tally[i]
           n2 == tally2[i]
<1>1. /\ i \in 1 .. Len(tally) /\ AtMost(x.counts, Told(p, n))
      /\ EngagementOf(x.counts) = x.seen
  BY DEF RowTrue
<1>2. i \in 1 .. Len(tally2)
  <2>1. Len(tally) \in Nat /\ Len(tally2) \in Nat /\ Len(tally) <= Len(tally2)
    BY DEF Grown
  <2> QED  BY <1>1, <2>1
<1>3. n \in Reactions /\ n2 \in Reactions /\ \A k \in Analytics!Kind : n[k] <= n2[k]
  BY <1>1, <1>2 DEF Grown
<1> HIDE DEF i, n, n2
<1>4. AtMost(Told(p, n), Told(p, n2))
  BY <1>3, ToldGrows DEF Reactions
<1>5. Told(p, n) \in Counts /\ Told(p, n2) \in Counts
  BY <1>3, ToldTyped DEF Reactions
<1>6. x.counts \in Counts
  BY DEF Analytics!Metric, Analytics!Fields, Counts, Fields
<1>7. AtMost(x.counts, Told(p, n2))
  <2> SUFFICES ASSUME NEW k \in Fields
               PROVE  x.counts[k] <= Told(p, n2)[k]
    BY DEF AtMost
  <2>1. x.counts[k] \in Nat /\ Told(p, n)[k] \in Nat /\ Told(p, n2)[k] \in Nat
    BY <1>5, <1>6 DEF Counts
  <2>2. x.counts[k] <= Told(p, n)[k] /\ Told(p, n)[k] <= Told(p, n2)[k]
    BY <1>1, <1>4 DEF AtMost, n
  <2> QED  BY <2>1, <2>2
<1> QED  BY <1>1, <1>2, <1>7 DEF n2, i

-----------------------------------------------------------------------------
(* Readers, members and admins. *)

LEMMA AnalyticsFacts ==
    ASSUME AnalyticsInv
    PROVE  /\ job \in [Jobs -> Analytics!Job] /\ metric \in [Jobs -> Analytics!Metric]
           /\ run \in [Runs -> Analytics!Run] /\ reactions \in [Jobs -> Seq(Reactions)]
           /\ asked \in [Jobs -> Nat]
           /\ bounds \in [reactions : 0 .. MaxReactions, changes : 0 .. MaxChanges]
           /\ \A j \in Jobs : job[j].platform \in PlatformNames /\ job[j].post \in 1 .. Len(reactions[j])
           /\ \A j \in Jobs : job[j].post = Len(reactions[j])
           /\ \A j \in Jobs : RowTrue(metric[j], job[j].platform, reactions[j])
           /\ \A r \in Runs : RunTrue(run[r]) /\ Newer(run[r])
<1>1. /\ job \in [Jobs -> Analytics!Job] /\ metric \in [Jobs -> Analytics!Metric]
      /\ run \in [Runs -> Analytics!Run] /\ reactions \in [Jobs -> Seq(Reactions)]
      /\ asked \in [Jobs -> Nat]
      /\ bounds \in [reactions : 0 .. MaxReactions, changes : 0 .. MaxChanges]
  BY DEF AnalyticsInv, Analytics!TypeOK, Reactions
<1>2. \A j \in Jobs : Len(reactions[j]) \in Nat
  BY <1>1
<1>3. /\ \A j \in Jobs : job[j].platform \in PlatformNames /\ job[j].post \in 1 .. Len(reactions[j])
      /\ \A j \in Jobs : job[j].post = Len(reactions[j])
  BY <1>2 DEF AnalyticsInv, PostsKnown
<1> QED  BY <1>1, <1>3 DEF AnalyticsInv, RowsTrue

LEMMA WorldStep ==
    ASSUME AnalyticsInv, run' = run, asked' = asked,
           job' \in [Jobs -> Analytics!Job], reactions' \in [Jobs -> Seq(Reactions)],
           bounds' \in [reactions : 0 .. MaxReactions, changes : 0 .. MaxChanges],
           metric' \in [Jobs -> Analytics!Metric],
           \A j \in Jobs : /\ job'[j].platform = job[j].platform
                           /\ job'[j].post = Len(reactions'[j])
                           /\ Grown(reactions[j], reactions'[j])
                           /\ metric'[j] = metric[j] \/ metric'[j] = Analytics!NoMetric
    PROVE  AnalyticsInv'
<1>1. Analytics!TypeOK'
  BY AnalyticsFacts DEF Analytics!TypeOK, Reactions
<1>2. PostsKnown'
  <2> SUFFICES ASSUME NEW j \in Jobs
               PROVE  /\ job'[j].platform \in PlatformNames
                      /\ job'[j].post = Len(reactions'[j]) /\ Len(reactions'[j]) >= 1
    BY DEF PostsKnown
  <2>1. /\ Len(reactions[j]) >= 1 /\ Len(reactions[j]) <= Len(reactions'[j])
        /\ Len(reactions[j]) \in Nat /\ Len(reactions'[j]) \in Nat
    BY AnalyticsFacts DEF Grown, AnalyticsInv, PostsKnown
  <2>2. /\ job[j].platform \in PlatformNames /\ job'[j].platform = job[j].platform
        /\ job'[j].post = Len(reactions'[j])
    BY AnalyticsFacts
  <2>3. Len(reactions'[j]) >= 1
    BY <2>1
  <2> QED  BY <2>2, <2>3
<1>0. ~Analytics!NoMetric.row /\ Analytics!NoMetric.asked = 0
  BY DEF Analytics!NoMetric
<1>3. ASSUME NEW j \in Jobs, NEW x \in Analytics!Metric,
             RowTrue(x, job[j].platform, reactions[j])
      PROVE  RowTrue(x, job'[j].platform, reactions'[j])
  <2>1. /\ job[j].platform \in PlatformNames /\ reactions[j] \in Seq(Reactions)
        /\ reactions'[j] \in Seq(Reactions) /\ Grown(reactions[j], reactions'[j])
        /\ job'[j].platform = job[j].platform
    BY AnalyticsFacts
  <2>2. RowTrue(x, job[j].platform, reactions'[j])
    BY <1>3, <2>1, RowGrows
  <2> QED  BY <2>1, <2>2
<1>4. RowsTrue'
  <2> SUFFICES ASSUME NEW j \in Jobs
               PROVE  RowTrue(metric'[j], job'[j].platform, reactions'[j])
    BY DEF RowsTrue
  <2>1. CASE metric'[j] = Analytics!NoMetric
    BY <1>0, <2>1 DEF RowTrue
  <2>2. CASE metric'[j] = metric[j]
    <3>1. metric[j] \in Analytics!Metric /\ RowTrue(metric[j], job[j].platform, reactions[j])
      BY AnalyticsFacts
    <3> QED  BY <1>3, <2>2, <3>1
  <2> QED  BY <2>1, <2>2
<1>4a. \A j \in Jobs : metric'[j].row => metric'[j] = metric[j]
  BY <1>0
<1>5. ASSUME NEW r \in Runs
      PROVE  RunTrue(run[r])' /\ Newer(run[r])'
  <2> DEFINE x == run[r]
  <2>1. x \in Analytics!Run /\ RunTrue(x) /\ Newer(x) /\ run'[r] = x
    BY AnalyticsFacts
  <2>2. \A t \in x.todo : t.job \in Jobs /\ t.post \in Nat
    BY <2>1 DEF Analytics!Run
  <2>3. x.counts \in Analytics!Metric
    BY <2>1 DEF Analytics!Run
  <2> HIDE DEF x
  <2>4. \A t \in x.todo : t.post \in 1 .. Len(reactions'[t.job])
    <3> SUFFICES ASSUME NEW t \in x.todo
                 PROVE  t.post \in 1 .. Len(reactions'[t.job])
      OBVIOUS
    <3>1. t.post \in 1 .. Len(reactions[t.job]) /\ t.job \in Jobs
      BY <2>1, <2>2 DEF RunTrue
    <3>2. /\ Len(reactions[t.job]) <= Len(reactions'[t.job])
          /\ Len(reactions[t.job]) \in Nat /\ Len(reactions'[t.job]) \in Nat
      BY <3>1, AnalyticsFacts DEF Grown
    <3> QED  BY <3>1, <3>2
  <2>5. RunTrue(x)'
    <3>1. CASE x.at # "upsert"
      BY <2>1, <2>4, <3>1 DEF RunTrue, x
    <3>2. CASE x.at = "upsert"
      <4>1. /\ x.job \in Jobs /\ x.counts.row /\ x.counts.post = x.post
            /\ RowTrue(x.counts, job[x.job].platform, reactions[x.job])
        BY <2>1, <3>2 DEF RunTrue
      <4>2. RowTrue(x.counts, job'[x.job].platform, reactions'[x.job])
        BY <1>3, <2>3, <4>1
      <4> QED  BY <2>1, <2>4, <4>1, <4>2 DEF RunTrue, x
    <3> QED  BY <3>1, <3>2
  <2>6. Newer(x)'
    <3>1. x.at = "upsert" => x.job \in Jobs
      BY <2>1 DEF RunTrue
    <3> QED  BY <1>4a, <2>1, <2>2, <3>1 DEF Newer, x
  <2> QED  BY <2>5, <2>6 DEF x
<1>6. AloneIsAlone'
  BY DEF AnalyticsInv, AloneIsAlone
<1>7. Stamped'
  <2>1. \A j \in Jobs : metric[j].asked <= asked[j] /\ asked[j] \in Nat
    BY AnalyticsFacts DEF AnalyticsInv, Stamped
  <2>2. \A j \in Jobs : metric'[j].asked <= asked[j]
    BY <1>0, <2>1
  <2> QED  BY <2>2 DEF AnalyticsInv, Stamped
<1> QED  BY <1>1, <1>2, <1>4, <1>5, <1>6, <1>7 DEF AnalyticsInv

\* Nothing has changed at the platforms.
LEMMA GrownSame == ASSUME NEW j \in Jobs, reactions \in [Jobs -> Seq(Reactions)]
                   PROVE  Grown(reactions[j], reactions[j])
<1>1. Len(reactions[j]) \in Nat /\ \A i \in 1 .. Len(reactions[j]) : reactions[j][i] \in Reactions
  OBVIOUS
<1>2. \A i \in 1 .. Len(reactions[j]), k \in Analytics!Kind : reactions[j][i][k] \in Nat
  BY <1>1 DEF Reactions
<1> QED  BY <1>1, <1>2 DEF Grown

LEMMA ReactStep ==
    ASSUME AnalyticsInv, NEW j \in Jobs, NEW k \in Analytics!Kind,
           Analytics!React(j, k)
    PROVE  AnalyticsInv'
<1> DEFINE i == job[j].post
           tally == reactions[j]
           n == tally[i]
           n2 == [n EXCEPT ![k] = @ + 1]
           tally2 == [tally EXCEPT ![i] = n2]
<1>0. /\ bounds.reactions < MaxReactions /\ bounds' = [bounds EXCEPT !.reactions = @ + 1]
      /\ reactions' = [reactions EXCEPT ![j][i][k] = @ + 1]
      /\ job' = job /\ metric' = metric /\ run' = run /\ asked' = asked
  BY DEF Analytics!React
<1>1. i \in 1 .. Len(tally) /\ tally \in Seq(Reactions)
  BY AnalyticsFacts
<1>2. n \in Reactions
  BY <1>1
<1>3. reactions' = [reactions EXCEPT ![j] = tally2]
  BY <1>0
<1> HIDE DEF n, tally, i
<1>4. n2 \in Reactions /\ \A m \in Analytics!Kind : n[m] <= n2[m]
  BY <1>2 DEF Reactions
<1> HIDE DEF n2
<1>5. /\ tally2 \in Seq(Reactions) /\ Len(tally2) = Len(tally) /\ tally2[i] = n2
      /\ \A m \in 1 .. Len(tally) : m # i => tally2[m] = tally[m]
  BY <1>1, <1>4
<1> HIDE DEF tally2
<1>6. Grown(tally, tally2)
  <2>1. ASSUME NEW m \in 1 .. Len(tally), NEW q \in Analytics!Kind
        PROVE  tally[m][q] <= tally2[m][q]
    <3>1. CASE m = i
      BY <1>4, <1>5, <3>1 DEF n
    <3>2. CASE m # i
      <4>1. tally[m] \in Reactions /\ tally2[m] = tally[m]
        BY <1>1, <1>5, <3>2
      <4>2. tally[m][q] \in Nat
        BY <4>1 DEF Reactions
      <4> QED  BY <4>1, <4>2
    <3> QED  BY <3>1, <3>2
  <2>2. Len(tally) \in Nat /\ Len(tally2) = Len(tally)
    BY <1>1, <1>5
  <2> QED  BY <2>1, <2>2 DEF Grown
<1>7. /\ reactions' \in [Jobs -> Seq(Reactions)] /\ reactions'[j] = tally2
      /\ \A h \in Jobs : h # j => reactions'[h] = reactions[h]
  BY <1>3, <1>5, AnalyticsFacts
<1>8. bounds' \in [reactions : 0 .. MaxReactions, changes : 0 .. MaxChanges]
  <2>1. /\ bounds \in [reactions : 0 .. MaxReactions, changes : 0 .. MaxChanges]
        /\ MaxReactions \in Nat
    BY AnalyticsFacts, PostMetricsAssumption
  <2>2. bounds.reactions + 1 \in 0 .. MaxReactions
    BY <1>0, <2>1
  <2> QED  BY <1>0, <2>1, <2>2
<1>9. ASSUME NEW h \in Jobs
      PROVE  /\ job'[h].platform = job[h].platform /\ job'[h].post = Len(reactions'[h])
             /\ Grown(reactions[h], reactions'[h]) /\ metric'[h] = metric[h]
  <2>1. CASE h = j
    BY <1>0, <1>1, <1>5, <1>6, <1>7, <2>1, AnalyticsFacts DEF tally, i
  <2>2. CASE h # j
    BY <1>0, <1>7, <2>2, AnalyticsFacts, GrownSame
  <2> QED  BY <2>1, <2>2
<1> QED  BY <1>0, <1>7, <1>8, <1>9, AnalyticsFacts, WorldStep

\* A bounded change to one job that keeps its post.
LEMMA ChangeStep ==
    ASSUME AnalyticsInv, NEW j \in Jobs, NEW x \in Analytics!Job,
           x.platform = job[j].platform, x.post = job[j].post,
           job' = [job EXCEPT ![j] = x], Analytics!Changing,
           metric' \in {metric, [metric EXCEPT ![j] = Analytics!NoMetric]},
           UNCHANGED <<run, reactions, asked>>
    PROVE  AnalyticsInv'
<1>1. bounds.changes < MaxChanges /\ bounds' = [bounds EXCEPT !.changes = @ + 1]
  BY DEF Analytics!Changing
<1>2. bounds' \in [reactions : 0 .. MaxReactions, changes : 0 .. MaxChanges]
  <2>1. /\ bounds \in [reactions : 0 .. MaxReactions, changes : 0 .. MaxChanges]
        /\ MaxChanges \in Nat
    BY AnalyticsFacts, PostMetricsAssumption
  <2>2. bounds.changes + 1 \in 0 .. MaxChanges
    BY <1>1, <2>1
  <2> QED  BY <1>1, <2>1, <2>2
<1>3. Analytics!NoMetric \in Analytics!Metric /\ ~Analytics!NoMetric.row
  BY DEF Analytics!NoMetric, Analytics!Metric, Analytics!Fields, Analytics!CanonicalMetrics
<1>4. job' \in [Jobs -> Analytics!Job] /\ metric' \in [Jobs -> Analytics!Metric]
  BY <1>3, AnalyticsFacts
<1>5. ASSUME NEW h \in Jobs
      PROVE  /\ job'[h].platform = job[h].platform /\ job'[h].post = Len(reactions'[h])
             /\ Grown(reactions[h], reactions'[h])
             /\ metric'[h] = metric[h] \/ metric'[h] = Analytics!NoMetric
  <2>1. job'[h].platform = job[h].platform /\ job'[h].post = job[h].post
    BY AnalyticsFacts
  <2>2. metric'[h] = metric[h] \/ metric'[h] = Analytics!NoMetric
    BY AnalyticsFacts
  <2> QED  BY <2>1, <2>2, AnalyticsFacts, GrownSame
<1> QED  BY <1>2, <1>4, <1>5, AnalyticsFacts, WorldStep

LEMMA PostedAgain ==
    ASSUME NEW y \in Analytics!Job, y.post + 1 \in Nat
    PROVE  LET x == [y EXCEPT !.status = "published", !.post = @ + 1]
           IN x \in Analytics!Job /\ x.platform = y.platform /\ x.post = y.post + 1
  BY DEF Analytics!Job

LEMMA RepublishStep ==
    ASSUME AnalyticsInv, NEW j \in Jobs, Analytics!Republish(j)
    PROVE  AnalyticsInv'
<1> DEFINE x == [job[j] EXCEPT !.status = "published", !.post = @ + 1]
           tally == reactions[j]
           tally2 == Append(tally, Analytics!NoReactions)
<1>0. /\ job' = [job EXCEPT ![j].status = "published", ![j].post = @ + 1]
      /\ reactions' = [reactions EXCEPT ![j] = tally2]
      /\ run' = run /\ metric' = metric /\ asked' = asked /\ bounds' = bounds
  BY DEF Analytics!Republish
<1>1. /\ job[j] \in Analytics!Job /\ tally \in Seq(Reactions)
      /\ job[j].post = Len(tally) /\ Len(tally) \in Nat
  BY AnalyticsFacts
<1>2. /\ x \in Analytics!Job /\ x.platform = job[j].platform /\ x.post = job[j].post + 1
      /\ job' = [job EXCEPT ![j] = x]
  <2>1. job[j].post + 1 \in Nat
    BY <1>1
  <2>2. x \in Analytics!Job /\ x.platform = job[j].platform /\ x.post = job[j].post + 1
    BY <1>1, <2>1, PostedAgain
  <2> QED  BY <1>0, <2>2
<1>3. Analytics!NoReactions \in Reactions
  BY DEF Analytics!NoReactions, Reactions
<1> HIDE DEF x, tally
<1>4. /\ tally2 \in Seq(Reactions) /\ Len(tally2) = Len(tally) + 1
      /\ \A i \in 1 .. Len(tally) : tally2[i] = tally[i]
  BY <1>1, <1>3
<1> HIDE DEF tally2
<1>5. Grown(tally, tally2)
  <2>1. \A i \in 1 .. Len(tally) : tally[i] \in Reactions
    BY <1>1
  <2>2. \A i \in 1 .. Len(tally), k \in Analytics!Kind : tally[i][k] \in Nat
    BY <2>1 DEF Reactions
  <2> QED  BY <1>1, <1>4, <2>2 DEF Grown
<1>6. /\ job' \in [Jobs -> Analytics!Job] /\ job'[j] = x
      /\ reactions' \in [Jobs -> Seq(Reactions)] /\ reactions'[j] = tally2
      /\ \A h \in Jobs : h # j => job'[h] = job[h] /\ reactions'[h] = reactions[h]
  BY <1>0, <1>2, <1>4, AnalyticsFacts
<1>7. ASSUME NEW h \in Jobs
      PROVE  /\ job'[h].platform = job[h].platform /\ job'[h].post = Len(reactions'[h])
             /\ Grown(reactions[h], reactions'[h]) /\ metric'[h] = metric[h]
  <2>1. CASE h = j
    <3>1. x.post = Len(tally2)
      BY <1>1, <1>2, <1>4
    <3> QED  BY <1>0, <1>2, <1>5, <1>6, <2>1, <3>1 DEF tally
  <2>2. CASE h # j
    BY <1>0, <1>6, <2>2, AnalyticsFacts, GrownSame
  <2> QED  BY <2>1, <2>2
<1> QED  BY <1>0, <1>6, <1>7, AnalyticsFacts, WorldStep

LEMMA PeopleStep ==
    ASSUME AnalyticsInv, NEW j \in Jobs,
           \/ \E k \in Analytics!Kind : Analytics!React(j, k)
           \/ Analytics!Reconnect(j) \/ Analytics!Requeue(j)
           \/ Analytics!Republish(j) \/ Analytics!Delete(j)
    PROVE  AnalyticsInv'
<1>0. job[j] \in Analytics!Job /\ job \in [Jobs -> Analytics!Job]
  BY AnalyticsFacts
<1>1. CASE \E k \in Analytics!Kind : Analytics!React(j, k)
  BY <1>1, ReactStep
<1>2. CASE Analytics!Reconnect(j)
  <2> DEFINE x == [job[j] EXCEPT !.connected = ~@]
  <2>1. x \in Analytics!Job /\ x.platform = job[j].platform /\ x.post = job[j].post
    BY <1>0 DEF Analytics!Job
  <2>2. job' = [job EXCEPT ![j] = x] /\ Analytics!Changing /\ UNCHANGED <<metric, run, reactions, asked>>
    BY <1>2 DEF Analytics!Reconnect
  <2> HIDE DEF x
  <2> QED  BY <2>1, <2>2, ChangeStep
<1>3. CASE Analytics!Requeue(j)
  <2> DEFINE x == [job[j] EXCEPT !.status = "queued"]
  <2>1. x \in Analytics!Job /\ x.platform = job[j].platform /\ x.post = job[j].post
    BY <1>0 DEF Analytics!Job
  <2>2. job' = [job EXCEPT ![j] = x] /\ Analytics!Changing /\ UNCHANGED <<metric, run, reactions, asked>>
    BY <1>3 DEF Analytics!Requeue
  <2> HIDE DEF x
  <2> QED  BY <2>1, <2>2, ChangeStep
<1>4. CASE Analytics!Republish(j)
  BY <1>4, RepublishStep
<1>5. CASE Analytics!Delete(j)
  <2> DEFINE x == [job[j] EXCEPT !.status = "gone"]
  <2>1. x \in Analytics!Job /\ x.platform = job[j].platform /\ x.post = job[j].post
    BY <1>0 DEF Analytics!Job
  <2>2. /\ job' = [job EXCEPT ![j] = x] /\ Analytics!Changing /\ UNCHANGED <<run, reactions, asked>>
        /\ metric' = [metric EXCEPT ![j] = Analytics!NoMetric]
    BY <1>5 DEF Analytics!Delete
  <2> HIDE DEF x
  <2> QED  BY <2>1, <2>2, ChangeStep
<1> QED  BY <1>1, <1>2, <1>3, <1>4, <1>5

-----------------------------------------------------------------------------
(* Runs. *)

\* A step of one run that writes no row.
LEMMA RunStep ==
    ASSUME AnalyticsInv, NEW r \in Runs, NEW x \in Analytics!Run,
           run' = [run EXCEPT ![r] = x], UNCHANGED <<job, metric, reactions, bounds>>,
           RunTrue(x), Newer(x),
           asked' \in [Jobs -> Nat], \A j \in Jobs : asked[j] <= asked'[j],
           x.at = "upsert" => x.counts.asked <= asked'[x.job],
           x.at # "idle" => run[r].at # "idle" /\ (x.alone => run[r].alone)
    PROVE  AnalyticsInv'
<1>0. /\ job' = job /\ metric' = metric /\ reactions' = reactions /\ bounds' = bounds
      /\ run' \in [Runs -> Analytics!Run]
      /\ run'[r] = x /\ \A q \in Runs : q # r => run'[q] = run[q]
  BY AnalyticsFacts
<1>1. Analytics!TypeOK'
  BY <1>0, AnalyticsFacts DEF Analytics!TypeOK, Reactions
<1>2. PostsKnown'
  BY <1>0, AnalyticsFacts DEF PostsKnown
<1>3. RowsTrue'
  BY <1>0, AnalyticsFacts DEF RowsTrue, RowTrue
<1>4. ASSUME NEW q \in Runs
      PROVE  RunTrue(run[q])' /\ Newer(run[q])'
  <2>1. RunTrue(run'[q]) /\ Newer(run'[q])
    BY <1>0, AnalyticsFacts
  <2> QED  BY <1>0, <2>1 DEF RunTrue, Newer, RowTrue
<1>5. AloneIsAlone'
  <2> SUFFICES ASSUME NEW a \in Runs, NEW b \in Runs, a # b, run'[a].alone, run'[a].at # "idle"
               PROVE  run'[b].at = "idle"
    BY DEF AloneIsAlone
  <2>1. run[a].alone /\ run[a].at # "idle"
    BY <1>0
  <2>2. run[b].at = "idle"
    BY <2>1 DEF AnalyticsInv, AloneIsAlone
  <2> QED  BY <1>0, <2>2
<1>6. Stamped'
  <2>1. ASSUME NEW j \in Jobs
        PROVE  metric[j].asked <= asked'[j]
    <3>1. metric[j].asked <= asked[j] /\ asked[j] <= asked'[j]
      BY DEF AnalyticsInv, Stamped
    <3>2. metric[j].asked \in Nat /\ asked[j] \in Nat /\ asked'[j] \in Nat
      BY AnalyticsFacts DEF Analytics!Metric
    <3> QED  BY <3>1, <3>2
  <2>2. ASSUME NEW q \in Runs, run'[q].at = "upsert"
        PROVE  run'[q].counts.asked <= asked'[run'[q].job]
    <3>1. CASE q = r
      BY <1>0, <2>2, <3>1
    <3>2. CASE q # r
      <4> DEFINE y == run[q]
      <4>1. y \in Analytics!Run /\ RunTrue(y) /\ y.at = "upsert" /\ run'[q] = y
        BY <1>0, <2>2, <3>2, AnalyticsFacts
      <4>2. y.counts.asked <= asked[y.job]
        BY <4>1 DEF AnalyticsInv, Stamped
      <4> HIDE DEF y
      <4>3. y.job \in Jobs
        BY <4>1 DEF RunTrue
      <4>4. y.counts.asked \in Nat /\ asked[y.job] \in Nat /\ asked'[y.job] \in Nat
        BY <4>1, <4>3, AnalyticsFacts DEF Analytics!Run, Analytics!Metric
      <4>5. asked[y.job] <= asked'[y.job]
        BY <4>3
      <4> QED  BY <4>1, <4>2, <4>4, <4>5
    <3> QED  BY <3>1, <3>2
  <2> QED  BY <1>0, <2>1, <2>2 DEF Stamped
<1> QED  BY <1>1, <1>2, <1>3, <1>4, <1>5, <1>6 DEF AnalyticsInv

\* The platforms have told of nothing.
LEMMA AskedSame ==
    ASSUME AnalyticsInv, asked' = asked
    PROVE  asked' \in [Jobs -> Nat] /\ \A j \in Jobs : asked[j] <= asked'[j]
<1>1. asked \in [Jobs -> Nat]
  BY AnalyticsFacts
<1>2. \A j \in Jobs : asked[j] \in Nat
  BY <1>1
<1> QED  BY <1>1, <1>2

LEMMA NewRunTyped ==
    /\ Analytics!NewRun \in Analytics!Run
    /\ Analytics!NewRun.at = "idle" /\ Analytics!NewRun.todo = {}
<1>1. Analytics!NoMetric \in Analytics!Metric
  BY DEF Analytics!NoMetric, Analytics!Metric, Analytics!Fields, Analytics!CanonicalMetrics
<1> QED  BY <1>1 DEF Analytics!NewRun, Analytics!Run

\* A run that is over, and one that has begun.
Over(status) == [Analytics!NewRun EXCEPT !.status = status]
Begun(alone) == [Analytics!NewRun EXCEPT !.status = "running", !.at = "find", !.alone = alone]

LEMMA OverTyped ==
    ASSUME NEW status \in {"running", "success", "failed"}
    PROVE  /\ Over(status) \in Analytics!Run
           /\ Over(status).at = "idle" /\ Over(status).todo = {}
  BY NewRunTyped DEF Analytics!Run, Over

LEMMA BegunTyped ==
    ASSUME NEW alone \in BOOLEAN
    PROVE  /\ Begun(alone) \in Analytics!Run /\ Begun(alone).at = "find"
           /\ Begun(alone).status = "running"
           /\ Begun(alone).todo = {} /\ Begun(alone).alone = alone
  BY NewRunTyped DEF Analytics!Run, Begun

\* Die, Finish, and a search that throws.
LEMMA EndStep ==
    ASSUME AnalyticsInv, NEW r \in Runs, run[r].at # "idle",
           NEW status \in {"success", "failed", "running"},
           Analytics!End(r, status), UNCHANGED <<job, metric, reactions, asked, bounds>>
    PROVE  AnalyticsInv'
<1> DEFINE x == Over(status)
<1>1. /\ x \in Analytics!Run /\ x.at = "idle" /\ x.todo = {}
  BY OverTyped
<1>2. run' = [run EXCEPT ![r] = x]
  BY DEF Analytics!End, Over
<1> HIDE DEF x
<1>3. RunTrue(x) /\ Newer(x)
  BY <1>1 DEF RunTrue, Newer
<1> QED  BY <1>1, <1>2, <1>3, AskedSame, RunStep

\* Whoever begins is alone if all are idle, and those who are not no longer are.
LEMMA BeginStep ==
    ASSUME AnalyticsInv, NEW r \in Runs, Analytics!Begin(r)
    PROVE  AnalyticsInv'
<1> DEFINE new == Begun(Analytics!Others(r) = {})
           Now(q) == IF q = r THEN new
                     ELSE IF q \in Analytics!Others(r) THEN [run[q] EXCEPT !.alone = FALSE]
                     ELSE run[q]
<1>0. /\ job' = job /\ metric' = metric /\ reactions' = reactions /\ bounds' = bounds
      /\ asked' = asked /\ run' = [q \in Runs |-> Now(q)]
  BY DEF Analytics!Begin, Begun
<1>1. /\ new \in Analytics!Run /\ new.at = "find" /\ new.todo = {} /\ new.status = "running"
      /\ new.alone = (Analytics!Others(r) = {})
  <2> DEFINE alone == Analytics!Others(r) = {}
  <2>1. alone \in BOOLEAN
    OBVIOUS
  <2> HIDE DEF alone
  <2>2. /\ Begun(alone) \in Analytics!Run /\ Begun(alone).at = "find"
        /\ Begun(alone).status = "running"
        /\ Begun(alone).todo = {} /\ Begun(alone).alone = alone
    BY <2>1, BegunTyped
  <2> QED  BY <2>2 DEF alone
<1> HIDE DEF new
<1>2. ASSUME NEW q \in Runs, q # r
      PROVE  /\ Now(q) \in Analytics!Run /\ Now(q).at = run[q].at /\ Now(q).todo = run[q].todo
             /\ Now(q).status = run[q].status
             /\ Now(q).job = run[q].job /\ Now(q).post = run[q].post
             /\ Now(q).counts = run[q].counts /\ (Now(q).alone => run[q].alone)
             /\ (run[q].at # "idle" => ~Now(q).alone)
  <2> DEFINE y == run[q]
  <2>1. y \in Analytics!Run /\ (y.at # "idle" => y.status = "running")
    BY AnalyticsFacts DEF RunTrue
  <2>2. q \in Analytics!Others(r) <=> y.at # "idle"
    BY <1>2, <2>1 DEF Analytics!Others
  <2>3. Now(q) = IF q \in Analytics!Others(r) THEN [y EXCEPT !.alone = FALSE] ELSE y
    BY <1>2
  <2> HIDE DEF y, Now
  <2>4. LET z == [y EXCEPT !.alone = FALSE]
        IN /\ z \in Analytics!Run /\ z.at = y.at /\ z.todo = y.todo /\ z.job = y.job
           /\ z.status = y.status /\ z.post = y.post /\ z.counts = y.counts /\ ~z.alone
    BY <2>1 DEF Analytics!Run
  <2> QED  BY <2>1, <2>2, <2>3, <2>4 DEF y
<1>3. run' \in [Runs -> Analytics!Run] /\ \A q \in Runs : run'[q] = Now(q)
  BY <1>0, <1>1, <1>2
<1>4. Now(r) = new
  OBVIOUS
<1> HIDE DEF Now
<1>5. Analytics!TypeOK'
  BY <1>0, <1>3, AnalyticsFacts DEF Analytics!TypeOK, Reactions
<1>6. PostsKnown' /\ RowsTrue'
  BY <1>0, AnalyticsFacts DEF PostsKnown, RowsTrue, RowTrue
<1>7. ASSUME NEW q \in Runs
      PROVE  RunTrue(run[q])' /\ Newer(run[q])'
  <2>1. CASE q = r
    <3>1. RunTrue(new) /\ Newer(new)
      BY <1>1 DEF RunTrue, Newer
    <3> QED  BY <1>0, <1>3, <1>4, <2>1, <3>1 DEF RunTrue, Newer, RowTrue
  <2>2. CASE q # r
    <3>1. RunTrue(run[q]) /\ Newer(run[q])
      BY AnalyticsFacts
    <3>2. RunTrue(Now(q)) /\ Newer(Now(q))
      BY <1>2, <2>2, <3>1 DEF RunTrue, Newer
    <3> QED  BY <1>0, <1>3, <3>2 DEF RunTrue, Newer, RowTrue
  <2> QED  BY <2>1, <2>2
<1>8. AloneIsAlone'
  <2> SUFFICES ASSUME NEW a \in Runs, NEW b \in Runs, a # b, run'[a].alone, run'[a].at # "idle"
               PROVE  run'[b].at = "idle"
    BY DEF AloneIsAlone
  <2>1. a = r
    BY <1>2, <1>3
  <2>2. Analytics!Others(r) = {}
    BY <1>1, <1>3, <1>4, <2>1
  <2>3. b \in Runs \ {r} /\ run[b].at = "idle"
    <3>1. RunTrue(run[b])
      BY AnalyticsFacts
    <3> QED  BY <2>1, <2>2, <3>1 DEF Analytics!Others, RunTrue
  <2> QED  BY <1>2, <1>3, <2>3
<1>9. Stamped'
  <2>1. /\ \A j \in Jobs : metric[j].asked <= asked[j]
        /\ \A q \in Runs : run[q].at = "upsert" => run[q].counts.asked <= asked[run[q].job]
    BY DEF AnalyticsInv, Stamped
  <2>2. ASSUME NEW q \in Runs, run'[q].at = "upsert"
        PROVE  run'[q].counts.asked <= asked'[run'[q].job]
    <3>1. q # r
      BY <1>1, <1>3, <1>4, <2>2
    <3>2. /\ run[q].at = "upsert" /\ run'[q].counts = run[q].counts
          /\ run'[q].job = run[q].job
      BY <1>2, <1>3, <2>2, <3>1
    <3> QED  BY <1>0, <2>1, <3>2
  <2> QED  BY <1>0, <2>1, <2>2 DEF Stamped
<1> QED  BY <1>5, <1>6, <1>7, <1>8, <1>9 DEF AnalyticsInv

LEMMA FindStep ==
    ASSUME AnalyticsInv, NEW r \in Runs, Analytics!Find(r)
    PROVE  AnalyticsInv'
<1> DEFINE found == {j \in Jobs : job[j].status = "published" /\ job[j].connected}
           todo == {[job |-> j, post |-> job[j].post] : j \in found}
           x == [run[r] EXCEPT !.at = "loop", !.todo = todo]
<1>0. /\ run[r].at = "find" /\ UNCHANGED <<job, metric, reactions, asked, bounds>>
      /\ run' = [run EXCEPT ![r].at = "loop", ![r].todo = todo] \/ Analytics!End(r, "failed")
  BY DEF Analytics!Find
<1>1. CASE Analytics!End(r, "failed")
  BY <1>0, <1>1, EndStep
<1>2. CASE run' = [run EXCEPT ![r].at = "loop", ![r].todo = todo]
  <2>1. /\ run[r] \in Analytics!Run /\ run \in [Runs -> Analytics!Run]
        /\ run[r].status = "running"
    BY <1>0, AnalyticsFacts DEF RunTrue
  <2>2. run' = [run EXCEPT ![r] = x]
    BY <1>2, <2>1
  <2>3. \A j \in Jobs : job[j].post \in Nat /\ job[j].post \in 1 .. Len(reactions[j])
    BY AnalyticsFacts
  <2>4. /\ todo \in SUBSET [job : Jobs, post : Nat]
        /\ \A t \in todo : t.post \in 1 .. Len(reactions[t.job])
        /\ \A t, u \in todo : t.job = u.job => t = u
        /\ \A t \in todo : t.job \in Jobs /\ t.post = job[t.job].post
    BY <2>3
  <2> HIDE DEF todo
  <2>5. /\ x \in Analytics!Run /\ x.at = "loop" /\ x.todo = todo /\ x.alone = run[r].alone
        /\ x.status = "running"
    BY <2>1, <2>4 DEF Analytics!Run
  <2> HIDE DEF x
  <2>6. \A t \in todo : metric[t.job].row => metric[t.job].post <= t.post
    <3> SUFFICES ASSUME NEW t \in todo, metric[t.job].row
                 PROVE  metric[t.job].post <= t.post
      OBVIOUS
    <3>1. t.job \in Jobs /\ t.post = Len(reactions[t.job]) /\ Len(reactions[t.job]) \in Nat
      BY <2>4, AnalyticsFacts
    <3>2. metric[t.job].post \in 1 .. Len(reactions[t.job])
      BY <3>1, AnalyticsFacts DEF RowTrue
    <3> QED  BY <3>1, <3>2
  <2>7. RunTrue(x) /\ Newer(x)
    BY <2>4, <2>5, <2>6 DEF RunTrue, Newer
  <2> QED  BY <1>0, <2>2, <2>5, <2>7, AskedSame, RunStep
<1> QED  BY <1>0, <1>1, <1>2

\* A run that has its answer, and one that has written it.
Fetched(y, t, row) ==
    [y EXCEPT !.at = "upsert", !.todo = @ \ {t}, !.job = t.job, !.post = t.post, !.counts = row]

LEMMA FetchedTyped ==
    ASSUME NEW y \in Analytics!Run, NEW row \in Analytics!Metric,
           NEW t, t.job \in Jobs, t.post \in Nat
    PROVE  LET x == Fetched(y, t, row)
           IN /\ x \in Analytics!Run /\ x.at = "upsert" /\ x.todo = y.todo \ {t} /\ x.job = t.job
              /\ x.post = t.post /\ x.counts = row /\ x.alone = y.alone /\ x.status = y.status
  BY DEF Analytics!Run, Fetched

LEMMA WrittenTyped ==
    ASSUME NEW y \in Analytics!Run
    PROVE  LET x == [y EXCEPT !.at = "loop", !.job = NoJob, !.post = 0,
                              !.counts = Analytics!NoMetric]
           IN /\ x \in Analytics!Run /\ x.at = "loop" /\ x.todo = y.todo /\ x.alone = y.alone
              /\ x.status = y.status
<1>1. Analytics!NoMetric \in Analytics!Metric
  BY DEF Analytics!NoMetric, Analytics!Metric, Analytics!Fields, Analytics!CanonicalMetrics
<1> QED  BY <1>1 DEF Analytics!Run

\* FetchRaw: the row in hand is what the platform tells of the post now, the last
\* that it told of the job's.
LEMMA FetchStep ==
    ASSUME AnalyticsInv, NEW r \in Runs, Analytics!FetchRaw(r)
    PROVE  AnalyticsInv'
<1> DEFINE y == run[r]
<1>0. /\ y \in Analytics!Run /\ y.at = "loop" /\ RunTrue(y) /\ Newer(y) /\ y.status = "running"
      /\ UNCHANGED <<job, metric, reactions, bounds>> /\ run \in [Runs -> Analytics!Run]
  BY AnalyticsFacts DEF Analytics!FetchRaw, RunTrue
<1>1. PICK t \in y.todo :
        \/ /\ \E entry \in {Analytics!Entry(t, raw) : raw \in Analytics!Answers(t)} :
                 run' = [run EXCEPT ![r].at = "upsert", ![r].todo = @ \ {t},
                                    ![r].job = t.job, ![r].post = t.post,
                                    ![r].counts = entry]
           /\ asked' = [asked EXCEPT ![t.job] = @ + 1]
        \/ run' = [run EXCEPT ![r].todo = @ \ {t}] /\ asked' = asked
  BY DEF Analytics!FetchRaw
<1>2. t.job \in Jobs /\ t.post \in Nat /\ t.post \in 1 .. Len(reactions[t.job])
  BY <1>0, <1>1 DEF RunTrue, Analytics!Run
<1>3. /\ \A u \in y.todo \ {t} : u.post \in 1 .. Len(reactions[u.job]) /\ u.job # t.job
      /\ \A u, v \in y.todo \ {t} : u.job = v.job => u = v
      /\ y.alone => \A u \in y.todo : metric[u.job].row => metric[u.job].post <= u.post
  BY <1>0 DEF RunTrue, Newer
<1>4. CASE run' = [run EXCEPT ![r].todo = @ \ {t}] /\ asked' = asked
  <2> DEFINE x == [y EXCEPT !.todo = @ \ {t}]
  <2>1. run' = [run EXCEPT ![r] = x]
    BY <1>0, <1>4
  <2> HIDE DEF y
  <2>2. /\ x \in Analytics!Run /\ x.at = "loop" /\ x.todo = y.todo \ {t} /\ x.alone = y.alone
        /\ x.status = y.status
    BY <1>0 DEF Analytics!Run
  <2> HIDE DEF x
  <2>3. RunTrue(x) /\ Newer(x)
    BY <1>0, <1>3, <2>2 DEF RunTrue, Newer
  <2> QED  BY <1>0, <1>4, <2>1, <2>2, <2>3, AskedSame, RunStep DEF y
<1>5. ASSUME NEW entry \in {Analytics!Entry(t, raw) : raw \in Analytics!Answers(t)},
             run' = [run EXCEPT ![r].at = "upsert", ![r].todo = @ \ {t},
                                ![r].job = t.job, ![r].post = t.post, ![r].counts = entry],
             asked' = [asked EXCEPT ![t.job] = @ + 1]
      PROVE  AnalyticsInv'
  <2> DEFINE p == job[t.job].platform
             all == reactions[t.job][t.post]
             x == Fetched(y, t, entry)
  <2>1. PICK missing \in Analytics!Optional(t), n \in Analytics!Left(t) :
          entry = Analytics!Entry(t, Analytics!Answer(t, n, missing))
    BY <1>5 DEF Analytics!Answers
  <2> DEFINE raw == Answered(p, n, missing)
             row == Analytics!NormalizeMetrics(p, raw)
  <2>2. p \in PlatformNames /\ all \in Reactions
    BY <1>2, AnalyticsFacts
  <2>3. n \in Reactions /\ \A k \in Analytics!Kind : n[k] <= all[k]
    <3>1. n \in [Analytics!Kind -> 0 .. MaxReactions] /\ \A k \in Analytics!Kind : n[k] <= all[k]
      BY <2>1 DEF Analytics!Left
    <3> QED  BY <3>1, PostMetricsAssumption DEF Reactions
  <2>4. Analytics!Answer(t, n, missing) = raw
    BY DEF Analytics!Answer, Answered
  <2>5. Normalized(p, n, raw)
    BY <2>2, <2>3, PlatformTold DEF Reactions
  <2>6. Analytics!EngagementIn(t, raw) = EngagementOf(row)
    BY <2>2, <2>5, SeenTold
  <2>7. asked[t.job] \in Nat
    BY <1>2, AnalyticsFacts
  <2>8. /\ entry.row /\ entry.counts = row /\ entry.post = t.post
        /\ entry.seen = EngagementOf(row) /\ entry.asked = asked[t.job] + 1
        /\ entry = [row |-> TRUE, counts |-> row, post |-> t.post, seen |-> EngagementOf(row),
                    asked |-> asked[t.job] + 1]
    BY <2>1, <2>4, <2>6 DEF Analytics!Entry
  <2>9. row \in Counts /\ AtMost(row, Told(p, n))
    BY <2>5 DEF Normalized
  <2>10. AtMost(Told(p, n), Told(p, all)) /\ Told(p, n) \in Counts /\ Told(p, all) \in Counts
    BY <2>2, <2>3, ToldGrows, ToldTyped DEF Reactions
  <2>11. run' = [run EXCEPT ![r] = x]
    BY <1>0, <1>5 DEF Fetched
  <2> HIDE DEF p, all, raw, row
  <2>12. AtMost(row, Told(p, all))
    <3> SUFFICES ASSUME NEW k \in Fields
                 PROVE  row[k] <= Told(p, all)[k]
      BY DEF AtMost
    <3>1. row[k] \in Nat /\ Told(p, n)[k] \in Nat /\ Told(p, all)[k] \in Nat
      BY <2>9, <2>10 DEF Counts
    <3>2. row[k] <= Told(p, n)[k] /\ Told(p, n)[k] <= Told(p, all)[k]
      BY <2>9, <2>10 DEF AtMost
    <3> QED  BY <3>1, <3>2
  <2>13. EngagementOf(row) \in Nat
    <3>1. /\ row.likes \in Nat /\ row.comments \in Nat /\ row.shares \in Nat
          /\ row.clicks \in Nat
      BY <2>9 DEF Counts, Fields
    <3> QED  BY <3>1 DEF EngagementOf
  <2>14. entry \in Analytics!Metric
    <3>1. asked[t.job] + 1 \in Nat
      BY <2>7
    <3> QED  BY <1>2, <2>8, <2>9, <2>13, <3>1 DEF Analytics!Metric, Analytics!Fields, Counts, Fields
  <2>15. RowTrue(entry, job[t.job].platform, reactions[t.job])
    BY <1>2, <2>8, <2>12 DEF RowTrue, p, all
  <2> HIDE DEF y
  <2>16. /\ x \in Analytics!Run /\ x.at = "upsert" /\ x.todo = y.todo \ {t} /\ x.job = t.job
         /\ x.post = t.post /\ x.counts = entry /\ x.alone = y.alone /\ x.status = y.status
    BY <1>0, <1>2, <2>14, FetchedTyped
  <2> HIDE DEF x
  <2>17. RunTrue(x)
    BY <1>0, <1>2, <1>3, <2>8, <2>15, <2>16 DEF RunTrue
  <2>18. metric[t.job].asked <= entry.asked
    <3>1. metric[t.job].asked <= asked[t.job] /\ metric[t.job].asked \in Nat
      BY <1>2, AnalyticsFacts DEF AnalyticsInv, Stamped, Analytics!Metric
    <3> QED  BY <2>7, <2>8, <3>1
  <2>19. Newer(x)
    BY <1>1, <1>3, <2>16, <2>18 DEF Newer
  <2>20. /\ asked' \in [Jobs -> Nat] /\ asked'[t.job] = entry.asked
         /\ \A j \in Jobs : asked[j] <= asked'[j]
    <3>1. asked \in [Jobs -> Nat]
      BY AnalyticsFacts
    <3>2. \A j \in Jobs : asked[j] \in Nat
      BY <3>1
    <3> QED  BY <1>2, <1>5, <2>8, <3>1, <3>2
  <2>21. x.counts.asked <= asked'[x.job]
    <3>1. entry.asked \in Nat
      BY <2>7, <2>8
    <3> QED  BY <2>16, <2>20, <3>1
  <2> QED  BY <1>0, <2>11, <2>16, <2>17, <2>19, <2>20, <2>21, RunStep DEF y
<1> QED  BY <1>1, <1>4, <1>5

\* Upsert: what was known of the post is not newer than what is written, unless
\* another run is under way.
LEMMA UpsertStep ==
    ASSUME AnalyticsInv, NEW r \in Runs, Analytics!Upsert(r)
    PROVE  AnalyticsInv'
<1> DEFINE y == run[r]
           j == y.job
           x == [y EXCEPT !.at = "loop", !.job = NoJob, !.post = 0, !.counts = Analytics!NoMetric]
<1>0. /\ y \in Analytics!Run /\ y.at = "upsert" /\ RunTrue(y) /\ run \in [Runs -> Analytics!Run]
      /\ job' = job /\ reactions' = reactions /\ asked' = asked /\ bounds' = bounds
      /\ metric' \in {metric, [metric EXCEPT ![j] = y.counts]}
  BY AnalyticsFacts DEF Analytics!Upsert
<1>1. run' = [run EXCEPT ![r] = x]
  BY <1>0 DEF Analytics!Upsert
<1>2. /\ j \in Jobs /\ y.counts \in Analytics!Metric
      /\ RowTrue(y.counts, job[j].platform, reactions[j])
      /\ y.status = "running" /\ y.counts.asked <= asked[j]
      /\ \A u \in y.todo : u.job \in Jobs /\ u.job # j
  BY <1>0 DEF RunTrue, Analytics!Run, AnalyticsInv, Stamped
<1>3. /\ metric' \in [Jobs -> Analytics!Metric]
      /\ \A i \in Jobs : metric'[i] = metric[i] \/ (i = j /\ metric'[i] = y.counts)
  BY <1>0, <1>2, AnalyticsFacts
<1>4. /\ x \in Analytics!Run /\ x.at = "loop" /\ x.todo = y.todo /\ x.alone = y.alone
      /\ x.status = y.status
  BY <1>0, WrittenTyped
<1>5. /\ run' \in [Runs -> Analytics!Run] /\ run'[r] = x
      /\ \A q \in Runs : q # r => run'[q] = run[q]
  BY <1>0, <1>1, <1>4
<1> HIDE DEF x
<1>6. Analytics!TypeOK'
  BY <1>0, <1>3, <1>5, AnalyticsFacts DEF Analytics!TypeOK, Reactions
<1>7. PostsKnown'
  BY <1>0, AnalyticsFacts DEF PostsKnown
<1>8. RowsTrue'
  <2> SUFFICES ASSUME NEW i \in Jobs
               PROVE  RowTrue(metric'[i], job'[i].platform, reactions'[i])
    BY DEF RowsTrue
  <2>1. RowTrue(metric[i], job[i].platform, reactions[i])
    BY AnalyticsFacts
  <2>2. RowTrue(metric'[i], job[i].platform, reactions[i])
    BY <1>2, <1>3, <2>1
  <2> QED  BY <1>0, <2>2
<1>9. ASSUME NEW q \in Runs
      PROVE  RunTrue(run[q])' /\ Newer(run[q])'
  <2>1. CASE q = r
    <3>1. RunTrue(x)
      BY <1>0, <1>2, <1>4 DEF RunTrue
    <3>2. y.alone => \A u \in y.todo : metric'[u.job].row => metric'[u.job].post <= u.post
      <4>1. Newer(y)
        BY AnalyticsFacts
      <4>2. \A u \in y.todo : metric'[u.job] = metric[u.job]
        BY <1>2, <1>3
      <4>3. y.alone => \A u \in y.todo : metric[u.job].row => metric[u.job].post <= u.post
        BY <1>0, <4>1 DEF Newer
      <4> QED  BY <4>2, <4>3
    <3>3. /\ RunTrue(run'[q]) /\ run'[q].at = "loop" /\ run'[q].todo = y.todo
          /\ run'[q].alone = y.alone
      BY <1>4, <1>5, <2>1, <3>1
    <3> QED  BY <1>0, <3>2, <3>3 DEF RunTrue, Newer, RowTrue
  <2>2. CASE q # r
    <3>1. RunTrue(run[q]) /\ run'[q] = run[q]
      BY <1>5, <2>2, AnalyticsFacts
    <3>2. ~(run[q].alone /\ run[q].at # "idle")
      BY <1>0, <2>2 DEF AnalyticsInv, AloneIsAlone
    <3> QED  BY <1>0, <3>1, <3>2 DEF RunTrue, Newer, RowTrue
  <2> QED  BY <2>1, <2>2
<1>10. AloneIsAlone'
  <2> SUFFICES ASSUME NEW a \in Runs, NEW b \in Runs, a # b, run'[a].alone, run'[a].at # "idle"
               PROVE  run'[b].at = "idle"
    BY DEF AloneIsAlone
  <2>1. run[a].alone /\ run[a].at # "idle"
    BY <1>0, <1>4, <1>5
  <2>2. run[b].at = "idle"
    BY <2>1 DEF AnalyticsInv, AloneIsAlone
  <2> QED  BY <1>0, <1>5, <2>2
<1>11. Stamped'
  <2>1. /\ \A i \in Jobs : metric[i].asked <= asked[i]
        /\ \A q \in Runs : run[q].at = "upsert" => run[q].counts.asked <= asked[run[q].job]
    BY DEF AnalyticsInv, Stamped
  <2>2. \A i \in Jobs : metric'[i].asked <= asked[i]
    BY <1>2, <1>3, <2>1
  <2>3. \A q \in Runs : run'[q].at = "upsert" => run'[q] = run[q]
    BY <1>4, <1>5
  <2>4. \A q \in Runs : run'[q].at = "upsert" => run'[q].counts.asked <= asked[run'[q].job]
    BY <2>1, <2>3
  <2> QED  BY <1>0, <2>2, <2>4 DEF Stamped
<1> QED  BY <1>6, <1>7, <1>8, <1>9, <1>10, <1>11 DEF AnalyticsInv

LEMMA AnalyticsStart ==
    ASSUME Analytics!Init
    PROVE  AnalyticsInv
<1>1. PICK a \in Assignments :
        job = [j \in Jobs |-> [status |-> "published", connected |-> TRUE,
                               platform |-> a[j], post |-> 1]]
  BY DEF Analytics!Init
<1>2. /\ metric = [j \in Jobs |-> Analytics!NoMetric] /\ run = [r \in Runs |-> Analytics!NewRun]
      /\ reactions = [j \in Jobs |-> <<Analytics!NoReactions>>]
      /\ asked = [j \in Jobs |-> 0] /\ bounds = [reactions |-> 0, changes |-> 0]
  BY DEF Analytics!Init
<1>3. \A j \in Jobs : a[j] \in PlatformNames /\ a[j] \in Analytics!Networks
  BY <1>1, PostMetricsAssumption DEF PlatformNames, Analytics!Networks
<1>4. /\ Analytics!NoMetric \in Analytics!Metric /\ ~Analytics!NoMetric.row
      /\ Analytics!NoMetric.asked = 0
      /\ Analytics!NoReactions \in Reactions
  BY DEF Analytics!NoMetric, Analytics!Metric, Analytics!Fields, Analytics!CanonicalMetrics,
         Analytics!NoReactions, Reactions
<1>5. \A j \in Jobs : /\ job[j] \in Analytics!Job /\ job[j].platform = a[j] /\ job[j].post = 1
  BY <1>1, <1>3 DEF Analytics!Job
<1>6. <<Analytics!NoReactions>> \in Seq(Reactions) /\ Len(<<Analytics!NoReactions>>) = 1
  BY <1>4
<1>7. Analytics!TypeOK
  <2>1. job \in [Jobs -> Analytics!Job]
    BY <1>1, <1>5
  <2>2. bounds \in [reactions : 0 .. MaxReactions, changes : 0 .. MaxChanges]
    BY <1>2, PostMetricsAssumption
  <2>3. metric \in [Jobs -> Analytics!Metric] /\ run \in [Runs -> Analytics!Run]
    BY <1>2, <1>4, NewRunTyped
  <2>4. reactions \in [Jobs -> Seq(Reactions)] /\ asked \in [Jobs -> Nat]
    BY <1>2, <1>6
  <2> QED  BY <2>1, <2>2, <2>3, <2>4 DEF Analytics!TypeOK, Reactions
<1>8. PostsKnown
  <2>1. \A j \in Jobs : Len(reactions[j]) = 1
    BY <1>2, <1>6
  <2>2. \A j \in Jobs : job[j].platform \in PlatformNames /\ job[j].post = 1
    BY <1>3, <1>5
  <2> SUFFICES ASSUME NEW j \in Jobs
               PROVE  /\ job[j].platform \in PlatformNames
                      /\ job[j].post = Len(reactions[j]) /\ Len(reactions[j]) >= 1
    BY DEF PostsKnown
  <2>3. 1 >= 1
    OBVIOUS
  <2>4. Len(reactions[j]) = 1 /\ job[j].post = 1
    BY <2>1, <2>2
  <2>5. job[j].post = Len(reactions[j]) /\ Len(reactions[j]) >= 1
    BY <2>3, <2>4, Zenon
  <2> QED  BY <2>2, <2>5
<1>9. RowsTrue
  BY <1>2, <1>4 DEF RowsTrue, RowTrue
<1>10. \A r \in Runs : run[r].at = "idle" /\ run[r].todo = {}
  BY <1>2, NewRunTyped
<1>11. \A r \in Runs : RunTrue(run[r]) /\ Newer(run[r])
  BY <1>10 DEF RunTrue, Newer
<1>12. AloneIsAlone
  BY <1>10 DEF AloneIsAlone
<1>13. Stamped
  BY <1>2, <1>4, <1>10 DEF Stamped
<1> QED  BY <1>7, <1>8, <1>9, <1>11, <1>12, <1>13 DEF AnalyticsInv

LEMMA AnalyticsStep ==
    ASSUME AnalyticsInv, [Analytics!Next]_(Analytics!vars)
    PROVE  AnalyticsInv'
<1>1. ASSUME NEW j \in Jobs,
             \/ \E k \in Analytics!Kind : Analytics!React(j, k)
             \/ Analytics!Reconnect(j) \/ Analytics!Requeue(j)
             \/ Analytics!Republish(j) \/ Analytics!Delete(j)
      PROVE  AnalyticsInv'
  BY <1>1, PeopleStep
<1>2. ASSUME NEW r \in Runs, Analytics!Begin(r) \/ Analytics!Find(r)
      PROVE  AnalyticsInv'
  BY <1>2, BeginStep, FindStep
<1>3. ASSUME NEW r \in Runs, Analytics!FetchRaw(r) \/ Analytics!Upsert(r)
      PROVE  AnalyticsInv'
  BY <1>3, FetchStep, UpsertStep
<1>4. ASSUME NEW r \in Runs, Analytics!Finish(r) \/ Analytics!Die(r)
      PROVE  AnalyticsInv'
  <2>1. run[r].at # "idle" /\ UNCHANGED <<job, metric, reactions, asked, bounds>>
    BY <1>4 DEF Analytics!Finish, Analytics!Die
  <2>2. \E status \in {"success", "failed", "running"} : Analytics!End(r, status)
    BY <1>4 DEF Analytics!Finish, Analytics!Die
  <2> QED  BY <2>1, <2>2, EndStep
<1>5. CASE UNCHANGED Analytics!vars
  <2>1. /\ job' = job /\ metric' = metric /\ run' = run /\ reactions' = reactions
        /\ asked' = asked /\ bounds' = bounds
    BY <1>5 DEF Analytics!vars
  <2> QED  BY <2>1 DEF AnalyticsInv, Analytics!TypeOK, PostsKnown, RowsTrue, RowTrue,
                       RunTrue, Newer, AloneIsAlone, Stamped
<1> QED  BY <1>1, <1>2, <1>3, <1>4, <1>5 DEF Analytics!Next

LEMMA AnalyticsOK == Analytics!Spec => []AnalyticsInv
<1>1. Analytics!Init => AnalyticsInv
  BY AnalyticsStart
<1>2. AnalyticsInv /\ [Analytics!Next]_(Analytics!vars) => AnalyticsInv'
  BY AnalyticsStep
<1> QED  BY <1>1, <1>2, PTL DEF Analytics!Spec

\* runIngestion, and what happens to posts meanwhile, keep every variable of
\* Ingestion within its type (ingestion.service.ts).
THEOREM AnalyticsTypeCorrect == Analytics!Spec => []Analytics!TypeOK
<1>1. AnalyticsInv => Analytics!TypeOK
  BY DEF AnalyticsInv
<1> QED  BY <1>1, AnalyticsOK, PTL

\* The normalizers: at any time a row of the overview tells of a post its job has
\* made, of no more than readers ever did to that post, and counts once each
\* reaction that the platform's answer told of, by whatever name and with
\* whichever names left out, all of them included (metric-normalization.ts).
THEOREM RowsAreTrue == Analytics!Spec => []RowsTrue
<1>1. AnalyticsInv => RowsTrue
  BY DEF AnalyticsInv
<1> QED  BY <1>1, AnalyticsOK, PTL

\* What an upsert must not do unless another run was under way.
WentBack(r, j) ==
    /\ run[r].at = "upsert" /\ run'[r].at = "loop" /\ run[r].job = j
    /\ metric[j].row
    /\ metric'[j].post < metric[j].post \/ metric'[j].asked < metric[j].asked

LEMMA NoWayBack ==
    ASSUME AnalyticsInv, [Analytics!Next]_(Analytics!vars),
           NEW r \in Runs, NEW j \in Jobs, run[r].alone
    PROVE  ~WentBack(r, j)
<1> SUFFICES ASSUME WentBack(r, j)
             PROVE  FALSE
  OBVIOUS
<1>0. /\ run[r].at = "upsert" /\ run'[r].at = "loop" /\ run[r].job = j
      /\ metric[j].row
      /\ metric'[j].post < metric[j].post \/ metric'[j].asked < metric[j].asked
  BY DEF WentBack
<1>1. /\ metric[j] \in Analytics!Metric /\ metric \in [Jobs -> Analytics!Metric]
      /\ run[r] \in Analytics!Run /\ run \in [Runs -> Analytics!Run]
  BY AnalyticsFacts
<1>2. metric[j].post \in Nat /\ metric[j].asked \in Nat
  BY <1>1 DEF Analytics!Metric
<1>3. metric' # metric /\ run' # run
  BY <1>0, <1>2
<1>4. PICK q \in Runs : Analytics!Upsert(q)
  <2>1. \E q \in Runs : Analytics!Upsert(q)
    BY <1>3 DEF Analytics!Next, Analytics!vars, Analytics!React, Analytics!Reconnect,
       Analytics!Requeue, Analytics!Republish, Analytics!Delete, Analytics!Begin, Analytics!Find,
       Analytics!FetchRaw, Analytics!Finish, Analytics!Die
  <2> QED  BY <2>1
<1>5. q = r
  BY <1>0, <1>1, <1>4 DEF Analytics!Upsert
<1>6. metric'[j] = run[r].counts
  BY <1>0, <1>1, <1>3, <1>4, <1>5 DEF Analytics!Upsert
<1>7. /\ metric[j].post <= run[r].post /\ metric[j].asked <= run[r].counts.asked
      /\ run[r].counts.post = run[r].post
  <2>1. Newer(run[r]) /\ RunTrue(run[r])
    BY AnalyticsFacts
  <2> QED  BY <1>0, <2>1 DEF Newer, RunTrue
<1>8. metric'[j].post \in Nat /\ metric'[j].asked \in Nat
  BY <1>1, <1>6 DEF Analytics!Run, Analytics!Metric
<1> QED  BY <1>0, <1>2, <1>6, <1>7, <1>8

\* For any number of posts and runs: a row goes back, to a post that was replaced or to
\* an earlier answer of the platform, only by the upsert of a run that was under way
\* together with another (ingestion.service.ts).
THEOREM GoingBackNeedsOverlap == Analytics!Spec => GoesBackOnlyByOverlap
<1>1. AnalyticsInv /\ [Analytics!Next]_(Analytics!vars)
        => [\A r \in Runs, j \in Jobs : WentBack(r, j) => ~run[r].alone]_(Analytics!vars)
  BY NoWayBack
<1>2. [\A r \in Runs, j \in Jobs : WentBack(r, j) => ~run[r].alone]_(Analytics!vars)
        => [\A r \in Runs, j \in Jobs :
              (/\ run[r].at = "upsert" /\ run'[r].at = "loop" /\ run[r].job = j
               /\ metric[j].row
               /\ metric'[j].post < metric[j].post \/ metric'[j].asked < metric[j].asked)
              => ~run[r].alone]_<<metric, run>>
  BY DEF WentBack, Analytics!vars
<1> QED  BY <1>1, <1>2, AnalyticsOK, PTL DEF Analytics!Spec, GoesBackOnlyByOverlap

\* No row outlives its post.
NoGhosts == \A j \in Jobs : metric[j].row => job[j].status # "gone"

LEMMA NoGhostsKept ==
    ASSUME AnalyticsInv, NoGhosts, [Analytics!Next]_(Analytics!vars)
    PROVE  NoGhosts'
<1> SUFFICES ASSUME NEW i \in Jobs, metric'[i].row
             PROVE  job'[i].status # "gone"
  BY DEF NoGhosts
<1>1. /\ job \in [Jobs -> Analytics!Job] /\ metric \in [Jobs -> Analytics!Metric]
      /\ metric[i].row => job[i].status # "gone"
  BY AnalyticsFacts DEF NoGhosts
<1>2. ASSUME NEW j \in Jobs,
             \/ Analytics!Requeue(j) \/ Analytics!Republish(j)
             \/ Analytics!Reconnect(j) \/ \E k \in Analytics!Kind : Analytics!React(j, k)
      PROVE  job'[i].status # "gone"
  <2>1. metric' = metric
    BY <1>2 DEF Analytics!React, Analytics!Reconnect, Analytics!Requeue, Analytics!Republish
  <2>2. CASE \E k \in Analytics!Kind : Analytics!React(j, k)
    BY <1>1, <2>1, <2>2 DEF Analytics!React
  <2>3. CASE Analytics!Requeue(j)
    <3>1. job' = [job EXCEPT ![j].status = "queued"]
      BY <2>3 DEF Analytics!Requeue
    <3> QED  BY <1>1, <2>1, <3>1 DEF Analytics!Job
  <2>4. CASE Analytics!Republish(j)
    <3>1. job' = [job EXCEPT ![j].status = "published", ![j].post = @ + 1]
      BY <2>4 DEF Analytics!Republish
    <3>2. job'[i].status = IF i = j THEN "published" ELSE job[i].status
      BY <1>1, <3>1 DEF Analytics!Job
    <3> QED  BY <1>1, <2>1, <3>2
  <2>5. CASE Analytics!Reconnect(j)
    <3>1. job' = [job EXCEPT ![j].connected = ~@]
      BY <2>5 DEF Analytics!Reconnect
    <3>2. job'[i].status = job[i].status
      BY <1>1, <3>1 DEF Analytics!Job
    <3> QED  BY <1>1, <2>1, <3>2
  <2> QED  BY <1>2, <2>2, <2>3, <2>4, <2>5
<1>3. ASSUME NEW j \in Jobs, Analytics!Delete(j)
      PROVE  job'[i].status # "gone"
  <2>1. i # j
    BY <1>1, <1>3 DEF Analytics!Delete, Analytics!NoMetric
  <2> QED  BY <1>1, <1>3, <2>1 DEF Analytics!Delete
<1>4. ASSUME NEW r \in Runs, Analytics!Upsert(r)
      PROVE  job'[i].status # "gone"
  <2>1. CASE i = run[r].job
    BY <1>1, <1>4, <2>1 DEF Analytics!Upsert
  <2>2. CASE i # run[r].job
    BY <1>1, <1>4, <2>2 DEF Analytics!Upsert
  <2> QED  BY <2>1, <2>2
<1>5. ASSUME NEW r \in Runs,
             \/ Analytics!Begin(r) \/ Analytics!Find(r) \/ Analytics!FetchRaw(r)
             \/ Analytics!Finish(r) \/ Analytics!Die(r)
      PROVE  job'[i].status # "gone"
  <2>1. CASE Analytics!Begin(r)
    BY <1>1, <2>1, Zenon DEF Analytics!Begin
  <2>2. CASE Analytics!Find(r)
    BY <1>1, <2>2, Zenon DEF Analytics!Find
  <2>3. CASE Analytics!FetchRaw(r)
    BY <1>1, <2>3, Zenon DEF Analytics!FetchRaw
  <2>4. CASE Analytics!Finish(r) \/ Analytics!Die(r)
    BY <1>1, <2>4, Zenon DEF Analytics!Finish, Analytics!Die
  <2> QED  BY <1>5, <2>1, <2>2, <2>3, <2>4
<1>6. CASE UNCHANGED Analytics!vars
  BY <1>1, <1>6 DEF Analytics!vars
<1> QED  BY <1>2, <1>3, <1>4, <1>5, <1>6 DEF Analytics!Next

\* A deleted post is in no overview: its row goes with it, and an upsert of a run
\* that had read the post before brings none back (ingestion.service.ts, the
\* foreign key of post_metric).
THEOREM DeletedIsInNone == Analytics!Spec => []NoGhosts
<1>1. Analytics!Init => NoGhosts
  BY DEF Analytics!Init, Analytics!NoMetric, NoGhosts
<1>2. AnalyticsInv /\ NoGhosts /\ [Analytics!Next]_(Analytics!vars) => NoGhosts'
  BY NoGhostsKept
<1> QED  BY <1>1, <1>2, AnalyticsOK, PTL DEF Analytics!Spec

-----------------------------------------------------------------------------
(* Sums and sorted lists over finite sets. *)

\* What holds of a set whenever it holds of its proper subsets holds of every
\* finite set.
LEMMA FiniteInduction ==
    ASSUME NEW S, IsFiniteSet(S), NEW G,
           \A T \in SUBSET S : (\A U \in SUBSET T : U # T => U \in G) => T \in G
    PROVE  \A T \in SUBSET S : T \in G
<1> DEFINE R == StrictSubsetOrdering(S)
           B == (SUBSET S) \ G
<1>1. IsWellFoundedOn(R, SUBSET S)
  BY FS_StrictSubsetOrderingWellFounded, FS_FiniteSubsetsOfFinite
<1> SUFFICES ASSUME B # {}
             PROVE  FALSE
  OBVIOUS
<1>2. B \subseteq SUBSET S
  OBVIOUS
<1> HIDE DEF B, R
<1>3. PICK T \in B : \A U \in B : ~(<<U, T>> \in R)
  BY <1>1, <1>2, WFMin
<1>4. T \in SUBSET S /\ T \notin G
  BY DEF B
<1>5. ASSUME NEW U \in SUBSET T, U # T, U \notin G
      PROVE  FALSE
  <2>1. U \in B
    BY <1>4, <1>5 DEF B
  <2>2. <<U, T>> \in R
    BY <1>4, <1>5 DEF R, StrictSubsetOrdering
  <2> QED  BY <1>3, <2>1, <2>2
<1> QED  BY <1>4, <1>5

Some(T) == CHOOSE x \in T : TRUE

LEMMA SomeIn ==
    ASSUME NEW T, T # {}
    PROVE  Some(T) \in T
  BY DEF Some

\* f is a fold of F over the subsets of S with at most n elements.
Below(S, n) == {T \in SUBSET S : Cardinality(T) <= n}
Folds(f, F, base, S, n) ==
    \A T \in Below(S, n) :
        f[T] = IF T = {} THEN base ELSE F[<<Some(T), f[T \ {Some(T)}]>>]

HasFold(F, D, base, S, n) == \E f \in [Below(S, n) -> D] : Folds(f, F, base, S, n)

LEMMA AllBelow ==
    ASSUME NEW S, IsFiniteSet(S)
    PROVE  Below(S, Cardinality(S)) = SUBSET S
  BY FS_Subset DEF Below

\* The function that a fold over a finite set is defined by exists: by induction
\* over the number of elements.
LEMMA FoldDefined ==
    ASSUME NEW S, IsFiniteSet(S), NEW D, NEW base \in D, NEW F \in [S \X D -> D]
    PROVE  \E f \in [SUBSET S -> D] : Folds(f, F, base, S, Cardinality(S))
<1> DEFINE G == {T \in SUBSET S : HasFold(F, D, base, S, Cardinality(T))}
<1>0. \A T \in SUBSET S : IsFiniteSet(T) /\ Cardinality(T) \in Nat /\ Cardinality(T) <= Cardinality(S)
  BY FS_Subset, FS_CardinalityType
<1>1. \A T \in SUBSET S : Cardinality(T) = 0 <=> T = {}
  BY <1>0, FS_EmptySet
<1>2. ASSUME NEW T \in SUBSET S, NEW x \in T
      PROVE  Cardinality(T \ {x}) = Cardinality(T) - 1
  <2>1. IsFiniteSet(T)
    BY <1>0
  <2> QED  BY <2>1, FS_RemoveElement
<1>3. ASSUME NEW T \in SUBSET S, \A U \in SUBSET T : U # T => U \in G
      PROVE  T \in G
  <2>1. CASE T = {}
    <3> DEFINE f == [U \in Below(S, 0) |-> base]
    <3>1. Cardinality(T) = 0 /\ \A U \in Below(S, 0) : U = {}
      BY <1>0, <1>1, <2>1 DEF Below
    <3>2. f \in [Below(S, 0) -> D] /\ Folds(f, F, base, S, 0)
      BY <3>1 DEF Folds
    <3> HIDE DEF f
    <3> QED  BY <3>1, <3>2 DEF HasFold
  <2>2. CASE T # {}
    <3> DEFINE n == Cardinality(T \ {Some(T)})
    <3>1. n \in Nat /\ Cardinality(T) = n + 1
      BY <1>0, <1>2, <2>2, SomeIn
    <3>2. T \ {Some(T)} \in G
      BY <1>3, <2>2, SomeIn
    <3> HIDE DEF n
    <3>3. PICK f \in [Below(S, n) -> D] : Folds(f, F, base, S, n)
      BY <3>2 DEF n, HasFold
    <3> DEFINE g == [U \in Below(S, n + 1) |->
                        IF U = {} THEN base
                        ELSE IF U \in Below(S, n) THEN f[U]
                        ELSE F[<<Some(U), f[U \ {Some(U)}]>>]]
    <3>4. ASSUME NEW U \in Below(S, n + 1), U # {}
          PROVE  /\ U \ {Some(U)} \in Below(S, n)
                 /\ Some(U) \in S
                 /\ f[U \ {Some(U)}] \in D
                 /\ g[U] = F[<<Some(U), f[U \ {Some(U)}]>>]
      <4>1. Some(U) \in U
        BY <3>4, SomeIn
      <4>2. U \ {Some(U)} \in Below(S, n)
        BY <1>0, <1>2, <3>1, <4>1 DEF Below
      <4>3. U \in Below(S, n) => f[U] = F[<<Some(U), f[U \ {Some(U)}]>>]
        BY <3>3, <3>4 DEF Folds
      <4>4. g[U] = F[<<Some(U), f[U \ {Some(U)}]>>]
        BY <3>4, <4>3
      <4> QED  BY <4>1, <4>2, <4>4 DEF Below
    <3>5. \A U \in Below(S, n) : U \in Below(S, n + 1) /\ g[U] = f[U]
      <4> SUFFICES ASSUME NEW U \in Below(S, n)
                   PROVE  U \in Below(S, n + 1) /\ g[U] = f[U]
        OBVIOUS
      <4>1. U \in Below(S, n + 1)
        BY <1>0, <3>1 DEF Below
      <4>2. U = {} => f[U] = base
        BY <3>3 DEF Folds
      <4> QED  BY <4>1, <4>2
    <3>6. g \in [Below(S, n + 1) -> D]
      <4> SUFFICES ASSUME NEW U \in Below(S, n + 1)
                   PROVE  g[U] \in D
        OBVIOUS
      <4>1. CASE U = {}
        BY <4>1
      <4>2. CASE U # {}
        <5> HIDE DEF g
        <5> QED  BY <3>4, <4>2
      <4> QED  BY <4>1, <4>2
    <3>7. Folds(g, F, base, S, n + 1)
      <4> SUFFICES ASSUME NEW U \in Below(S, n + 1)
                   PROVE  g[U] = IF U = {} THEN base ELSE F[<<Some(U), g[U \ {Some(U)}]>>]
        BY DEF Folds
      <4>1. CASE U = {}
        BY <4>1
      <4>2. CASE U # {}
        <5> HIDE DEF g
        <5> QED  BY <3>4, <3>5, <4>2
      <4> QED  BY <4>1, <4>2
    <3> HIDE DEF g
    <3> QED  BY <3>1, <3>6, <3>7 DEF HasFold
  <2> QED  BY <2>1, <2>2
<1> HIDE DEF G
<1>4. S \in G
  BY <1>3, FiniteInduction
<1>5. PICK f \in [Below(S, Cardinality(S)) -> D] : Folds(f, F, base, S, Cardinality(S))
  BY <1>4 DEF G, HasFold
<1>6. Below(S, Cardinality(S)) = SUBSET S
  BY AllBelow
<1> QED  BY <1>5, <1>6

\* What a sum is, element by element: whichever is taken first.
Sums(f, h, S) ==
    \A T \in SUBSET S :
        /\ f[T] = IF T = {} THEN 0 ELSE h[Some(T)] + f[T \ {Some(T)}]
        /\ SumFunctionOnSet(h, T) = f[T]

LEMMA SumIsFold ==
    ASSUME NEW S, IsFiniteSet(S), NEW h, \A x \in S : h[x] \in Nat
    PROVE  \E f \in [SUBSET S -> Nat] : Sums(f, h, S)
<1> DEFINE F == [x \in S \X Nat |-> h[x[1]] + x[2]]
<1>1. F \in [S \X Nat -> Nat]
  OBVIOUS
<1>2. \A x \in S, n \in Nat : F[<<x, n>>] = h[x] + n
  OBVIOUS
<1> HIDE DEF F
<1>3. PICK f \in [SUBSET S -> Nat] : Folds(f, F, 0, S, Cardinality(S))
  <2>1. 0 \in Nat
    OBVIOUS
  <2> QED  BY <1>1, <2>1, FoldDefined
<1>4. \A T \in SUBSET S : f[T] = IF T = {} THEN 0 ELSE h[Some(T)] + f[T \ {Some(T)}]
  <2> SUFFICES ASSUME NEW T \in SUBSET S, T # {}
               PROVE  f[T] = h[Some(T)] + f[T \ {Some(T)}]
    BY <1>3, AllBelow DEF Folds
  <2>1. f[T] = F[<<Some(T), f[T \ {Some(T)}]>>]
    BY <1>3, AllBelow DEF Folds
  <2> QED  BY <1>2, <2>1, SomeIn
<1>5. ASSUME NEW T \in SUBSET S
      PROVE  SumFunctionOnSet(h, T) = f[T]
  <2> DEFINE Is(g) == g = [s \in SUBSET T |-> IF s = {} THEN 0 ELSE h[Some(s)] + g[s \ {Some(s)}]]
             iter == CHOOSE g : Is(g)
             G == {U \in SUBSET T : iter[U] = f[U]}
  <2>1. SumFunctionOnSet(h, T) = iter[T]
    BY DEF SumFunctionOnSet, FoldFunctionOnSet, MapThenFoldSet, Some
  <2>2. Is([s \in SUBSET T |-> f[s]])
    BY <1>4
  <2>3. Is(iter)
    <3> HIDE DEF Is
    <3> QED  BY <2>2
  <2> HIDE DEF iter
  <2>4. ASSUME NEW U \in SUBSET T, \A V \in SUBSET U : V # U => V \in G
        PROVE  U \in G
    <3>1. U # {} => U \ {Some(U)} \in G
      BY <2>4, SomeIn
    <3>2. iter[U] = IF U = {} THEN 0 ELSE h[Some(U)] + iter[U \ {Some(U)}]
      BY <2>3
    <3> QED  BY <1>4, <3>1, <3>2
  <2>5. IsFiniteSet(T)
    BY FS_Subset
  <2> HIDE DEF G
  <2>6. T \in G
    BY <2>4, <2>5, FiniteInduction
  <2> QED  BY <2>1, <2>6 DEF G
<1> QED  BY <1>4, <1>5 DEF Sums

LEMMA SumRule ==
    ASSUME NEW S, IsFiniteSet(S), NEW h, \A x \in S : h[x] \in Nat
    PROVE  /\ SumFunctionOnSet(h, {}) = 0
           /\ \A T \in SUBSET S :
                /\ SumFunctionOnSet(h, T) \in Nat
                /\ \A x \in T : SumFunctionOnSet(h, T) = h[x] + SumFunctionOnSet(h, T \ {x})
<1>0. PICK f \in [SUBSET S -> Nat] : Sums(f, h, S)
  BY SumIsFold
<1>1. \A T \in SUBSET S :
        /\ f[T] = IF T = {} THEN 0 ELSE h[Some(T)] + f[T \ {Some(T)}]
        /\ SumFunctionOnSet(h, T) = f[T]
  BY <1>0 DEF Sums
<1> DEFINE G == {T \in SUBSET S : \A x \in T : f[T] = h[x] + f[T \ {x}]}
<1>2. ASSUME NEW T \in SUBSET S, \A U \in SUBSET T : U # T => U \in G
      PROVE  T \in G
  <2> SUFFICES ASSUME NEW x \in T
               PROVE  f[T] = h[x] + f[T \ {x}]
    OBVIOUS
  <2> DEFINE c == Some(T)
  <2>1. c \in T /\ f[T] = h[c] + f[T \ {c}]
    BY <1>1, SomeIn
  <2> HIDE DEF c
  <2>2. CASE x = c
    BY <2>1, <2>2
  <2>3. CASE x # c
    <3>1. f[T \ {c}] = h[x] + f[(T \ {c}) \ {x}]
      BY <1>2, <2>1, <2>3
    <3>2. f[T \ {x}] = h[c] + f[(T \ {x}) \ {c}]
      BY <1>2, <2>1, <2>3
    <3>3. (T \ {x}) \ {c} = (T \ {c}) \ {x}
      OBVIOUS
    <3>4. h[x] \in Nat /\ h[c] \in Nat /\ f[(T \ {c}) \ {x}] \in Nat
      BY <1>1, <2>1
    <3> QED  BY <2>1, <3>1, <3>2, <3>3, <3>4
  <2> QED  BY <2>2, <2>3
<1> HIDE DEF G
<1>3. \A T \in SUBSET S : T \in G
  BY <1>2, FiniteInduction
<1>4. \A T \in SUBSET S, x \in S : x \in T => f[T] = h[x] + f[T \ {x}]
  BY <1>3 DEF G
<1>5. SumFunctionOnSet(h, {}) = 0
  BY <1>1
<1>6. ASSUME NEW T \in SUBSET S
      PROVE  /\ SumFunctionOnSet(h, T) \in Nat
             /\ \A x \in T : SumFunctionOnSet(h, T) = h[x] + SumFunctionOnSet(h, T \ {x})
  <2>1. SumFunctionOnSet(h, T) = f[T] /\ f[T] \in Nat
    BY <1>1
  <2>2. ASSUME NEW x \in T
        PROVE  SumFunctionOnSet(h, T) = h[x] + SumFunctionOnSet(h, T \ {x})
    <3>1. f[T] = h[x] + f[T \ {x}]
      BY <1>4
    <3>2. SumFunctionOnSet(h, T \ {x}) = f[T \ {x}]
      BY <1>1
    <3> QED  BY <2>1, <3>1, <3>2
  <2> QED  BY <2>1, <2>2
<1> QED  BY <1>5, <1>6

\* Sums of the same numbers are the same.
LEMMA SumSame ==
    ASSUME NEW S, IsFiniteSet(S), NEW h, NEW h2, \A x \in S : h[x] \in Nat /\ h2[x] = h[x]
    PROVE  SumFunctionOnSet(h, S) = SumFunctionOnSet(h2, S)
<1> DEFINE G == {T \in SUBSET S : SumFunctionOnSet(h, T) = SumFunctionOnSet(h2, T)}
<1>1. ASSUME NEW T \in SUBSET S, \A U \in SUBSET T : U # T => U \in G
      PROVE  T \in G
  <2>1. CASE T = {}
    BY <2>1, SumRule
  <2>2. ASSUME NEW x \in T
        PROVE  T \in G
    <3>1. T \ {x} \in G
      BY <1>1
    <3>2. /\ SumFunctionOnSet(h, T) = h[x] + SumFunctionOnSet(h, T \ {x})
          /\ SumFunctionOnSet(h2, T) = h2[x] + SumFunctionOnSet(h2, T \ {x})
      BY SumRule
    <3> QED  BY <3>1, <3>2
  <2> QED  BY <2>1, <2>2
<1> HIDE DEF G
<1>2. S \in G
  BY <1>1, FiniteInduction
<1> QED  BY <1>2 DEF G

-----------------------------------------------------------------------------
(* Lists in order. *)

\* R leaves no two elements of S apart, and goes on from one to the next.
Ranks(R, S) ==
    /\ \A x, y \in S : <<x, y>> \in R \/ <<y, x>> \in R
    /\ \A x, y, z \in S : <<x, y>> \in R /\ <<y, z>> \in R => <<x, z>> \in R

LEMMA LastExists ==
    ASSUME NEW S, IsFiniteSet(S), S # {}, NEW R, Ranks(R, S)
    PROVE  \E m \in S : \A x \in S : <<x, m>> \in R
<1> DEFINE HasLast(T) == \E m \in T : \A x \in T : <<x, m>> \in R
           G == {T \in SUBSET S : T # {} => HasLast(T)}
<1>1. ASSUME NEW T \in SUBSET S, \A U \in SUBSET T : U # T => U \in G, T # {}
      PROVE  HasLast(T)
  <2>1. PICK x \in T : TRUE
    BY <1>1
  <2>2. <<x, x>> \in R
    BY DEF Ranks
  <2>3. CASE T \ {x} = {}
    <3>1. T = {x}
      BY <2>1, <2>3
    <3> QED  BY <2>1, <2>2, <3>1
  <2>4. CASE T \ {x} # {}
    <3>0. T \ {x} \in G
      BY <1>1, <2>1
    <3>1. PICK m \in T \ {x} : \A y \in T \ {x} : <<y, m>> \in R
      BY <2>4, <3>0
    <3>2. <<x, m>> \in R \/ <<m, x>> \in R
      BY <2>1, <3>1 DEF Ranks
    <3>3. <<m, x>> \in R => \A y \in T \ {x} : <<y, x>> \in R
      BY <2>1, <3>1 DEF Ranks
    <3>4. CASE <<x, m>> \in R
      BY <3>1, <3>4
    <3>5. CASE <<m, x>> \in R
      BY <2>1, <2>2, <3>3, <3>5
    <3> QED  BY <3>2, <3>4, <3>5
  <2> QED  BY <2>3, <2>4
<1> HIDE DEF HasLast
<1>2. \A T \in SUBSET S : (\A U \in SUBSET T : U # T => U \in G) => T \in G
  BY <1>1
<1> HIDE DEF G
<1>3. S \in G
  BY <1>2, FiniteInduction
<1> QED  BY <1>3 DEF G, HasLast

\* Whatever can be ranked can be put in order: the last one after the others.
LEMMA SortedExists ==
    ASSUME NEW S, IsFiniteSet(S), NEW R, Ranks(R, S)
    PROVE  Sorted(S, R) # {}
<1> DEFINE G == {T \in SUBSET S : Sorted(T, R) # {}}
<1>1. ASSUME NEW T \in SUBSET S, \A U \in SUBSET T : U # T => U \in G
      PROVE  Sorted(T, R) # {}
  <2>0. IsFiniteSet(T) /\ Cardinality(T) \in Nat /\ Ranks(R, T)
    BY FS_Subset, FS_CardinalityType DEF Ranks
  <2>1. CASE T = {}
    <3> DEFINE q == [i \in {} |-> i]
    <3>1. 1 .. Cardinality(T) = {}
      BY <2>1, FS_EmptySet
    <3>2. q \in Sorted(T, R)
      BY <3>1 DEF SetToSeqs, Sorted
    <3> QED  BY <3>2
  <2>2. CASE T # {}
    <3>1. PICK m \in T : \A x \in T : <<x, m>> \in R
      BY <2>0, <2>2, LastExists
    <3> DEFINE n == Cardinality(T \ {m})
    <3>2. n \in Nat /\ Cardinality(T) = n + 1
      <4>1. IsFiniteSet(T \ {m}) /\ n = Cardinality(T) - 1
        BY <2>0, <3>1, FS_RemoveElement
      <4>2. n \in Nat
        BY <4>1, FS_CardinalityType
      <4> QED  BY <2>0, <4>1, <4>2
    <3>3. T \ {m} \in G
      BY <1>1, <3>1
    <3> HIDE DEF n
    <3>4. PICK p \in [1 .. n -> T \ {m}] :
            /\ \A i, j \in 1 .. n : i # j => p[i] # p[j]
            /\ \A i, j \in 1 .. n : i < j => <<p[i], p[j]>> \in R
      BY <3>3 DEF Sorted, SetToSeqs, n
    <3> DEFINE q == [i \in 1 .. n + 1 |-> IF i = n + 1 THEN m ELSE p[i]]
    <3>5. \A i \in 1 .. n + 1 : i = n + 1 \/ i \in 1 .. n
      BY <3>2
    <3>6. q \in [1 .. n + 1 -> T]
      BY <3>1, <3>4, <3>5
    <3>7. ASSUME NEW i \in 1 .. n + 1, NEW j \in 1 .. n + 1, i < j
          PROVE  q[i] # q[j] /\ <<q[i], q[j]>> \in R
      <4>1. i \in 1 .. n /\ q[i] = p[i] /\ p[i] \in T \ {m}
        BY <3>2, <3>4, <3>5, <3>7
      <4>2. CASE j = n + 1
        BY <3>1, <4>1, <4>2
      <4>3. CASE j # n + 1
        <5>1. j \in 1 .. n /\ q[j] = p[j]
          BY <3>5, <4>3
        <5> QED  BY <3>4, <3>7, <4>1, <5>1
      <4> QED  BY <4>2, <4>3
    <3> HIDE DEF q
    <3>8. \A i, j \in 1 .. n + 1 : i # j => q[i] # q[j]
      <4> SUFFICES ASSUME NEW i \in 1 .. n + 1, NEW j \in 1 .. n + 1, i # j
                   PROVE  q[i] # q[j]
        OBVIOUS
      <4>1. i < j \/ j < i
        BY <3>2
      <4> QED  BY <3>7, <4>1
    <3>9. q \in SetToSeqs(T)
      BY <3>2, <3>6, <3>8 DEF SetToSeqs
    <3> QED  BY <3>6, <3>7, <3>9 DEF Sorted
  <2> QED  BY <2>1, <2>2
<1>2. \A T \in SUBSET S : (\A U \in SUBSET T : U # T => U \in G) => T \in G
  BY <1>1
<1> HIDE DEF G
<1>3. S \in G
  BY <1>2, FiniteInduction
<1> QED  BY <1>3 DEF G

\* Whichever way ties are broken, the first of a sorted list are the best.
LEMMA FirstOfSorted ==
    ASSUME NEW S, IsFiniteSet(S), NEW R, NEW q \in Sorted(S, R)
    PROVE  TopOf(First(q), S, R)
<1> DEFINE n == Cardinality(S)
           m == Min({TopN, n})
           list == First(q)
           top == Range(list)
<1>1. n \in Nat
  BY FS_CardinalityType
<1>2. /\ q \in [1 .. n -> S]
      /\ \A i, j \in 1 .. n : i # j => q[i] # q[j]
      /\ \A i, j \in 1 .. n : i < j => <<q[i], q[j]>> \in R
  BY DEF Sorted, SetToSeqs
<1>3. \A y \in S : \E j \in 1 .. n : q[j] = y
  <2>1. q \in Injection(1 .. n, S)
    BY <1>2 DEF Injection, IsInjective
  <2>2. Cardinality(1 .. n) = Cardinality(S)
    BY <1>1, FS_Interval
  <2>3. q \in Surjection(1 .. n, S)
    BY <2>1, <2>2, FS_Injection
  <2> QED  BY <2>3 DEF Surjection
<1>4. q \in Seq(S) /\ Len(q) = n
  BY <1>1, <1>2
<1> HIDE DEF n
<1>5. m \in 0 .. n
  BY <1>1, PostMetricsAssumption DEF Min
<1>6. list = [i \in 1 .. m |-> q[i]]
  <2> HIDE DEF m
  <2>1. First(q) = SubSeq(q, 1, m)
    BY <1>4 DEF First, m
  <2> QED  BY <1>1, <1>4, <1>5, <2>1
<1> HIDE DEF m, list
<1>7. /\ DOMAIN list = 1 .. m /\ Len(list) = m /\ top = {q[i] : i \in 1 .. m}
      /\ \A i \in 1 .. m : i \in 1 .. n /\ list[i] = q[i]
  BY <1>1, <1>5, <1>6 DEF Range
<1>8. Cardinality(top) = m
  <2>1. list \in Bijection(1 .. m, top)
    <3>1. list \in [1 .. m -> top] /\ \A i, j \in 1 .. m : list[i] = list[j] => i = j
      BY <1>2, <1>6, <1>7
    <3>2. \A y \in top : \E i \in 1 .. m : list[i] = y
      BY <1>7
    <3> HIDE DEF top
    <3> QED  BY <1>7, <3>1, <3>2 DEF Bijection, Injection, Surjection, IsInjective
  <2> QED  BY <1>1, <1>5, <2>1, FS_CountingElements DEF ExistsBijection
<1> HIDE DEF top
<1>9. top \subseteq S
  BY <1>2, <1>7
<1>10. \A i, j \in DOMAIN list : i < j => <<list[i], list[j]>> \in R
  BY <1>2, <1>7
<1>11. ASSUME NEW x \in top, NEW y \in S \ top
       PROVE  <<x, y>> \in R
  <2>1. PICK i \in 1 .. m : q[i] = x
    BY <1>7
  <2>2. PICK j \in 1 .. n : q[j] = y
    BY <1>3
  <2>3. j \notin 1 .. m
    BY <1>7, <2>2
  <2>4. i \in 1 .. n /\ i < j
    BY <1>1, <1>5, <2>1, <2>2, <2>3
  <2> QED  BY <1>2, <2>1, <2>2, <2>4
<1> QED  BY <1>7, <1>8, <1>9, <1>10, <1>11 DEF TopOf, top, list, m, n

\* What ranks by one thing, and so by another.
LEMMA TopByAnother ==
    ASSUME NEW list, NEW S, NEW R, NEW R2, TopOf(list, S, R),
           \A x, y \in S : <<x, y>> \in R => <<x, y>> \in R2
    PROVE  TopOf(list, S, R2)
<1>1. \A i \in DOMAIN list : list[i] \in S
  BY DEF TopOf, Range
<1> QED  BY <1>1 DEF TopOf

-----------------------------------------------------------------------------
(* The overview: analytics-aggregation.ts, best-time-ranking.ts. *)

\* Every row has counts, and tells of a platform and of what was seen.
RowsTell ==
    /\ IsFiniteSet(Rows)
    /\ \A j \in Rows :
        /\ job[j].platform \in Networks
        /\ metric[j].counts \in Counts
        /\ EngagementOf(metric[j].counts) = metric[j].seen

LEMMA EngagementAdds ==
    ASSUME NEW m \in Counts, NEW m2 \in Counts
    PROVE  /\ EngagementOf(m) \in Nat /\ AddInto(m, m2) \in Counts
           /\ EngagementOf(AddInto(m, m2)) = EngagementOf(m) + EngagementOf(m2)
<1>1. AddInto(m, m2) = [k \in Fields |-> m[k] + m2[k]]
  BY DEF AddInto, Counts
<1>2. /\ AddInto(m, m2) \in Counts
      /\ \A k \in Fields : m[k] \in Nat /\ m2[k] \in Nat /\ AddInto(m, m2)[k] = m[k] + m2[k]
  BY <1>1 DEF Counts
<1> QED  BY <1>2 DEF EngagementOf, Fields

Shares == [Networks -> [postCount : Nat, metrics : Counts]]
Overviews == [totals : Counts, byPlatform : Shares]

LEMMA NoPostsTyped ==
    /\ NoPosts \in Overviews /\ EngagementOf(NoPosts.totals) = 0
    /\ \A p \in Networks : /\ NoPosts.byPlatform[p].postCount = 0
                           /\ EngagementOf(NoPosts.byPlatform[p].metrics) = 0
<1>1. Zero \in Counts /\ EngagementOf(Zero) = 0
  BY DEF Zero, Counts, EngagementOf, Fields
<1> HIDE DEF Zero
<1> QED  BY <1>1 DEF NoPosts, Overviews, Shares

\* One row more.
LEMMA RowAdded ==
    ASSUME RowsTell, NEW j \in Rows, NEW o \in Overviews
    PROVE  LET x == AddRow(j, o)
           IN /\ x \in Overviews
              /\ EngagementOf(x.totals) = metric[j].seen + EngagementOf(o.totals)
              /\ \A p \in Networks :
                  IF p = job[j].platform
                  THEN /\ x.byPlatform[p].postCount = o.byPlatform[p].postCount + 1
                       /\ EngagementOf(x.byPlatform[p].metrics)
                            = metric[j].seen + EngagementOf(o.byPlatform[p].metrics)
                  ELSE x.byPlatform[p] = o.byPlatform[p]
<1> DEFINE x == AddRow(j, o)
           p == job[j].platform
           m == metric[j].counts
           y == o.byPlatform[p]
           z == [postCount |-> y.postCount + 1, metrics |-> AddInto(y.metrics, m)]
<1>1. p \in Networks /\ m \in Counts /\ EngagementOf(m) = metric[j].seen
  BY DEF RowsTell
<1>2. /\ o.totals \in Counts /\ o.byPlatform \in Shares
      /\ y.postCount \in Nat /\ y.metrics \in Counts
  BY <1>1 DEF Overviews, Shares
<1>3. /\ x.totals = AddInto(o.totals, m)
      /\ x.byPlatform = [o.byPlatform EXCEPT ![p] = z]
      /\ x = [totals |-> x.totals, byPlatform |-> x.byPlatform]
  BY <1>1, <1>2 DEF AddRow, Shares
<1> HIDE DEF x, p, m
<1>4. z \in [postCount : Nat, metrics : Counts]
  BY <1>1, <1>2, EngagementAdds
<1>5. /\ EngagementOf(z.metrics) = metric[j].seen + EngagementOf(y.metrics)
      /\ z.postCount = y.postCount + 1
  <2>1. EngagementOf(AddInto(y.metrics, m)) = EngagementOf(y.metrics) + EngagementOf(m)
    BY <1>1, <1>2, EngagementAdds
  <2>2. EngagementOf(y.metrics) \in Nat /\ EngagementOf(m) \in Nat
    BY <1>1, <1>2, EngagementAdds
  <2> QED  BY <1>1, <2>1, <2>2
<1>6. x.totals \in Counts /\ EngagementOf(x.totals) = metric[j].seen + EngagementOf(o.totals)
  BY <1>1, <1>2, <1>3, EngagementAdds
<1> HIDE DEF z
<1>7. /\ x.byPlatform \in Shares /\ x.byPlatform[p] = z
      /\ \A r \in Networks : r # p => x.byPlatform[r] = o.byPlatform[r]
  BY <1>1, <1>2, <1>3, <1>4 DEF Shares
<1>8. x \in Overviews
  BY <1>3, <1>6, <1>7 DEF Overviews
<1> QED  BY <1>1, <1>5, <1>6, <1>7, <1>8 DEF x, p

Of(T, p) == {j \in T : job[j].platform = p}
SeenIn(T) == SumFunctionOnSet([j \in Jobs |-> metric[j].seen], T)

\* o counts the rows of T, each once.
CountsOnce(o, T) ==
    /\ o \in Overviews
    /\ EngagementOf(o.totals) = SeenIn(T)
    /\ \A p \in Networks :
        /\ o.byPlatform[p].postCount = Cardinality(Of(T, p))
        /\ EngagementOf(o.byPlatform[p].metrics) = SeenIn(Of(T, p))

LEMMA SeenTyped ==
    ASSUME RowsTell, NEW j \in Rows
    PROVE  metric[j].seen \in Nat
  BY EngagementAdds DEF RowsTell

LEMMA SeenRule ==
    ASSUME RowsTell, NEW T \in SUBSET Rows
    PROVE  /\ SeenIn({}) = 0 /\ SeenIn(T) \in Nat
           /\ \A j \in T : SeenIn(T) = metric[j].seen + SeenIn(T \ {j})
<1> DEFINE seen == [j \in Jobs |-> metric[j].seen]
<1>1. \A j \in Rows : seen[j] = metric[j].seen /\ seen[j] \in Nat
  BY SeenTyped DEF Rows
<1> HIDE DEF seen
<1>2. IsFiniteSet(Rows)
  BY DEF RowsTell
<1>3. /\ SumFunctionOnSet(seen, {}) = 0
      /\ SumFunctionOnSet(seen, T) \in Nat
      /\ \A x \in T : SumFunctionOnSet(seen, T) = seen[x] + SumFunctionOnSet(seen, T \ {x})
  BY <1>1, <1>2, SumRule
<1> QED  BY <1>1, <1>3 DEF SeenIn, seen

LEMMA OneMore ==
    ASSUME RowsTell, NEW T \in SUBSET Rows, NEW j \in T,
           NEW o, CountsOnce(o, T \ {j})
    PROVE  CountsOnce(AddRow(j, o), T)
<1> DEFINE x == AddRow(j, o)
           q == job[j].platform
<1>0. /\ o \in Overviews /\ EngagementOf(o.totals) = SeenIn(T \ {j})
      /\ \A p \in Networks :
          /\ o.byPlatform[p].postCount = Cardinality(Of(T \ {j}, p))
          /\ EngagementOf(o.byPlatform[p].metrics) = SeenIn(Of(T \ {j}, p))
  BY DEF CountsOnce
<1>1. /\ x \in Overviews
      /\ EngagementOf(x.totals) = metric[j].seen + EngagementOf(o.totals)
      /\ \A p \in Networks :
          IF p = q
          THEN /\ x.byPlatform[p].postCount = o.byPlatform[p].postCount + 1
               /\ EngagementOf(x.byPlatform[p].metrics)
                    = metric[j].seen + EngagementOf(o.byPlatform[p].metrics)
          ELSE x.byPlatform[p] = o.byPlatform[p]
  BY <1>0, RowAdded
<1> HIDE DEF x
<1>2. EngagementOf(x.totals) = SeenIn(T)
  BY <1>0, <1>1, SeenRule
<1>3. ASSUME NEW p \in Networks
      PROVE  /\ x.byPlatform[p].postCount = Cardinality(Of(T, p))
             /\ EngagementOf(x.byPlatform[p].metrics) = SeenIn(Of(T, p))
  <2>1. CASE p # q
    <3>1. Of(T, p) = Of(T \ {j}, p)
      BY <2>1 DEF Of
    <3> QED  BY <1>0, <1>1, <2>1, <3>1
  <2>2. CASE p = q
    <3>1. /\ Of(T, p) \ {j} = Of(T \ {j}, p) /\ j \in Of(T, p)
          /\ Of(T, p) \in SUBSET Rows
      BY <2>2 DEF Of
    <3>2. IsFiniteSet(Of(T, p)) /\ Cardinality(Of(T, p)) \in Nat
      BY <3>1, FS_Subset, FS_CardinalityType DEF RowsTell
    <3>3. Cardinality(Of(T \ {j}, p)) = Cardinality(Of(T, p)) - 1
      <4> DEFINE U == Of(T, p)
      <4>1. IsFiniteSet(U) /\ j \in U /\ Of(T \ {j}, p) = U \ {j}
        BY <3>1, <3>2
      <4> HIDE DEF U
      <4>2. Cardinality(U \ {j}) = Cardinality(U) - 1
        BY <4>1, FS_RemoveElement
      <4> QED  BY <4>1, <4>2 DEF U
    <3>4. SeenIn(Of(T, p)) = metric[j].seen + SeenIn(Of(T \ {j}, p))
      BY <3>1, SeenRule
    <3>5. x.byPlatform[p].postCount = Cardinality(Of(T, p))
      <4>1. x.byPlatform[p].postCount = o.byPlatform[p].postCount + 1
        BY <1>1, <2>2
      <4>2. o.byPlatform[p].postCount = Cardinality(Of(T \ {j}, p))
        BY <1>0
      <4> QED  BY <3>2, <3>3, <4>1, <4>2
    <3>6. EngagementOf(x.byPlatform[p].metrics) = SeenIn(Of(T, p))
      <4>1. EngagementOf(x.byPlatform[p].metrics)
              = metric[j].seen + EngagementOf(o.byPlatform[p].metrics)
        BY <1>1, <2>2
      <4> QED  BY <1>0, <3>4, <4>1
    <3> QED  BY <3>5, <3>6
  <2> QED  BY <2>1, <2>2
<1> QED  BY <1>1, <1>2, <1>3 DEF CountsOnce, x

LEMMA OverviewCounts ==
    ASSUME RowsTell
    PROVE  CountsOnce(FoldSet(AddRow, NoPosts, Rows), Rows)
<1> DEFINE Is(g) == g = [T \in SUBSET Rows |->
                            IF T = {} THEN NoPosts ELSE AddRow(Some(T), g[T \ {Some(T)}])]
           iter == CHOOSE g : Is(g)
           F == [x \in Rows \X Overviews |-> AddRow(x[1], x[2])]
<1>0. IsFiniteSet(Rows)
  BY DEF RowsTell
<1>1. FoldSet(AddRow, NoPosts, Rows) = iter[Rows]
  BY DEF FoldSet, MapThenFoldSet, Some
<1>2. F \in [Rows \X Overviews -> Overviews]
  BY RowAdded
<1>3. \A j \in Rows, o \in Overviews : F[<<j, o>>] = AddRow(j, o)
  OBVIOUS
<1> HIDE DEF F
<1>4. PICK f \in [SUBSET Rows -> Overviews] : Folds(f, F, NoPosts, Rows, Cardinality(Rows))
  BY <1>0, <1>2, NoPostsTyped, FoldDefined
<1>5. ASSUME NEW T \in SUBSET Rows
      PROVE  f[T] = IF T = {} THEN NoPosts ELSE AddRow(Some(T), f[T \ {Some(T)}])
  <2>1. f[T] = IF T = {} THEN NoPosts ELSE F[<<Some(T), f[T \ {Some(T)}]>>]
    BY <1>0, <1>4, AllBelow DEF Folds
  <2>2. T # {} => Some(T) \in Rows /\ f[T \ {Some(T)}] \in Overviews
    BY SomeIn
  <2> QED  BY <1>3, <2>1, <2>2
<1>6. Is(f)
  BY <1>5
<1>7. Is(iter)
  <2> HIDE DEF Is
  <2> QED  BY <1>6
<1> HIDE DEF iter
<1> DEFINE G == {T \in SUBSET Rows : CountsOnce(iter[T], T)}
<1>8. ASSUME NEW T \in SUBSET Rows, \A U \in SUBSET T : U # T => U \in G
      PROVE  CountsOnce(iter[T], T)
  <2>1. CASE T = {}
    <3>1. iter[T] = NoPosts
      BY <1>7, <2>1
    <3>2. \A p \in Networks : Of({}, p) = {}
      BY DEF Of
    <3>3. SeenIn({}) = 0 /\ Cardinality({}) = 0
      BY SeenRule, FS_EmptySet
    <3> QED  BY <2>1, <3>1, <3>2, <3>3, NoPostsTyped DEF CountsOnce
  <2>2. CASE T # {}
    <3> DEFINE j == Some(T)
    <3>1. j \in T /\ iter[T] = AddRow(j, iter[T \ {j}])
      BY <1>7, <2>2, SomeIn
    <3> HIDE DEF j
    <3>2. T \ {j} \in G
      BY <1>8, <3>1
    <3>3. CountsOnce(iter[T \ {j}], T \ {j})
      BY <3>2
    <3> QED  BY <3>1, <3>3, OneMore
  <2> QED  BY <2>1, <2>2
<1>9. \A T \in SUBSET Rows : (\A U \in SUBSET T : U # T => U \in G) => T \in G
  BY <1>8
<1> HIDE DEF G
<1>10. Rows \in G
  BY <1>0, <1>9, FiniteInduction
<1> QED  BY <1>1, <1>10 DEF G

-----------------------------------------------------------------------------
(* What is listed. *)

Seen(j) == metric[j].seen

LEMMA TopPostsTrue ==
    ASSUME RowsTell
    PROVE  /\ TopPosts # {}
           /\ \A list \in TopPosts :
                TopOf(list, Rows, {x \in Rows \X Rows : Seen(x[1]) >= Seen(x[2])})
<1> DEFINE Score(j) == EngagementOf(metric[j].counts)
           R == {x \in Rows \X Rows : Score(x[1]) >= Score(x[2])}
<1>0. IsFiniteSet(Rows)
  BY DEF RowsTell
<1>1. \A j \in Rows : Score(j) = Seen(j) /\ Score(j) \in Nat
  BY SeenTyped DEF RowsTell, Seen
<1>2. R = {x \in Rows \X Rows : Seen(x[1]) >= Seen(x[2])}
  BY <1>1
<1>3. \A i, j \in Rows : <<i, j>> \in R <=> Score(i) >= Score(j)
  OBVIOUS
<1>4. TopPosts = {First(q) : q \in Sorted(Rows, R)}
  BY DEF TopPosts
<1> HIDE DEF Score, R
<1>5. Ranks(R, Rows)
  BY <1>1, <1>3 DEF Ranks
<1>6. Sorted(Rows, R) # {}
  BY <1>0, <1>5, SortedExists
<1>7. \A q \in Sorted(Rows, R) : TopOf(First(q), Rows, R)
  BY <1>0, FirstOfSorted
<1> QED  BY <1>2, <1>4, <1>6, <1>7

LEMMA Products ==
    ASSUME NEW x \in Int, NEW c \in Nat, c > 0
    PROVE  /\ x >= 0 => x * c >= 0
           /\ x > 0 => x * c > 0
           /\ x = 0 => x * c = 0
           /\ x < 0 => x * c < 0
  BY SMT

\* Averages are compared by their products: if a1 / c1 leads a2 / c2 and that one
\* a3 / c3, then the first leads the third.
Lead(a, c, a2, c2) == a * c2 - a2 * c

LEMMA LeadsOn ==
    ASSUME NEW a1 \in Nat, NEW c1 \in Nat, c1 > 0, NEW a2 \in Nat, NEW c2 \in Nat, c2 > 0,
           NEW a3 \in Nat, NEW c3 \in Nat, c3 > 0,
           Lead(a1, c1, a2, c2) >= 0, Lead(a2, c2, a3, c3) >= 0
    PROVE  /\ Lead(a1, c1, a3, c3) \in Int /\ Lead(a1, c1, a3, c3) >= 0
           /\ Lead(a1, c1, a3, c3) = 0
                => Lead(a1, c1, a2, c2) = 0 /\ Lead(a2, c2, a3, c3) = 0
<1> DEFINE u == Lead(a1, c1, a2, c2)
           v == Lead(a2, c2, a3, c3)
           w == Lead(a1, c1, a3, c3)
<1>1. u \in Int /\ v \in Int /\ w \in Int
  BY DEF Lead
<1>2. w * c2 = u * c3 + v * c1
  <2>1. w * c2 = (a1 * c3) * c2 - (a3 * c1) * c2
    BY DEF Lead
  <2>2. u * c3 = (a1 * c2) * c3 - (a2 * c1) * c3
    BY DEF Lead
  <2>3. v * c1 = (a2 * c3) * c1 - (a3 * c2) * c1
    BY DEF Lead
  <2>4. /\ (a1 * c3) * c2 = (a1 * c2) * c3 /\ (a3 * c1) * c2 = (a3 * c2) * c1
        /\ (a2 * c1) * c3 = (a2 * c3) * c1
    BY SMT
  <2>5. /\ (a1 * c3) * c2 \in Int /\ (a3 * c1) * c2 \in Int /\ (a2 * c1) * c3 \in Int
    OBVIOUS
  <2> QED  BY <2>1, <2>2, <2>3, <2>4, <2>5
<1> HIDE DEF u, v, w
<1>3. /\ u >= 0 /\ v >= 0
  BY DEF u, v
<1>4. /\ u * c3 >= 0 /\ (u > 0 => u * c3 > 0) /\ u * c3 \in Int
  BY <1>1, <1>3, Products
<1>5. /\ v * c1 >= 0 /\ (v > 0 => v * c1 > 0) /\ v * c1 \in Int
  BY <1>1, <1>3, Products
<1>6. /\ (w < 0 => w * c2 < 0) /\ (w = 0 => w * c2 = 0) /\ w * c2 \in Int
  BY <1>1, Products
<1>7. w >= 0
  BY <1>1, <1>2, <1>4, <1>5, <1>6
<1>8. w = 0 => u = 0 /\ v = 0
  BY <1>1, <1>2, <1>3, <1>4, <1>5, <1>6
<1> QED  BY <1>1, <1>7, <1>8 DEF u, v, w

LEMMA LeadTurned ==
    ASSUME NEW a \in Nat, NEW c \in Nat, NEW a2 \in Nat, NEW c2 \in Nat
    PROVE  Lead(a, c, a2, c2) \in Int /\ Lead(a2, c2, a, c) = -Lead(a, c, a2, c2)
<1>1. a * c2 \in Int /\ a2 * c \in Int
  OBVIOUS
<1> QED  BY <1>1 DEF Lead

\* The order of the slots: the average, the number of posts, the week.
Ahead(a, c, s, a2, c2, s2) ==
    \/ Lead(a, c, a2, c2) > 0
    \/ Lead(a, c, a2, c2) = 0 /\ (c - c2 > 0 \/ (c - c2 = 0 /\ s <= s2))

LEMMA AheadTotal ==
    ASSUME NEW a \in Nat, NEW c \in Nat, NEW s \in Int,
           NEW a2 \in Nat, NEW c2 \in Nat, NEW s2 \in Int
    PROVE  Ahead(a, c, s, a2, c2, s2) \/ Ahead(a2, c2, s2, a, c, s)
<1>1. Lead(a, c, a2, c2) \in Int /\ Lead(a2, c2, a, c) = -Lead(a, c, a2, c2)
  BY LeadTurned
<1> QED  BY <1>1 DEF Ahead

LEMMA AheadOn ==
    ASSUME NEW a1 \in Nat, NEW c1 \in Nat, c1 > 0, NEW s1 \in Int,
           NEW a2 \in Nat, NEW c2 \in Nat, c2 > 0, NEW s2 \in Int,
           NEW a3 \in Nat, NEW c3 \in Nat, c3 > 0, NEW s3 \in Int,
           Ahead(a1, c1, s1, a2, c2, s2), Ahead(a2, c2, s2, a3, c3, s3)
    PROVE  Ahead(a1, c1, s1, a3, c3, s3)
<1>1. /\ Lead(a1, c1, a2, c2) \in Int /\ Lead(a1, c1, a2, c2) >= 0
      /\ Lead(a2, c2, a3, c3) \in Int /\ Lead(a2, c2, a3, c3) >= 0
  <2>1. Lead(a1, c1, a2, c2) \in Int /\ Lead(a2, c2, a3, c3) \in Int
    BY LeadTurned
  <2> QED  BY <2>1 DEF Ahead
<1>2. /\ Lead(a1, c1, a3, c3) \in Int /\ Lead(a1, c1, a3, c3) >= 0
      /\ Lead(a1, c1, a3, c3) = 0 => Lead(a1, c1, a2, c2) = 0 /\ Lead(a2, c2, a3, c3) = 0
  BY <1>1, LeadsOn, SMTT(20)
<1>3. CASE Lead(a1, c1, a3, c3) > 0
  BY <1>3 DEF Ahead
<1>4. CASE Lead(a1, c1, a3, c3) = 0
  BY <1>2, <1>4 DEF Ahead
<1> QED  BY <1>2, <1>3, <1>4

\* The first slot of x is not outdone by the second.
Average(slot, x) ==
    SeenIn(In(slot, x[1])) * Cardinality(In(slot, x[2]))
        >= SeenIn(In(slot, x[2])) * Cardinality(In(slot, x[1]))

LEMMA BestTimesTrue ==
    ASSUME RowsTell, NEW slot \in [Jobs -> Slots]
    PROVE  LET taken == {slot[j] : j \in Rows} IN
           /\ RankBestTimes(slot) # {}
           /\ \A list \in RankBestTimes(slot) :
                TopOf(list, taken, {x \in taken \X taken : Average(slot, x)})
<1> DEFINE engagement == [j \in Rows |-> EngagementOf(metric[j].counts)]
           Total(s) == SumFunctionOnSet(engagement, In(slot, s))
           Number(s) == Cardinality(In(slot, s))
           Before(s, t) == Ahead(Total(s), Number(s), s, Total(t), Number(t), t)
           taken == {slot[j] : j \in Rows}
           R == {x \in taken \X taken : Before(x[1], x[2])}
           R2 == {x \in taken \X taken : Average(slot, x)}
<1>0. IsFiniteSet(Rows) /\ Rows \subseteq Jobs
  BY DEF RowsTell, Rows
<1>1. RankBestTimes(slot) = {First(q) : q \in Sorted(taken, R)}
  BY DEF RankBestTimes, Ahead, Lead
<1>2. taken \subseteq Slots /\ taken \subseteq Int
  BY <1>0, PostMetricsAssumption
<1>3. IsFiniteSet(taken)
  <2>1. IsFiniteSet(0 .. 7 * 24 - 1)
    <3>1. 0 \in Int /\ 7 * 24 - 1 \in Int
      OBVIOUS
    <3> HIDE DEF taken
    <3> QED  BY <3>1, FS_Interval
  <2> QED  BY <1>2, <2>1, FS_Subset, PostMetricsAssumption
<1>4. ASSUME NEW s
      PROVE  /\ In(slot, s) \in SUBSET Rows /\ IsFiniteSet(In(slot, s))
             /\ Number(s) \in Nat
             /\ Total(s) = SeenIn(In(slot, s)) /\ Total(s) \in Nat
  <2> DEFINE seen == [j \in Jobs |-> metric[j].seen]
  <2>1. In(slot, s) \in SUBSET Rows
    BY DEF In
  <2>2. IsFiniteSet(In(slot, s)) /\ Number(s) \in Nat
    BY <1>0, <2>1, FS_Subset, FS_CardinalityType
  <2>3. \A j \in In(slot, s) : engagement[j] \in Nat /\ seen[j] = engagement[j]
    BY <1>0, <2>1, SeenTyped DEF RowsTell
  <2> HIDE DEF engagement, seen
  <2>4. SumFunctionOnSet(engagement, In(slot, s)) = SumFunctionOnSet(seen, In(slot, s))
    BY <2>2, <2>3, SumSame
  <2>5. SeenIn(In(slot, s)) = SumFunctionOnSet(seen, In(slot, s))
    BY DEF SeenIn, seen
  <2> QED  BY <2>1, <2>2, <2>4, <2>5, SeenRule
<1>5. \A s \in taken : Number(s) > 0
  <2> SUFFICES ASSUME NEW j \in Rows
               PROVE  Number(slot[j]) > 0
    OBVIOUS
  <2>1. j \in In(slot, slot[j])
    BY DEF In
  <2>2. Number(slot[j]) # 0
    BY <1>4, <2>1, FS_EmptySet
  <2>3. Number(slot[j]) \in Nat
    BY <1>4
  <2> HIDE DEF Number
  <2> QED  BY <2>2, <2>3
<1>6. \A s, t \in taken : <<s, t>> \in R <=> Before(s, t)
  OBVIOUS
<1>7. \A s, t \in taken : Total(s) * Number(t) >= Total(t) * Number(s) => <<s, t>> \in R2
  <2> SUFFICES ASSUME NEW s \in taken, NEW t \in taken,
                      Total(s) * Number(t) >= Total(t) * Number(s)
               PROVE  Average(slot, <<s, t>>)
    OBVIOUS
  <2> QED  BY <1>4 DEF Average
<1> HIDE DEF taken, R, R2, Number, Total
<1>8. Ranks(R, taken)
  <2>1. ASSUME NEW s \in taken, NEW t \in taken
        PROVE  <<s, t>> \in R \/ <<t, s>> \in R
    <3>1. Before(s, t) \/ Before(t, s)
      BY <1>2, <1>4, AheadTotal
    <3> QED  BY <1>6, <3>1
  <2>2. ASSUME NEW s \in taken, NEW t \in taken, NEW u \in taken,
               <<s, t>> \in R, <<t, u>> \in R
        PROVE  <<s, u>> \in R
    <3>1. Before(s, t) /\ Before(t, u)
      BY <1>6, <2>2
    <3>2. /\ Total(s) \in Nat /\ Number(s) \in Nat /\ Number(s) > 0 /\ s \in Int
          /\ Total(t) \in Nat /\ Number(t) \in Nat /\ Number(t) > 0 /\ t \in Int
          /\ Total(u) \in Nat /\ Number(u) \in Nat /\ Number(u) > 0 /\ u \in Int
      BY <1>2, <1>4, <1>5
    <3>3. Before(s, u)
      BY <3>1, <3>2, AheadOn
    <3> QED  BY <1>6, <3>3
  <2> QED  BY <2>1, <2>2 DEF Ranks
<1>9. ASSUME NEW s \in taken, NEW t \in taken, <<s, t>> \in R
      PROVE  <<s, t>> \in R2
  <2>1. /\ Total(s) * Number(t) \in Int /\ Total(t) * Number(s) \in Int
    BY <1>4
  <2>2. Before(s, t)
    BY <1>6, <1>9
  <2>3. Total(s) * Number(t) >= Total(t) * Number(s)
    BY <2>1, <2>2 DEF Ahead, Lead
  <2> QED  BY <1>7, <2>3
<1>10. Sorted(taken, R) # {}
  BY <1>3, <1>8, SortedExists
<1>11. ASSUME NEW q \in Sorted(taken, R)
       PROVE  TopOf(First(q), taken, R2)
  <2>1. TopOf(First(q), taken, R)
    BY <1>3, FirstOfSorted
  <2> QED  BY <1>9, <2>1, TopByAnother
<1> QED  BY <1>1, <1>10, <1>11 DEF R2, taken

LEMMA OverviewHolds ==
    ASSUME AnalyticsInv, NoGhosts
    PROVE  OverviewTrue
<1>1. RowsTell
  <2>1. IsFiniteSet(Rows)
    BY FS_Subset, PostMetricsAssumption DEF Rows
  <2>2. ASSUME NEW j \in Rows
        PROVE  /\ job[j].platform \in Networks /\ metric[j].counts \in Counts
               /\ EngagementOf(metric[j].counts) = metric[j].seen
    <3>1. j \in Jobs /\ metric[j].row
      BY DEF Rows
    <3>2. /\ job[j] \in Analytics!Job /\ metric[j] \in Analytics!Metric
          /\ RowTrue(metric[j], job[j].platform, reactions[j])
      BY <3>1, AnalyticsFacts
    <3>3. job[j].platform \in Networks
      BY <3>2 DEF Analytics!Job, Analytics!Networks, Networks
    <3>4. metric[j].counts \in Counts
      BY <3>2 DEF Analytics!Metric, Analytics!Fields, Counts, Fields
    <3> QED  BY <3>1, <3>2, <3>3, <3>4 DEF RowTrue
  <2> QED  BY <2>1, <2>2 DEF RowsTell
<1> DEFINE sums == FoldSet(AddRow, NoPosts, Rows)
           o == AggregateOverview
           seen == [j \in Jobs |-> metric[j].seen]
<1>2. o.totals = sums.totals /\ o.byPlatform = sums.byPlatform /\ o.topPosts = TopPosts
  BY DEF AggregateOverview
<1>3. CountsOnce(sums, Rows)
  BY <1>1, OverviewCounts
<1> HIDE DEF sums, o
<1>4. EngagementOf(o.totals) = SumFunctionOnSet(seen, Rows)
  BY <1>2, <1>3 DEF CountsOnce, SeenIn
<1>5. ASSUME NEW p \in Networks
      PROVE  LET of == {j \in Rows : job[j].platform = p}
             IN /\ o.byPlatform[p].postCount = Cardinality(of)
                /\ EngagementOf(o.byPlatform[p].metrics) = SumFunctionOnSet(seen, of)
  BY <1>2, <1>3 DEF CountsOnce, SeenIn, Of
<1>6. /\ o.topPosts # {}
      /\ \A list \in o.topPosts :
            TopOf(list, Rows, {x \in Rows \X Rows : seen[x[1]] >= seen[x[2]]})
  <2>1. \A j \in Rows : seen[j] = Seen(j)
    BY DEF Rows, Seen
  <2> HIDE DEF seen
  <2>2. {x \in Rows \X Rows : seen[x[1]] >= seen[x[2]]}
          = {x \in Rows \X Rows : Seen(x[1]) >= Seen(x[2])}
    BY <2>1
  <2> QED  BY <1>1, <1>2, <2>2, TopPostsTrue
<1>7. ASSUME NEW slot \in [Jobs -> Slots]
      PROVE  LET taken == {slot[j] : j \in Rows} IN
             /\ RankBestTimes(slot) # {}
             /\ \A list \in RankBestTimes(slot) :
                    TopOf(list, taken, {x \in taken \X taken : Average(slot, x)})
  BY <1>1, BestTimesTrue
<1>8. \A j \in Rows : job[j].status # "gone"
  BY DEF NoGhosts, Rows
<1> QED  BY <1>4, <1>5, <1>6, <1>7, <1>8 DEF OverviewTrue, Average, SeenIn, o, seen

\* aggregateOverview and rankBestTimes, for any number of posts and whatever runs
\* are under way: every reaction that the platforms told of is counted once in the
\* totals and in its platform's share, no post or slot of the week that is left
\* out has outdone one that is listed, and no deleted post is counted
\* (analytics-aggregation.ts, best-time-ranking.ts).
THEOREM OverviewIsTrue == Analytics!Spec => []OverviewTrue
<1>1. AnalyticsInv /\ NoGhosts => OverviewTrue
  BY OverviewHolds
<1> QED  BY <1>1, AnalyticsOK, DeletedIsInNone, PTL

=============================================================================
