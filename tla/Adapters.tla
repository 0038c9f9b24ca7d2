------------------------------ MODULE Adapters ------------------------------
(***************************************************************************)
(* How a post reaches a platform, and how the token to make it is got:     *)
(* publish, publishCarousel, connect and refresh of the five adapters in   *)
(* backend/src/social-accounts/adapters.                                   *)
(*                                                                         *)
(* Each is a straight line of HTTP calls, the same for every image and     *)
(* then a few to close, and the first that fails ends it.  So each is a    *)
(* plan, the kinds of its calls in order, and one action for each kind     *)
(* carries any of them out.  The platform keeps media that are not yet     *)
(* visible, and processes those it has to fetch itself in its own time.    *)
(***************************************************************************)
EXTENDS Naturals, Sequences

CONSTANTS
    Callers,    \* calls of one request, which retries and stalls may overlap
    Platforms,  \* the platforms in question, a subset of PlatformName
    Images,     \* renditions, each at a public URL
    MaxImages,  \* bound: images in a request
    MaxPolls    \* maxAttempts of waitForContainerReady

PlatformName == {"instagram", "facebook", "threads", "x", "linkedin"}

ASSUME AdaptersAssumption ==
    /\ Platforms \subseteq PlatformName
    /\ MaxImages \in Nat \ {0}
    /\ MaxPolls \in Nat \ {0}

VARIABLES
    request,  \* a PublishRequest or CarouselPublishRequest, a code or a token
    call,     \* [Callers -> Call]
    media,    \* external: [Callers -> Seq(Medium)], what each call had created
    posts,    \* external: [Callers -> Seq], what each call made visible
    spent     \* external: the code, or rotating refresh token, was used

vars == <<request, call, media, posts, spent>>

-----------------------------------------------------------------------------
(* The plans.                                                              *)
(*   create    a container, for an image the platform will fetch           *)
(*   wait      poll the container made last until it is processed          *)
(*   fetch     download the rendition from its URL                         *)
(*   register  ask where to put an image                                   *)
(*   put       send its bytes there                                        *)
(*   upload    hand an image over, unpublished                             *)
(*   album     a container of the containers, in order                     *)
(*   post      show the media; photo: show the image itself                *)

InstagramPublish  == [item |-> <<"create", "wait">>, close |-> <<"post">>]
InstagramCarousel == [item |-> <<"create", "wait">>, close |-> <<"album", "wait", "post">>]
ThreadsPublish    == [item |-> <<"create", "wait">>, close |-> <<"post">>]
ThreadsCarousel   == [item |-> <<"create", "wait">>, close |-> <<"album", "wait", "post">>]
LinkedInPublish   == [item |-> <<"register", "fetch", "put">>, close |-> <<"post">>]
LinkedInCarousel  == [item |-> <<"register", "fetch", "put">>, close |-> <<"post">>]
XPublish          == [item |-> <<"fetch", "upload">>, close |-> <<"post">>]
XCarousel         == [item |-> <<"fetch", "upload">>, close |-> <<"post">>]
FacebookPublish   == [item |-> <<>>, close |-> <<"photo">>]
FacebookCarousel  == [item |-> <<"upload">>, close |-> <<"post">>]

Publish ==
    [instagram |-> InstagramPublish, threads |-> ThreadsPublish,
     linkedin |-> LinkedInPublish, x |-> XPublish, facebook |-> FacebookPublish]

Carousel ==
    [instagram |-> InstagramCarousel, threads |-> ThreadsCarousel,
     linkedin |-> LinkedInCarousel, x |-> XCarousel, facebook |-> FacebookCarousel]

\* capabilities().maxCarouselItems.
InstagramCapabilities == [maxCarouselItems |-> 10]
ThreadsCapabilities   == [maxCarouselItems |-> 20]
LinkedInCapabilities  == [maxCarouselItems |-> 20]
XCapabilities         == [maxCarouselItems |-> 4]
FacebookCapabilities  == [maxCarouselItems |-> 10]

Capabilities ==
    [instagram |-> InstagramCapabilities, threads |-> ThreadsCapabilities,
     linkedin |-> LinkedInCapabilities, x |-> XCapabilities,
     facebook |-> FacebookCapabilities]

(* Tokens.                                                                 *)
(*   short     trade the authorization code for a token of short life      *)
(*   pair      trade it, or a refresh token, for an access token and the   *)
(*             next refresh token                                          *)
(*   extend    trade a token for one of its kind that lives long           *)
(*   profile   ask whose the token is; page: ask for the first Page and    *)
(*             its own token, and for the user, at the same time           *)
(* posts: the kind of token that publish has to be given.                  *)

InstagramTokens == [connect |-> <<"short", "extend", "profile">>, refresh |-> <<"extend">>,
                    posts |-> "long"]
ThreadsTokens   == [connect |-> <<"short", "extend", "profile">>, refresh |-> <<"extend">>,
                    posts |-> "long"]
LinkedInTokens  == [connect |-> <<"pair", "profile">>, refresh |-> <<"pair">>,
                    posts |-> "access"]
XTokens         == [connect |-> <<"pair", "profile">>, refresh |-> <<"pair">>,
                    posts |-> "access"]
\* Mutant: the user's token is kept where the Page's is needed.
FacebookTokensOfUser == [connect |-> <<"short", "extend", "profile">>,
                         refresh |-> <<"extend">>, posts |-> "page"]

FacebookTokens  == [connect |-> <<"short", "extend", "page">>, refresh |-> <<"extend">>,
                    posts |-> "page"]

Tokens ==
    [instagram |-> InstagramTokens, threads |-> ThreadsTokens,
     linkedin |-> LinkedInTokens, x |-> XTokens, facebook |-> FacebookTokens]

-----------------------------------------------------------------------------
(* State. *)

\* One image, or a carousel that the caller has checked against the platform.
PostRequest ==
    {r \in [purpose : {"post"}, platform : Platforms,
            images : UNION {[1 .. n -> Images] : n \in 1 .. MaxImages}] :
        Len(r.images) <= Capabilities[r.platform].maxCarouselItems}

TokenRequest == [purpose : {"connect", "refresh"}, platform : Platforms, images : {<<>>}]

Request == PostRequest \cup TokenRequest

Count == Len(request.images)

Plan ==
    IF request.purpose # "post"
    THEN [item |-> <<>>, close |-> Tokens[request.platform][request.purpose]]
    ELSE IF Count = 1 THEN Publish[request.platform] ELSE Carousel[request.platform]

Token == {"code", "refresh", "short", "long", "page", "access"}

\* What connect and refresh are called with.
Given ==
    IF request.purpose = "connect" THEN "code"
    ELSE IF Plan.close[1] = "pair" THEN "refresh"
    ELSE Tokens[request.platform].posts

\* item: the image being handled, Count + 1 once the plan closes; held: the
\* media to be shown, by their index in media; token, named: what a call for
\* tokens has, and whether it knows the account they are for.
Call == [at : {"idle", "running", "returned", "threw"}, item : Nat, step : Nat,
         polls : Nat, held : Seq(Nat), token : Token, named : BOOLEAN]

Medium == [shows : Seq(Images), state : {"empty", "processing", "ready", "broken"}]

Init ==
    /\ request \in Request
    /\ call = [c \in Callers |-> [at |-> "idle", item |-> 1, step |-> 1,
                                  polls |-> 0, held |-> <<>>,
                                  token |-> "code", named |-> FALSE]]
    /\ media = [c \in Callers |-> <<>>]
    /\ posts = [c \in Callers |-> <<>>]
    /\ spent = FALSE

\* The kinds of call in the part of the plan that c is in.
Part(c) == IF call[c].item <= Count THEN Plan.item ELSE Plan.close

AtKind(c, kinds) == call[c].at = "running" /\ Part(c)[call[c].step] \in kinds

LastOf(s) == s[Len(s)]

\* On to the next call with what this one gave; the last of the plan returns.
Advance(c, given) ==
    LET last == call[c].step = Len(Part(c)) IN
    call' = [call EXCEPT ![c] = [given EXCEPT
        !.polls = 0,
        !.step = IF last THEN 1 ELSE @ + 1,
        !.item = IF last THEN @ + 1 ELSE @,
        !.at = IF last /\ call[c].item > Count THEN "returned" ELSE @]]

Holding(c, held) == [call[c] EXCEPT !.held = held]

Throw(c) == call' = [call EXCEPT ![c].at = "threw"]

-----------------------------------------------------------------------------
(* The adapter. *)

\* The adapter is called; a plan without steps for each image closes.
Begin(c) ==
    /\ call[c].at = "idle"
    /\ call' = [call EXCEPT ![c].at = "running",
                            ![c].item = IF Plan.item = <<>> THEN Count + 1 ELSE 1,
                            ![c].token = IF request.purpose = "post" THEN @ ELSE Given]
    /\ UNCHANGED <<request, media, posts, spent>>

\* Not ok, or no connection: nothing happened at the platform.
Refused(c) ==
    /\ call[c].at = "running"
    /\ Throw(c)
    /\ UNCHANGED <<request, media, posts, spent>>

Fetch(c) ==
    /\ AtKind(c, {"fetch"})
    /\ Advance(c, call[c])
    /\ UNCHANGED <<request, media, posts, spent>>

\* The platform makes a medium, and its id is held; or the answer is lost or
\* carries no id.
Make(c, shows, state, held) ==
    /\ media' = [media EXCEPT ![c] = Append(@, [shows |-> shows, state |-> state])]
    /\ Advance(c, Holding(c, held)) \/ Throw(c)
    /\ UNCHANGED <<request, posts, spent>>

NewId(c) == Len(media[c]) + 1

\* Mutant: ids are collected newest first.
CreateReversed(c) ==
    LET image == request.images[call[c].item] IN
    /\ AtKind(c, {"create", "upload", "register"})
    /\ Make(c, IF AtKind(c, {"register"}) THEN <<>> ELSE <<image>>,
            IF AtKind(c, {"create"}) THEN "processing" ELSE IF AtKind(c, {"upload"}) THEN "ready" ELSE "empty",
            <<NewId(c)>> \o call[c].held)

Create(c) ==
    LET image == request.images[call[c].item]
        held == Append(call[c].held, NewId(c))
    IN
    \/ AtKind(c, {"create"}) /\ Make(c, <<image>>, "processing", held)
    \/ AtKind(c, {"upload"}) /\ Make(c, <<image>>, "ready", held)
    \/ AtKind(c, {"register"}) /\ Make(c, <<>>, "empty", held)

Put(c) ==
    /\ AtKind(c, {"put"})
    /\ media' = [media EXCEPT ![c][LastOf(call[c].held)] =
                    [shows |-> <<request.images[call[c].item]>>, state |-> "ready"]]
    /\ Advance(c, call[c]) \/ Throw(c)
    /\ UNCHANGED <<request, posts, spent>>

\* Mutants: the loop gives up waiting and goes on; it never gives up.
PollGoesOn(c) ==
    LET state == media[c][LastOf(call[c].held)].state IN
    /\ AtKind(c, {"wait"})
    /\ \/ state = "ready" /\ Advance(c, call[c])
       \/ state = "broken" /\ Throw(c)
       \/ /\ state = "processing"
          /\ IF call[c].polls + 1 = MaxPolls THEN Advance(c, call[c])
             ELSE call' = [call EXCEPT ![c].polls = @ + 1]
    /\ UNCHANGED <<request, media, posts, spent>>

PollForever(c) ==
    LET state == media[c][LastOf(call[c].held)].state IN
    /\ AtKind(c, {"wait"})
    /\ \/ state = "ready" /\ Advance(c, call[c])
       \/ state = "broken" /\ Throw(c)
       \/ state = "processing" /\ call' = [call EXCEPT ![c].polls = 1 - @]
    /\ UNCHANGED <<request, media, posts, spent>>

\* One turn of waitForContainerReady: FINISHED, ERROR or EXPIRED, or neither.
Poll(c) ==
    LET state == media[c][LastOf(call[c].held)].state IN
    /\ AtKind(c, {"wait"})
    /\ \/ state = "ready" /\ Advance(c, call[c])
       \/ state = "broken" /\ Throw(c)
       \/ /\ state = "processing"
          /\ IF call[c].polls + 1 = MaxPolls THEN Throw(c)
             ELSE call' = [call EXCEPT ![c].polls = @ + 1]
    /\ UNCHANGED <<request, media, posts, spent>>

\* What the held media show, in order.
Shown(c) ==
    LET held == call[c].held IN
    IF Len(held) = 1 THEN media[c][held[1]].shows
    ELSE [k \in DOMAIN held |-> media[c][held[k]].shows[1]]

\* createCarouselContainer.
Album(c) ==
    /\ AtKind(c, {"album"})
    /\ Make(c, Shown(c), "processing", <<NewId(c)>>)

HeldReady(c) == \A k \in DOMAIN call[c].held : media[c][call[c].held[k]].state = "ready"

Visible(c) == IF AtKind(c, {"photo"}) THEN request.images ELSE Shown(c)

\* Mutant: a lost answer is tried again within the adapter.
PostRetries(c) ==
    /\ AtKind(c, {"post", "photo"})
    /\ HeldReady(c)
    /\ Len(posts[c]) < 2
    /\ posts' = [posts EXCEPT ![c] = Append(@, Visible(c))]
    /\ Advance(c, call[c]) \/ UNCHANGED call
    /\ UNCHANGED <<request, media, spent>>

\* The call that makes the post visible; the platform refuses media that it
\* has not finished processing.  The id of the post may not arrive.
Post(c) ==
    /\ AtKind(c, {"post", "photo"})
    /\ HeldReady(c)
    /\ posts' = [posts EXCEPT ![c] = Append(@, Visible(c))]
    /\ Advance(c, call[c]) \/ Throw(c)
    /\ UNCHANGED <<request, media, spent>>

\* The platform has fetched and checked an image, or put an album together.
Process(c) ==
    /\ \E id \in DOMAIN media[c], state \in {"ready", "broken"} :
        /\ media[c][id].state = "processing"
        /\ media' = [media EXCEPT ![c][id].state = state]
    /\ UNCHANGED <<request, call, posts, spent>>

\* A code, and the refresh token of a platform that rotates it, is good for
\* one use, whether or not its answer arrives.
Redeem(c) ==
    /\ AtKind(c, {"short", "pair"})
    /\ ~spent
    /\ spent' = TRUE
    /\ \/ Advance(c, [call[c] EXCEPT !.token = IF AtKind(c, {"pair"}) THEN "access" ELSE "short"])
       \/ Throw(c)
    /\ UNCHANGED <<request, media, posts>>

\* exchangeForLongLivedToken, and a refresh in place.
Extend(c) ==
    /\ AtKind(c, {"extend"})
    /\ Advance(c, [call[c] EXCEPT !.token = IF @ = "short" THEN "long" ELSE @])
    /\ UNCHANGED <<request, media, posts, spent>>

\* fetchProfile; fetchFirstPage with fetchUserId.
Identify(c) ==
    /\ AtKind(c, {"profile", "page"})
    /\ Advance(c, [call[c] EXCEPT !.named = TRUE,
                                  !.token = IF AtKind(c, {"page"}) THEN "page" ELSE @])
    /\ UNCHANGED <<request, media, posts, spent>>

-----------------------------------------------------------------------------

Step(c) ==
    \/ Refused(c) \/ Fetch(c) \/ Create(c) \/ Put(c) \/ Poll(c) \/ Album(c) \/ Post(c)
    \/ Redeem(c) \/ Extend(c) \/ Identify(c)

Next == \E c \in Callers : Begin(c) \/ Step(c) \/ Process(c)

Spec == Init /\ [][Next]_vars

\* fetch settles, if need be by the timeouts it has by default; nothing is
\* assumed of how long the platform processes.
FairSpec == Spec /\ \A c \in Callers : WF_vars(Step(c))

-----------------------------------------------------------------------------
(* Properties. *)

TypeOK ==
    /\ request \in Request
    /\ call \in [Callers -> Call]
    /\ media \in [Callers -> Seq(Medium)]
    /\ posts \in [Callers -> Seq(Seq(Images))]
    /\ spent \in BOOLEAN

\* Whatever becomes visible shows the images that were asked for, all of them
\* and in the order of the carousel, on every platform and whatever became of
\* the media of other attempts.
PostsShowRequest ==
    \A c \in Callers : \A k \in DOMAIN posts[c] : posts[c][k] = request.images

\* "Each child must finish processing before the parent references it", and
\* the parent before it is published: no adapter names a medium to the
\* platform that is not ready.
OnlyReadyMedia == \A c \in Callers : AtKind(c, {"album", "post"}) => HeldReady(c)

\* Every call comes to an end, also when the platform never finishes
\* processing what it was given.
EventuallyAnswered ==
    \A c \in Callers : call[c].at = "running" ~> call[c].at \in {"returned", "threw"}

\* A token that connect or refresh returns is one that publish can post with,
\* and the account that connect names is the one it is for: no platform is
\* left with a token on the way to that, whatever overlaps and gets lost.
TokenPosts ==
    \A c \in Callers : (call[c].at = "returned" /\ request.purpose # "post") =>
        /\ call[c].token = Tokens[request.platform].posts
        /\ request.purpose = "connect" => call[c].named

Outcome == [c \in Callers |->
              IF request.purpose # "post" \/ call[c].at \in {"idle", "running"} THEN "pending"
              ELSE call[c].at]

Contract == INSTANCE PlatformCall
    WITH Asked <- {r.images : r \in Request}, asked <- request.images,
         outcome <- Outcome, shown <- posts

\* The plans keep the contract: a call that fails before its last request has
\* shown nothing, so that trying again cannot post twice, and none shows more
\* than one post.
ImplementsContract == Contract!Spec

=============================================================================
