------------------------------ MODULE Sessions ------------------------------
(***************************************************************************)
(* How one person signs in and stays signed in: passwords, refresh tokens  *)
(* and their rotation (auth.service.ts), the throttle on failed logins     *)
(* (auth-throttle.service.ts), links by e-mail and the password reset      *)
(* (account.service.ts), the second factor (mfa.service.ts), Google's      *)
(* tickets (google-auth.service.ts) and single sign-on (sso.service.ts).   *)
(*                                                                         *)
(* A request stops at every await, and requests overlap.  One that throws  *)
(* or is dropped stops where it is, so failure needs no action of its own. *)
(* Expiry only takes away what may happen and is left out; so are others'  *)
(* accounts, which share nothing with this one but the counter by address. *)
(***************************************************************************)
EXTENDS Integers, FiniteSets

CONSTANTS
    Requests,     \* requests that overlap; each serves many calls
    Tokens,       \* bound: refresh tokens
    Links,        \* bound: password reset links
    Tickets,      \* bound: handoff tickets
    MaxPerEmail,  \* AUTH_THROTTLE_MAX_PER_EMAIL
    MaxPerIp,     \* AUTH_THROTTLE_MAX_PER_IP
    MaxResets,    \* bound: resets of the password
    MaxEnables,   \* bound: times the second factor is turned on
    None          \* no token, link or ticket

ASSUME SessionsAssumption ==
    /\ IsFiniteSet(Requests) /\ Requests # {}
    /\ MaxPerEmail \in Nat \ {0} /\ MaxPerIp \in Nat \ {0}
    /\ MaxResets \in Nat /\ MaxEnables \in Nat
    /\ None \notin Tokens \cup Links \cup Tickets
    /\ Links \cap Tickets = {}

VARIABLES
    token,      \* [Tokens -> Token], the table refresh_token
    link,       \* [Links \cup Tickets -> OneTime], of the table user_token
    user,       \* [mfa, secret], of the row of the user: mfaEnabled, and whether
                \* there is an mfaSecretEnc
    resets,     \* how often the password was reset: which one is current
    codes,      \* [1..MaxEnables -> Code], recovery codes by generation
    enables,    \* how often the second factor was turned on
    challenges, \* challenge tokens: the passwords that were proven
    fails,      \* [email, ip], the counters of this window in Redis
    req         \* [Requests -> Request]

vars == <<token, link, user, resets, codes, enables, challenges, fails, req>>

-----------------------------------------------------------------------------
(* State. *)

\* uses: how often it was rotated (history).  since: the password in force when
\* the person was last authenticated.  late: it comes of a request that overlapped
\* a reset, or of a challenge older than one (history).
Token == [state : {"none", "live", "revoked"}, uses : Nat, since : Nat, late : BOOLEAN]

\* uses: how often it was acted on (history).
OneTime == [state : {"none", "open", "consumed"}, uses : Nat]
Code == [state : {"none", "unused", "used"}, uses : Nat]

At == {"idle", "ip", "find", "compare", "bumpEmail", "bumpIp", "org", "clear", "issue",
       "factor", "burn", "rotate", "revokeAll", "mint", "consume", "hash", "burnTicket",
       "store", "enable", "disable"}

Request == [at : At, arg : Tokens \cup Links \cup Tickets \cup {None}, since : Nat,
            late : BOOLEAN, mfa : BOOLEAN, secret : BOOLEAN, code : Nat, aim : {"login", "disable"}]

Idle == [at |-> "idle", arg |-> None, since |-> 0, late |-> FALSE, mfa |-> FALSE,
         secret |-> FALSE, code |-> 0, aim |-> "login"]

Init ==
    /\ token = [t \in Tokens |-> [state |-> "none", uses |-> 0, since |-> 0, late |-> FALSE]]
    /\ link = [l \in Links \cup Tickets |-> [state |-> "none", uses |-> 0]]
    /\ user = [mfa |-> FALSE, secret |-> FALSE]
    /\ resets = 0
    /\ codes = [g \in 1..MaxEnables |-> [state |-> "none", uses |-> 0]]
    /\ enables = 0
    /\ challenges = {}
    /\ fails = [email |-> 0, ip |-> 0]
    /\ req = [r \in Requests |-> Idle]

-----------------------------------------------------------------------------
(* How a request goes on. *)

Start(r, at) ==
    /\ req[r].at = "idle"
    /\ req' = [req EXCEPT ![r].at = at]

StartWith(r, at, arg) ==
    /\ req[r].at = "idle"
    /\ req' = [req EXCEPT ![r].at = at, ![r].arg = arg]

Go(r, from, to) ==
    /\ req[r].at = from
    /\ req' = [req EXCEPT ![r].at = to]

Redeemed(r, from) ==
    /\ req[r].at = from
    /\ req' = [req EXCEPT ![r].at = "issue", ![r].arg = None]

End(r) == req' = [req EXCEPT ![r] = Idle]

ButRequests == UNCHANGED <<token, link, user, resets, codes, enables, challenges, fails>>
ButTokens == UNCHANGED <<link, user, resets, codes, enables, challenges, fails>>
ButLinks == UNCHANGED <<token, user, resets, codes, enables, challenges, fails>>
ButFails == UNCHANGED <<token, link, user, resets, codes, enables, challenges>>
ButMfa == UNCHANGED <<token, link, resets, challenges, fails>>

-----------------------------------------------------------------------------
(* login. *)

\* assertLoginAllowed: the counters are read, one after the other.
PeekEmail(r) ==
    /\ fails.email < MaxPerEmail
    /\ Start(r, "ip") /\ ButRequests

\* Mutant: only the counter by e-mail is looked at.
PeekIpNot(r) ==
    /\ Go(r, "ip", "find")
    /\ ButRequests

PeekIp(r) ==
    /\ req[r].at = "ip"
    /\ IF fails.ip < MaxPerIp THEN Go(r, "ip", "find") ELSE End(r)
    /\ ButRequests

\* findByEmail: the password and the second factor, as they are now.
FindUser(r) ==
    /\ req[r].at = "find"
    /\ req' = [req EXCEPT ![r].at = "compare", ![r].since = resets, ![r].mfa = user.mfa]
    /\ ButRequests

\* bcrypt.compare with the password that was read.
Compare(r) ==
    /\ \/ Go(r, "compare", "org")
       \/ req[r].at = "compare" /\ req' = [req EXCEPT ![r] = [Idle EXCEPT !.at = "bumpEmail"]]
    /\ ButRequests

BumpEmail(r) ==
    /\ Go(r, "bumpEmail", "bumpIp")
    /\ fails' = [fails EXCEPT !.email = @ + 1]
    /\ ButFails

BumpIp(r) ==
    /\ req[r].at = "bumpIp" /\ End(r)
    /\ fails' = [fails EXCEPT !.ip = @ + 1]
    /\ ButFails

\* assertOrgActive, and then a challenge if the user that was read asks for one.
\* An administrator may suspend the organization and reactivate it at any time;
\* what is signed in stays so.
OrgActive(r) ==
    /\ req[r].at = "org"
    /\ \/ End(r) /\ UNCHANGED challenges
       \/ ~req[r].mfa /\ Go(r, "org", "clear") /\ UNCHANGED challenges
       \/ req[r].mfa /\ End(r) /\ challenges' = challenges \cup {req[r].since}
    /\ UNCHANGED <<token, link, user, resets, codes, enables, fails>>

\* recordLoginSuccess.
Clear(r) ==
    /\ Go(r, "clear", "issue")
    /\ fails' = [fails EXCEPT !.email = 0]
    /\ ButFails

\* The counters are kept by the quarter of an hour.
NextWindow ==
    /\ fails' = [email |-> 0, ip |-> 0]
    /\ UNCHANGED req /\ ButFails

\* issueTokenPair.
Issue(r) ==
    /\ req[r].at = "issue"
    /\ \E t \in Tokens :
        /\ token[t].state = "none"
        /\ token' = [token EXCEPT ![t] =
                [state |-> "live", uses |-> 0, since |-> req[r].since, late |-> req[r].late]]
    /\ End(r) /\ ButTokens

-----------------------------------------------------------------------------
(* refresh and logout. *)

\* A token that was revoked betrays a copy; one that was not is replaced.
Refresh(r) ==
    /\ \E t \in Tokens :
        \/ token[t].state = "revoked" /\ Start(r, "revokeAll")
        \/ /\ token[t].state = "live" /\ req[r].at = "idle"
           /\ req' = [req EXCEPT ![r] = [Idle EXCEPT !.at = "rotate", !.arg = t,
                                         !.since = token[t].since, !.late = token[t].late]]
    /\ ButRequests

\* What only matters of a live token is forgotten.
Revoked(t) ==
    IF t.state = "none" THEN t
    ELSE [state |-> "revoked", uses |-> t.uses, since |-> 0, late |-> FALSE]

RevokeAll(r) ==
    /\ req[r].at = "revokeAll" /\ End(r)
    /\ token' = [t \in Tokens |-> Revoked(token[t])]
    /\ ButTokens

\* Mutant: the token is left as it is until its successor is used.
RotateLater(r) ==
    /\ Redeemed(r, "rotate")
    /\ token' = [token EXCEPT ![req[r].arg].uses = @ + 1]
    /\ ButTokens

\* The row is revoked whatever it is by now.
Rotate(r) ==
    /\ Redeemed(r, "rotate")
    /\ LET t == Revoked(token[req[r].arg])
       IN token' = [token EXCEPT ![req[r].arg] = [t EXCEPT !.uses = @ + 1]]
    /\ ButTokens

Logout(t) ==
    /\ token[t].state = "live"
    /\ token' = [token EXCEPT ![t] = Revoked(@)]
    /\ UNCHANGED req /\ ButTokens

-----------------------------------------------------------------------------
(* requestPasswordReset and resetPassword. *)

\* issueToken is a transaction: it consumes the links it sees, then adds one.
\* Two of them may see the same links.
Supersede(r) ==
    /\ Start(r, "mint")
    /\ link' = [l \in Links \cup Tickets |->
                    IF l \in Links /\ link[l].state = "open"
                    THEN [link[l] EXCEPT !.state = "consumed"] ELSE link[l]]
    /\ ButLinks

Mint(r) ==
    /\ req[r].at = "mint" /\ End(r)
    /\ \E l \in Links :
        /\ link[l].state = "none"
        /\ link' = [link EXCEPT ![l].state = "open"]
    /\ ButLinks

\* consumeToken: it reads, and then updates what is still unconsumed.
ReadLink(r) ==
    /\ \E l \in Links : link[l].state = "open" /\ StartWith(r, "consume", l)
    /\ ButRequests

\* Mutant: the update does not look again.
ConsumeUnguarded(r) ==
    /\ Go(r, "consume", "hash")
    /\ link' = [link EXCEPT ![req[r].arg] = [state |-> "consumed", uses |-> @.uses + 1]]
    /\ ButLinks

Consume(r) ==
    /\ req[r].at = "consume"
    /\ IF link[req[r].arg].state = "open"
       THEN /\ Go(r, "consume", "hash")
            /\ link' = [link EXCEPT ![req[r].arg] = [state |-> "consumed", uses |-> @.uses + 1]]
       ELSE End(r) /\ UNCHANGED link
    /\ ButLinks

\* Who has read the user, a token or a ticket, and goes on to a session.
SigningIn == {"compare", "org", "clear", "issue", "factor", "burn", "rotate", "burnTicket"}

\* Whoever signs in while this reset is made is late.
Overlapping(r) ==
    [q \in Requests |-> IF q = r THEN Idle
                        ELSE [req[q] EXCEPT !.late = @ \/ req[q].at \in SigningIn]]

\* Mutant: only the password is changed.
ResetPasswordOnly(r) ==
    /\ req[r].at = "hash" /\ resets < MaxResets
    /\ resets' = resets + 1
    /\ req' = Overlapping(r)
    /\ UNCHANGED <<token, link, user, codes, enables, challenges, fails>>

\* The new password is hashed; one transaction stores it and ends the sessions.
ResetPassword(r) ==
    /\ req[r].at = "hash" /\ resets < MaxResets
    /\ resets' = resets + 1
    /\ token' = [t \in Tokens |-> Revoked(token[t])]
    /\ req' = Overlapping(r)
    /\ UNCHANGED <<link, user, codes, enables, challenges, fails>>

-----------------------------------------------------------------------------
(* The second factor. *)

\* beginSetup.
BeginSetup(r) ==
    /\ ~user.mfa /\ Start(r, "store")
    /\ ButRequests

StoreSecret(r) ==
    /\ req[r].at = "store" /\ End(r)
    /\ user' = [user EXCEPT !.secret = TRUE]
    /\ UNCHANGED <<codes, enables>> /\ ButMfa

\* enable: a code is verified with the secret that is read.
VerifySetup(r) ==
    /\ ~user.mfa /\ user.secret /\ Start(r, "enable")
    /\ ButRequests

\* One transaction: the flag, the former codes, the new ones.
Enable(r) ==
    /\ enables < MaxEnables
    /\ req[r].at = "enable" /\ End(r)
    /\ user' = [user EXCEPT !.mfa = TRUE]
    /\ enables' = enables + 1
    /\ codes' = [g \in DOMAIN codes |->
                    [codes[g] EXCEPT !.state = IF g = enables + 1 THEN "unused" ELSE "none"]]
    /\ ButMfa

\* verifyChallenge: a challenge serves until it expires, whatever has happened.
VerifyChallenge(r) ==
    /\ req[r].at = "idle" /\ user.mfa
    /\ \E since \in challenges :
        req' = [req EXCEPT ![r] = [Idle EXCEPT !.at = "factor", !.secret = user.secret,
                                   !.since = since, !.late = since < resets]]
    /\ ButRequests

\* disable.
AskDisable(r) ==
    /\ req[r].at = "idle" /\ user.mfa
    /\ req' = [req EXCEPT ![r] = [Idle EXCEPT !.at = "factor", !.secret = user.secret,
                                  !.aim = "disable"]]
    /\ ButRequests

\* Where a second factor leads: sign-in checks the organization, as login does.
Proven(r) == req' = [req EXCEPT ![r].at = IF req[r].aim = "login" THEN "org" ELSE "disable",
                                ![r].secret = FALSE, ![r].code = 0]

\* verifySecondFactor: the code of the app, or a recovery code that looks
\* unused, or neither.
Factor(r) ==
    /\ req[r].at = "factor"
    /\ \/ req[r].secret /\ Proven(r)
       \/ \E g \in DOMAIN codes :
            codes[g].state = "unused" /\ req' = [req EXCEPT ![r].at = "burn", ![r].code = g]
       \/ End(r)
    /\ ButRequests

Burn(r) ==
    /\ req[r].at = "burn"
    /\ IF codes[req[r].code].state = "unused"
       THEN /\ Proven(r)
            /\ codes' = [codes EXCEPT ![req[r].code] = [state |-> "used", uses |-> @.uses + 1]]
       ELSE End(r) /\ UNCHANGED codes
    /\ UNCHANGED <<user, enables>> /\ ButMfa

Disable(r) ==
    /\ req[r].at = "disable" /\ End(r)
    /\ user' = [mfa |-> FALSE, secret |-> FALSE]
    /\ codes' = [g \in DOMAIN codes |-> [codes[g] EXCEPT !.state = "none"]]
    /\ UNCHANGED enables /\ ButMfa

-----------------------------------------------------------------------------
(* Google and the identity provider. *)

\* handleCallback: Google vouches for the e-mail; a ticket goes to the browser.
MintTicket(l) ==
    /\ link[l].state = "none"
    /\ link' = [link EXCEPT ![l].state = "open"]
    /\ UNCHANGED req /\ ButLinks

\* exchangeTicket.
ReadTicket(r) ==
    /\ req[r].at = "idle"
    /\ \E l \in Tickets :
        /\ link[l].state = "open"
        /\ req' = [req EXCEPT ![r] = [Idle EXCEPT !.at = "burnTicket", !.arg = l, !.since = resets]]
    /\ ButRequests

\* The row is consumed whatever it is by now.
BurnTicket(r) ==
    /\ Redeemed(r, "burnTicket")
    /\ link' = [link EXCEPT ![req[r].arg] = [state |-> "consumed", uses |-> @.uses + 1]]
    /\ ButLinks

\* handleCallback of sso.service.ts: a session like any other.
SsoCallback(r) ==
    /\ req[r].at = "idle"
    /\ req' = [req EXCEPT ![r] = [Idle EXCEPT !.at = "issue", !.since = resets]]
    /\ ButRequests

-----------------------------------------------------------------------------

Login(r) ==
    \/ PeekEmail(r) \/ PeekIp(r) \/ FindUser(r) \/ Compare(r) \/ BumpEmail(r) \/ BumpIp(r)
    \/ OrgActive(r) \/ Clear(r) \/ Issue(r)
Rotation(r) == Refresh(r) \/ RevokeAll(r) \/ Rotate(r)
Reset(r) == Supersede(r) \/ Mint(r) \/ ReadLink(r) \/ Consume(r) \/ ResetPassword(r)
Mfa(r) ==
    \/ BeginSetup(r) \/ StoreSecret(r) \/ VerifySetup(r) \/ Enable(r) \/ VerifyChallenge(r)
    \/ AskDisable(r) \/ Factor(r) \/ Burn(r) \/ Disable(r)
Elsewhere(r) == ReadTicket(r) \/ BurnTicket(r) \/ SsoCallback(r)

Next ==
    \/ \E r \in Requests : Login(r) \/ Rotation(r) \/ Reset(r) \/ Mfa(r) \/ Elsewhere(r)
    \/ \E t \in Tokens : Logout(t)
    \/ \E l \in Tickets : MintTicket(l)
    \/ NextWindow

Spec == Init /\ [][Next]_vars

-----------------------------------------------------------------------------
(* Properties. *)

TypeOK ==
    /\ token \in [Tokens -> Token]
    /\ link \in [Links \cup Tickets -> OneTime]
    /\ user \in [mfa : BOOLEAN, secret : BOOLEAN]
    /\ resets \in Nat
    /\ codes \in [1..MaxEnables -> Code]
    /\ enables \in Nat
    /\ challenges \subseteq Nat
    /\ fails \in [email : Nat, ip : Nat]
    /\ req \in [Requests -> Request]

\* A reset link and a recovery code are acted on once, whoever else tries.
SingleUse ==
    /\ \A l \in Links : link[l].uses <= 1
    /\ \A g \in DOMAIN codes : codes[g].uses <= 1

\* A refresh token and a ticket are redeemed once but for requests that overlap:
\* no more often than there are of them.
OverlapBounded ==
    /\ \A t \in Tokens : token[t].uses <= Cardinality(Requests)
    /\ \A l \in Tickets : link[l].uses <= Cardinality(Requests)

\* Failures are counted after the password is compared: requests that overlap
\* exceed the throttle's limits, but by one less than there are of them.
FailuresBounded ==
    /\ fails.email <= MaxPerEmail + Cardinality(Requests) - 1
    /\ fails.ip <= MaxPerIp + Cardinality(Requests) - 1

\* A reset ends the sessions of the former password: one that goes on comes of a
\* request that overlapped the reset.
OnlyLateSurvive ==
    \A t \in Tokens : token[t].state = "live" /\ token[t].since < resets => token[t].late

=============================================================================
