--------------------------- MODULE SessionsProofs ---------------------------
(***************************************************************************)
(* For any number of overlapping requests, tokens, links and limits: what  *)
(* may be used once is used once, what is read before it is used is used   *)
(* at most once for every request there is, the throttle is exceeded by    *)
(* less than their number, and only a request that overlapped a reset      *)
(* keeps a session of the former password.                                 *)
(***************************************************************************)
EXTENDS Sessions, FiniteSetTheorems, TLAPS

-----------------------------------------------------------------------------
(* The strengthening. *)

\* What a request holds while it is at a statement.
Holds ==
    \A r \in Requests :
        /\ req[r].at = "consume" => req[r].arg \in Links
        /\ req[r].at = "rotate" => req[r].arg \in Tokens /\ token[req[r].arg].state # "none"
        /\ req[r].at = "burnTicket" => req[r].arg \in Tickets
        /\ req[r].at = "burn" => req[r].code \in DOMAIN codes

\* What is not used up was never used; what is not minted yet neither.
UnusedIsNew ==
    /\ \A l \in Links \cup Tickets : link[l].state # "consumed" => link[l].uses = 0
    /\ \A g \in DOMAIN codes :
          /\ codes[g].state = "unused" => codes[g].uses = 0
          /\ g > enables => codes[g].state = "none" /\ codes[g].uses = 0
    /\ \A t \in Tokens : token[t].state # "revoked" => token[t].uses = 0

\* Who is on the way to a session.
OnTheWay(r) ==
    \/ req[r].at \in {"compare", "org", "clear", "issue", "rotate", "burnTicket"}
    \/ req[r].at \in {"factor", "burn"} /\ req[r].aim = "login"

\* Whoever read the user before a reset and goes on to a session is late.
OldIsLate == \A r \in Requests : OnTheWay(r) /\ req[r].since < resets => req[r].late

\* The requests that have read a token or a ticket, and those that passed one of
\* the throttle's counters and may yet add to it.
Rotating(t) == {r \in Requests : req[r].at = "rotate" /\ req[r].arg = t}
Burning(l) == {r \in Requests : req[r].at = "burnTicket" /\ req[r].arg = l}
PastEmail == {r \in Requests : req[r].at \in {"ip", "find", "compare", "bumpEmail"}}
PastIp == {r \in Requests : req[r].at \in {"find", "compare", "bumpEmail", "bumpIp"}}

RedeemersBounded ==
    /\ \A t \in Tokens : token[t].uses + Cardinality(Rotating(t)) <= Cardinality(Requests)
    /\ \A l \in Tickets : link[l].uses + Cardinality(Burning(l)) <= Cardinality(Requests)

PassersBounded ==
    /\ fails.email + Cardinality(PastEmail) <= MaxPerEmail + Cardinality(Requests) - 1
    /\ fails.ip + Cardinality(PastIp) <= MaxPerIp + Cardinality(Requests) - 1

Core == TypeOK /\ Holds /\ UnusedIsNew /\ SingleUse

IInv == Core /\ OldIsLate /\ OnlyLateSurvive /\ RedeemersBounded /\ PassersBounded

-----------------------------------------------------------------------------
(* Types. *)

Arg == Tokens \cup Links \cup Tickets \cup {None}

LEMMA IdleType == Idle \in Request
  BY DEF Idle, Request, At

LEMMA RequestTypes == ASSUME Core, Next PROVE req' \in [Requests -> Request]
<1>. USE IdleType DEF Core, TypeOK
<1>1. CASE UNCHANGED req
  BY <1>1
<1>2. ASSUME NEW r \in Requests, End(r) PROVE req' \in [Requests -> Request]
  BY <1>2 DEF End
<1>3. ASSUME NEW r \in Requests, NEW at \in At, req' = [req EXCEPT ![r].at = at]
      PROVE  req' \in [Requests -> Request]
  BY <1>3 DEF Request
<1>4. ASSUME NEW r \in Requests, NEW at \in At, NEW arg \in Arg,
             req' = [req EXCEPT ![r].at = at, ![r].arg = arg]
      PROVE  req' \in [Requests -> Request]
  <2>1. [req[r] EXCEPT !.at = at, !.arg = arg] \in Request
    BY DEF Request, Arg
  <2>2. req' = [req EXCEPT ![r] = [req[r] EXCEPT !.at = at, !.arg = arg]]
    BY <1>4
  <2>. QED  BY <2>1, <2>2
<1>5. ASSUME NEW r \in Requests, NEW row \in Request, req' = [req EXCEPT ![r] = row]
      PROVE  req' \in [Requests -> Request]
  BY <1>5
<1>6. ASSUME NEW r \in Requests, Login(r) PROVE req' \in [Requests -> Request]
  <2>1. CASE FindUser(r)
    <3>1. [req[r] EXCEPT !.at = "compare", !.since = resets, !.mfa = user.mfa] \in Request
      BY DEF Request, At
    <3>2. req' = [req EXCEPT ![r] = [req[r] EXCEPT !.at = "compare", !.since = resets,
                                                   !.mfa = user.mfa]]
      BY <2>1 DEF FindUser
    <3>. QED  BY <1>5, <3>1, <3>2
  <2>2. CASE Compare(r)
    <3>1. [Idle EXCEPT !.at = "bumpEmail"] \in Request
      BY DEF Idle, Request, At
    <3>. QED  BY <1>3, <1>5, <2>2, <3>1 DEF Compare, Go, At
  <2>3. CASE PeekEmail(r) \/ PeekIp(r) \/ BumpEmail(r) \/ BumpIp(r) \/ OrgActive(r) \/ Clear(r)
             \/ Issue(r)
    BY <1>2, <1>3, <2>3
    DEF PeekEmail, PeekIp, BumpEmail, BumpIp, OrgActive, Clear, Issue, Start, Go, At
  <2>. QED  BY <1>6, <2>1, <2>2, <2>3 DEF Login
<1>7. ASSUME NEW r \in Requests, Rotation(r) PROVE req' \in [Requests -> Request]
  <2>1. ASSUME NEW t \in Tokens,
               req' = [req EXCEPT ![r] = [Idle EXCEPT !.at = "rotate", !.arg = t,
                                           !.since = token[t].since, !.late = token[t].late]]
        PROVE  req' \in [Requests -> Request]
    <3>1. token[t].since \in Nat /\ token[t].late \in BOOLEAN
      BY DEF Token
    <3>2. [Idle EXCEPT !.at = "rotate", !.arg = t, !.since = token[t].since,
                       !.late = token[t].late] \in Request
      BY <3>1 DEF Idle, Request, At
    <3>. QED  BY <1>5, <2>1, <3>2
  <2>2. CASE Refresh(r)
    BY <1>3, <2>1, <2>2 DEF Refresh, Start, At
  <2>3. CASE RevokeAll(r)
    BY <1>2, <2>3 DEF RevokeAll
  <2>4. CASE Rotate(r)
    BY <1>4, <2>4 DEF Rotate, Redeemed, At, Arg
  <2>. QED  BY <1>7, <2>2, <2>3, <2>4 DEF Rotation
<1>8. ASSUME NEW r \in Requests, Reset(r) PROVE req' \in [Requests -> Request]
  <2>1. CASE ResetPassword(r)
    <3>1. \A q \in Requests, late \in BOOLEAN : [req[q] EXCEPT !.late = late] \in Request
      BY DEF Request
    <3>2. \A q \in Requests :
              [req[q] EXCEPT !.late = @ \/ req[q].at \in SigningIn] \in Request
      <4>. TAKE q \in Requests
      <4>1. (req[q].late \/ req[q].at \in SigningIn) \in BOOLEAN
        OBVIOUS
      <4>. QED  BY <3>1, <4>1
    <3>. QED  BY <2>1, <3>2 DEF ResetPassword, Overlapping
  <2>2. CASE Supersede(r) \/ Mint(r) \/ Consume(r)
    BY <1>2, <1>3, <2>2 DEF Supersede, Mint, Consume, Start, Go, At
  <2>3. CASE ReadLink(r)
    BY <1>4, <2>3 DEF ReadLink, StartWith, At, Arg
  <2>. QED  BY <1>8, <2>1, <2>2, <2>3 DEF Reset
<1>9. ASSUME NEW r \in Requests, Mfa(r) PROVE req' \in [Requests -> Request]
  <2>1. CASE VerifyChallenge(r)
    <3>1. PICK since \in challenges :
              req' = [req EXCEPT ![r] = [Idle EXCEPT !.at = "factor", !.secret = user.secret,
                                         !.since = since, !.late = since < resets]]
      BY <2>1 DEF VerifyChallenge
    <3>2. (since < resets) \in BOOLEAN /\ since \in Nat /\ user.secret \in BOOLEAN
      OBVIOUS
    <3>3. [Idle EXCEPT !.at = "factor", !.secret = user.secret, !.since = since,
                       !.late = since < resets] \in Request
      BY <3>2 DEF Idle, Request, At
    <3>. QED  BY <1>5, <3>1, <3>3
  <2>2. CASE AskDisable(r)
    <3>1. [Idle EXCEPT !.at = "factor", !.secret = user.secret, !.aim = "disable"] \in Request
      BY DEF Idle, Request, At
    <3>. QED  BY <1>5, <2>2, <3>1 DEF AskDisable
  <2>3. ASSUME Proven(r) PROVE req' \in [Requests -> Request]
    <3>. DEFINE at == IF req[r].aim = "login" THEN "org" ELSE "disable"
    <3>2. req' = [req EXCEPT ![r] = [req[r] EXCEPT !.at = at, !.secret = FALSE, !.code = 0]]
      BY <2>3 DEF Proven
    <3>3. at \in At
      BY DEF At
    <3>. HIDE DEF at, Core, TypeOK
    <3>4. req[r] \in Request
      BY DEF Core, TypeOK
    <3>1. [req[r] EXCEPT !.at = at, !.secret = FALSE, !.code = 0] \in Request
      BY <3>3, <3>4 DEF Request
    <3>. USE DEF Core, TypeOK
    <3>. QED  BY <1>5, <3>1, <3>2
  <2>4. CASE Factor(r)
    <3>1. ASSUME NEW g \in DOMAIN codes, req' = [req EXCEPT ![r].at = "burn", ![r].code = g]
          PROVE  req' \in [Requests -> Request]
      <4>1. g \in Nat
        BY SessionsAssumption
      <4>3. req[r] \in Request /\ "burn" \in At
        BY DEF At
      <4>. HIDE DEF Core, TypeOK
      <4>4. [req[r] EXCEPT !.at = "burn", !.code = g] \in Request
        BY <4>1, <4>3 DEF Request
      <4>. USE DEF Core, TypeOK
      <4>2. req' = [req EXCEPT ![r] = [req[r] EXCEPT !.at = "burn", !.code = g]]
        BY <3>1
      <4>. QED  BY <1>5, <4>2, <4>4
    <3>. QED  BY <1>2, <2>3, <2>4, <3>1 DEF Factor
  <2>5. CASE Burn(r)
    BY <1>2, <2>3, <2>5 DEF Burn
  <2>6. CASE BeginSetup(r) \/ StoreSecret(r) \/ VerifySetup(r) \/ Enable(r) \/ Disable(r)
    BY <1>2, <1>3, <2>6
    DEF BeginSetup, StoreSecret, VerifySetup, Enable, Disable, Start, At
  <2>. QED  BY <1>9, <2>1, <2>2, <2>4, <2>5, <2>6 DEF Mfa
<1>10. ASSUME NEW r \in Requests, Elsewhere(r) PROVE req' \in [Requests -> Request]
  <2>1. CASE ReadTicket(r)
    <3>1. \A l \in Tickets :
              [Idle EXCEPT !.at = "burnTicket", !.arg = l, !.since = resets] \in Request
      BY DEF Idle, Request, At
    <3>. QED  BY <1>5, <2>1, <3>1 DEF ReadTicket
  <2>2. CASE BurnTicket(r)
    BY <1>4, <2>2 DEF BurnTicket, Redeemed, At, Arg
  <2>3. CASE SsoCallback(r)
    <3>1. [Idle EXCEPT !.at = "issue", !.since = resets] \in Request
      BY DEF Idle, Request, At
    <3>. QED  BY <1>5, <2>3, <3>1 DEF SsoCallback
  <2>. QED  BY <1>10, <2>1, <2>2, <2>3 DEF Elsewhere
<1>. QED
  BY <1>1, <1>6, <1>7, <1>8, <1>9, <1>10 DEF Next, Logout, MintTicket, NextWindow

LEMMA RevokedType == \A t \in Token : Revoked(t) \in Token /\ Revoked(t).uses = t.uses
  BY DEF Revoked, Token

\* What becomes of a token: it is left, issued, revoked or redeemed.
LEMMA TokenSteps ==
    ASSUME Core, Next
    PROVE  \/ token' = token
           \/ \E r \in Requests, t \in Tokens :
                /\ Issue(r) /\ token[t].state = "none"
                /\ token' = [token EXCEPT ![t] =
                      [state |-> "live", uses |-> 0, since |-> req[r].since, late |-> req[r].late]]
           \/ \E t \in Tokens : token' = [token EXCEPT ![t] = Revoked(@)] /\ UNCHANGED req
           \/ \E r \in Requests : Rotate(r)
           \/ token' = [t \in Tokens |-> Revoked(token[t])]
<1>1. ASSUME NEW r \in Requests, Login(r)
      PROVE  token' = token \/ \E t \in Tokens :
                /\ Issue(r) /\ token[t].state = "none"
                /\ token' = [token EXCEPT ![t] =
                      [state |-> "live", uses |-> 0, since |-> req[r].since, late |-> req[r].late]]
  BY <1>1 DEF Login, PeekEmail, PeekIp, FindUser, Compare, BumpEmail, BumpIp, OrgActive, Clear,
              Issue, ButRequests, ButFails
<1>2. ASSUME NEW r \in Requests, Rotation(r) \/ Reset(r)
      PROVE  token' = token \/ Rotate(r) \/ token' = [t \in Tokens |-> Revoked(token[t])]
  BY <1>2 DEF Rotation, Reset, Refresh, RevokeAll, Supersede, Mint, ReadLink, Consume,
              ResetPassword, ButRequests, ButLinks
<1>3. ASSUME NEW r \in Requests, Mfa(r) \/ Elsewhere(r)
      PROVE  token' = token
  BY <1>3 DEF Mfa, Elsewhere, BeginSetup, StoreSecret, VerifySetup, Enable, VerifyChallenge,
              AskDisable, Factor, Burn, Disable, ReadTicket, BurnTicket, SsoCallback,
              ButRequests, ButMfa, ButLinks
<1>4. CASE \E l \in Tickets : MintTicket(l)
  BY <1>4 DEF MintTicket, ButLinks
<1>5. CASE NextWindow
  BY <1>5 DEF NextWindow, ButFails
<1>6. CASE \E t \in Tokens : Logout(t)
  BY <1>6 DEF Logout
<1>. QED  BY <1>1, <1>2, <1>3, <1>4, <1>5, <1>6 DEF Next

\* What becomes of a link or a ticket.
LEMMA LinkSteps ==
    ASSUME Next
    PROVE  \/ link' = link
           \/ \E l \in Links \cup Tickets :
                 link[l].state = "none" /\ link' = [link EXCEPT ![l].state = "open"]
           \/ \E r \in Requests : Supersede(r)
           \/ \E r \in Requests : Consume(r) /\ link[req[r].arg].state = "open"
           \/ \E r \in Requests : BurnTicket(r)
<1>1. ASSUME NEW r \in Requests, Login(r) \/ Rotation(r) \/ Mfa(r)
      PROVE  link' = link
  BY <1>1 DEF Login, PeekEmail, PeekIp, FindUser, Compare, BumpEmail, BumpIp, OrgActive, Clear,
              Issue, ButRequests, ButFails, ButTokens, Rotation, Refresh, RevokeAll, Rotate,
              Mfa, BeginSetup, StoreSecret, VerifySetup, Enable, VerifyChallenge,
              AskDisable, Factor, Burn, Disable, ButMfa
<1>2. ASSUME NEW r \in Requests, Mint(r)
      PROVE  \E l \in Links : link[l].state = "none" /\ link' = [link EXCEPT ![l].state = "open"]
  BY <1>2 DEF Mint
<1>3. ASSUME NEW r \in Requests, Reset(r), ~Mint(r)
      PROVE  link' = link \/ Supersede(r) \/ (Consume(r) /\ link[req[r].arg].state = "open")
  BY <1>3 DEF Reset, ReadLink, Consume, ResetPassword, ButRequests
<1>4. ASSUME NEW r \in Requests, Elsewhere(r)
      PROVE  link' = link \/ BurnTicket(r)
  BY <1>4 DEF Elsewhere, ReadTicket, SsoCallback, ButRequests
<1>5. CASE \E l \in Tickets : MintTicket(l)
  BY <1>5 DEF MintTicket
<1>6. CASE NextWindow \/ \E t \in Tokens : Logout(t)
  BY <1>6 DEF NextWindow, Logout, ButFails, ButTokens
<1>. QED  BY <1>1, <1>2, <1>3, <1>4, <1>5, <1>6 DEF Next

\* What becomes of the rest.
LEMMA OtherSteps ==
    ASSUME Next
    PROVE  /\ UNCHANGED resets \/ \E r \in Requests : ResetPassword(r)
           /\ \/ UNCHANGED <<codes, enables>>
              \/ \E r \in Requests : Enable(r) \/ Burn(r) \/ Disable(r)
           /\ UNCHANGED challenges \/ \E r \in Requests : OrgActive(r)
           /\ \/ UNCHANGED fails \/ fails' = [email |-> 0, ip |-> 0]
              \/ \E r \in Requests : BumpEmail(r) \/ BumpIp(r) \/ Clear(r)
           /\ \/ UNCHANGED user
              \/ \E r \in Requests : StoreSecret(r) \/ Enable(r) \/ Disable(r)
<1>1. ASSUME NEW r \in Requests, Login(r)
      PROVE  /\ UNCHANGED <<resets, codes, enables, user>>
             /\ UNCHANGED challenges \/ OrgActive(r)
             /\ UNCHANGED fails \/ BumpEmail(r) \/ BumpIp(r) \/ Clear(r)
  BY <1>1 DEF Login, PeekEmail, PeekIp, FindUser, Compare, BumpEmail, BumpIp, OrgActive, Clear,
              Issue, ButRequests, ButFails, ButTokens
<1>2. ASSUME NEW r \in Requests, Rotation(r) \/ Reset(r) \/ Elsewhere(r)
      PROVE  /\ UNCHANGED <<codes, enables, user, challenges, fails>>
             /\ UNCHANGED resets \/ ResetPassword(r)
  BY <1>2 DEF Rotation, Refresh, RevokeAll, Rotate, Reset, Supersede, Mint, ReadLink, Consume,
              ResetPassword, Elsewhere, ReadTicket, BurnTicket, SsoCallback,
              ButRequests, ButTokens, ButLinks
<1>3. ASSUME NEW r \in Requests, Mfa(r)
      PROVE  /\ UNCHANGED <<resets, challenges, fails>>
             /\ UNCHANGED <<codes, enables>> \/ Enable(r) \/ Burn(r) \/ Disable(r)
             /\ UNCHANGED user \/ StoreSecret(r) \/ Enable(r) \/ Disable(r)
  BY <1>3 DEF Mfa, BeginSetup, StoreSecret, VerifySetup, Enable, VerifyChallenge,
              AskDisable, Factor, Burn, Disable, ButRequests, ButMfa
<1>4. CASE (\E l \in Tickets : MintTicket(l)) \/ NextWindow \/ \E t \in Tokens : Logout(t)
  BY <1>4 DEF MintTicket, NextWindow, Logout, ButFails, ButTokens, ButLinks
<1>. QED  BY <1>1, <1>2, <1>3, <1>4 DEF Next

LEMMA TypesKept == ASSUME Core, Next PROVE TypeOK'
<1>10. resets' = resets \/ \E r \in Requests : ResetPassword(r)
  BY OtherSteps
<1>11. \/ codes' = codes /\ enables' = enables
       \/ \E r \in Requests : Enable(r) \/ Burn(r) \/ Disable(r)
  BY OtherSteps
<1>12. challenges' = challenges \/ \E r \in Requests : OrgActive(r)
  BY OtherSteps
<1>13. \/ fails' = fails \/ fails' = [email |-> 0, ip |-> 0]
       \/ \E r \in Requests : BumpEmail(r) \/ BumpIp(r) \/ Clear(r)
  BY OtherSteps
<1>14. user' = user \/ \E r \in Requests : StoreSecret(r) \/ Enable(r) \/ Disable(r)
  BY OtherSteps
<1>15. /\ token \in [Tokens -> Token] /\ link \in [Links \cup Tickets -> OneTime]
       /\ user \in [mfa : BOOLEAN, secret : BOOLEAN] /\ resets \in Nat
       /\ codes \in [1..MaxEnables -> Code] /\ enables \in Nat /\ challenges \subseteq Nat
       /\ fails \in [email : Nat, ip : Nat] /\ req \in [Requests -> Request] /\ Holds
  BY DEF Core, TypeOK
<1>1. token' \in [Tokens -> Token]
  <2>1. ASSUME NEW r \in Requests
        PROVE  [state |-> "live", uses |-> 0, since |-> req[r].since, late |-> req[r].late] \in Token
    BY <1>15 DEF Request, Token
  <2>2. ASSUME NEW r \in Requests, Rotate(r) PROVE token' \in [Tokens -> Token]
    <3>. DEFINE t == req[r].arg
                row == Revoked(token[t])
    <3>1. row \in Token
      BY <1>15, <2>2, RevokedType DEF Holds, Rotate, Redeemed
    <3>2. token' = [token EXCEPT ![t] = [row EXCEPT !.uses = @ + 1]]
      BY <2>2 DEF Rotate
    <3>. HIDE DEF row
    <3>3. [row EXCEPT !.uses = @ + 1] \in Token
      BY <3>1 DEF Token
    <3>. QED  BY <1>15, <3>2, <3>3
  <2>3. ASSUME token' = [t \in Tokens |-> Revoked(token[t])] PROVE token' \in [Tokens -> Token]
    BY <1>15, <2>3, RevokedType
  <2>4. ASSUME NEW t \in Tokens, token' = [token EXCEPT ![t] = Revoked(@)]
        PROVE  token' \in [Tokens -> Token]
    BY <1>15, <2>4, RevokedType
  <2>5. ASSUME NEW r \in Requests, NEW t \in Tokens,
               token' = [token EXCEPT ![t] =
                  [state |-> "live", uses |-> 0, since |-> req[r].since, late |-> req[r].late]]
        PROVE  token' \in [Tokens -> Token]
    BY <1>15, <2>1, <2>5
  <2>. QED  BY <1>15, <2>2, <2>3, <2>4, <2>5, TokenSteps
<1>2. link' \in [Links \cup Tickets -> OneTime]
  <2>1. \A row \in OneTime : \A state \in {"open", "consumed"} :
            /\ [row EXCEPT !.state = state] \in OneTime
            /\ [state |-> "consumed", uses |-> row.uses + 1] \in OneTime
    BY DEF OneTime
  <2>2. ASSUME NEW l \in Links \cup Tickets, link' = [link EXCEPT ![l].state = "open"]
        PROVE  link' \in [Links \cup Tickets -> OneTime]
    BY <1>15, <2>1, <2>2
  <2>3. ASSUME NEW r \in Requests, Supersede(r) PROVE link' \in [Links \cup Tickets -> OneTime]
    BY <1>15, <2>1, <2>3 DEF Supersede
  <2>4. ASSUME NEW r \in Requests,
               (Consume(r) /\ link[req[r].arg].state = "open") \/ BurnTicket(r)
        PROVE  link' \in [Links \cup Tickets -> OneTime]
    <3>. DEFINE l == req[r].arg
    <3>1. l \in Links \cup Tickets
      BY <1>15, <2>4 DEF Holds, Consume, BurnTicket, Redeemed
    <3>2. link' = [link EXCEPT ![l] = [state |-> "consumed", uses |-> link[l].uses + 1]]
      BY <2>4 DEF Consume, BurnTicket
    <3>. QED  BY <1>15, <2>1, <3>1, <3>2
  <2>. QED  BY <1>15, <2>2, <2>3, <2>4, LinkSteps
<1>3. user' \in [mfa : BOOLEAN, secret : BOOLEAN]
  <2>1. ASSUME NEW r \in Requests, StoreSecret(r) PROVE user' \in [mfa : BOOLEAN, secret : BOOLEAN]
    BY <1>15, <2>1 DEF StoreSecret
  <2>2. ASSUME NEW r \in Requests, Enable(r) PROVE user' \in [mfa : BOOLEAN, secret : BOOLEAN]
    BY <1>15, <2>2 DEF Enable
  <2>3. ASSUME NEW r \in Requests, Disable(r) PROVE user' \in [mfa : BOOLEAN, secret : BOOLEAN]
    BY <2>3 DEF Disable
  <2>. QED  BY <1>14, <1>15, <2>1, <2>2, <2>3
<1>4. resets' \in Nat
  BY <1>10, <1>15 DEF ResetPassword
<1>5. codes' \in [1..MaxEnables -> Code] /\ enables' \in Nat
  <2>1. \A row \in Code : \A state \in {"none", "unused", "used"} :
            /\ [row EXCEPT !.state = state] \in Code
            /\ [state |-> "used", uses |-> row.uses + 1] \in Code
    BY DEF Code
  <2>2. ASSUME NEW r \in Requests, Enable(r)
        PROVE  codes' \in [1..MaxEnables -> Code] /\ enables' \in Nat
    <3>1. DOMAIN codes = 1..MaxEnables
      BY <1>15
    <3>2. codes' = [g \in 1..MaxEnables |->
                      [codes[g] EXCEPT !.state = IF g = enables + 1 THEN "unused" ELSE "none"]]
      BY <2>2, <3>1 DEF Enable
    <3>3. \A g \in 1..MaxEnables :
              [codes[g] EXCEPT !.state = IF g = enables + 1 THEN "unused" ELSE "none"] \in Code
      BY <1>15, <2>1
    <3>4. enables' = enables + 1
      BY <2>2 DEF Enable
    <3>. QED  BY <1>15, <3>2, <3>3, <3>4
  <2>3. ASSUME NEW r \in Requests, Disable(r)
        PROVE  codes' \in [1..MaxEnables -> Code] /\ enables' \in Nat
    <3>1. DOMAIN codes = 1..MaxEnables
      BY <1>15
    <3>2. codes' = [g \in 1..MaxEnables |-> [codes[g] EXCEPT !.state = "none"]]
      BY <2>3, <3>1 DEF Disable
    <3>3. enables' = enables
      BY <2>3 DEF Disable
    <3>. QED  BY <1>15, <2>1, <3>2, <3>3
  <2>4. ASSUME NEW r \in Requests, Burn(r)
        PROVE  codes' \in [1..MaxEnables -> Code] /\ enables' \in Nat
    <3>1. req[r].code \in 1..MaxEnables
      BY <1>15, <2>4 DEF Holds, Burn
    <3>2. \/ codes' = codes
          \/ codes' = [codes EXCEPT ![req[r].code] =
                          [state |-> "used", uses |-> codes[req[r].code].uses + 1]]
      BY <2>4 DEF Burn
    <3>3. enables' = enables
      BY <2>4 DEF Burn
    <3>4. [state |-> "used", uses |-> codes[req[r].code].uses + 1] \in Code
      BY <1>15, <2>1, <3>1
    <3>. QED  BY <1>15, <3>2, <3>3, <3>4
  <2>5. CASE codes' = codes /\ enables' = enables
    BY <1>15, <2>5
  <2>. QED  BY <1>11, <2>2, <2>3, <2>4, <2>5
<1>6. challenges' \subseteq Nat
  <2>1. \A r \in Requests : req[r].since \in Nat
    BY <1>15 DEF Request
  <2>2. ASSUME NEW r \in Requests, OrgActive(r)
        PROVE  challenges' \subseteq Nat
    BY <1>15, <2>1, <2>2 DEF OrgActive
  <2>3. CASE challenges' = challenges
    BY <1>15, <2>3
  <2>. QED  BY <1>12, <2>2, <2>3
<1>7. fails' \in [email : Nat, ip : Nat]
  <2>1. ASSUME NEW r \in Requests, BumpEmail(r) \/ BumpIp(r) \/ Clear(r)
        PROVE  fails' \in [email : Nat, ip : Nat]
    BY <1>15, <2>1 DEF BumpEmail, BumpIp, Clear
  <2>. QED  BY <1>13, <1>15, <2>1
<1>. QED  BY <1>1, <1>2, <1>3, <1>4, <1>5, <1>6, <1>7, RequestTypes DEF TypeOK

-----------------------------------------------------------------------------
(* What becomes of a request. *)

\* Another one acts; a reset makes late who is signing in.
Waits(q) ==
    /\ req'[q].at = req[q].at /\ req'[q].arg = req[q].arg /\ req'[q].code = req[q].code
    /\ req'[q].aim = req[q].aim /\ req'[q].since = req[q].since
    /\ \/ req'[q].late = req[q].late /\ resets' = resets
       \/ req[q].at \in SigningIn /\ req'[q].late
       \/ req[q].at \notin SigningIn

\* Where it gets by itself, and with what.
Arrives(q) ==
    /\ req'[q].at = "consume" => req'[q].arg \in Links
    /\ req'[q].at = "rotate" =>
          \E t \in Tokens : /\ req'[q].arg = t /\ token[t].state = "live" /\ token' = token
                            /\ req'[q].since = token[t].since /\ req'[q].late = token[t].late
    /\ req'[q].at = "burnTicket" =>
          req'[q].arg \in Tickets /\ link[req'[q].arg].state = "open" /\ link' = link
    /\ req'[q].at = "burn" => req'[q].code \in DOMAIN codes
    /\ OnTheWay(q)' /\ req'[q].at # "rotate" =>
          \/ req'[q].since < resets => req'[q].late
          \/ OnTheWay(q) /\ req'[q].since = req[q].since /\ req'[q].late = req[q].late
    /\ req'[q].at \in {"ip", "find", "compare", "bumpEmail"} =>
          \/ req[q].at \in {"ip", "find", "compare", "bumpEmail"}
          \/ fails.email < MaxPerEmail /\ fails' = fails
    /\ req'[q].at \in {"find", "compare", "bumpEmail", "bumpIp"} =>
          \/ req[q].at \in {"find", "compare", "bumpEmail", "bumpIp"}
          \/ fails.ip < MaxPerIp /\ fails' = fails

LEMMA OwnSteps ==
    ASSUME Core, NEW q \in Requests,
           Login(q) \/ Rotation(q) \/ Reset(q) \/ Mfa(q) \/ Elsewhere(q)
    PROVE  Arrives(q)
<1>. req \in [Requests -> Request]
  BY DEF Core, TypeOK
<1>1. ASSUME req'[q].at \in {"idle", "revokeAll", "mint", "hash", "store", "enable", "disable"}
      PROVE  Arrives(q)
  BY <1>1 DEF Arrives, OnTheWay
<1>2. ASSUME req'[q].at \in {"org", "clear", "issue"}, OnTheWay(q),
             req'[q].since = req[q].since, req'[q].late = req[q].late
      PROVE  Arrives(q)
  BY <1>2 DEF Arrives
<1>3. ASSUME NEW at, req' = [req EXCEPT ![q].at = at]
      PROVE  req'[q] = [req[q] EXCEPT !.at = at]
  BY <1>3
<1>4. End(q) => req'[q].at = "idle"
  BY DEF End, Idle
<1>5. CASE Login(q)
  <2>1. CASE PeekEmail(q)
    BY <1>3, <2>1 DEF PeekEmail, Start, ButRequests, Arrives, OnTheWay, Request
  <2>2. CASE PeekIp(q) /\ req'[q].at # "idle"
    BY <1>3, <1>4, <2>2 DEF PeekIp, Go, ButRequests, Arrives, OnTheWay, Request
  <2>3. CASE FindUser(q)
    <3>1. req'[q].at = "compare" /\ req'[q].since = resets
      BY <2>3 DEF FindUser, Request
    <3>. QED  BY <2>3, <3>1 DEF FindUser, Arrives, Core, TypeOK
  <2>4. CASE Compare(q)
    <3>1. ASSUME Go(q, "compare", "org") PROVE Arrives(q)
      BY <1>2, <3>1 DEF Go, OnTheWay, Request
    <3>2. ASSUME req[q].at = "compare", req' = [req EXCEPT ![q] = [Idle EXCEPT !.at = "bumpEmail"]]
          PROVE  Arrives(q)
      BY <3>2 DEF Idle, Arrives, OnTheWay
    <3>. QED  BY <2>4, <3>1, <3>2 DEF Compare
  <2>5. CASE BumpEmail(q)
    BY <2>5 DEF BumpEmail, Go, Arrives, OnTheWay, Request
  <2>6. CASE OrgActive(q) \/ Clear(q)
    <3>1. CASE End(q)
      BY <1>1, <1>4, <3>1
    <3>2. ASSUME Go(q, "org", "clear") \/ Go(q, "clear", "issue") PROVE Arrives(q)
      BY <1>2, <3>2 DEF Go, OnTheWay, Request
    <3>. QED  BY <2>6, <3>1, <3>2 DEF OrgActive, Clear
  <2>7. CASE BumpIp(q) \/ Issue(q)
    BY <1>1, <1>4, <2>7 DEF BumpIp, Issue
  <2>. QED  BY <1>1, <1>5, <2>1, <2>2, <2>3, <2>4, <2>5, <2>6, <2>7 DEF Login
<1>6. CASE Rotation(q)
  <2>1. CASE Refresh(q)
    <3>1. ASSUME Start(q, "revokeAll") PROVE Arrives(q)
      BY <1>1, <3>1 DEF Start, Request
    <3>2. ASSUME NEW t \in Tokens, token[t].state = "live", token' = token,
                 req' = [req EXCEPT ![q] = [Idle EXCEPT !.at = "rotate", !.arg = t,
                                             !.since = token[t].since, !.late = token[t].late]]
          PROVE  Arrives(q)
      <4>1. /\ req'[q].at = "rotate" /\ req'[q].arg = t
            /\ req'[q].since = token[t].since /\ req'[q].late = token[t].late
        BY <3>2 DEF Idle
      <4>. QED  BY <3>2, <4>1 DEF Arrives
    <3>. QED  BY <2>1, <3>1, <3>2 DEF Refresh, ButRequests
  <2>2. CASE RevokeAll(q)
    BY <1>1, <1>4, <2>2 DEF RevokeAll
  <2>3. CASE Rotate(q)
    BY <1>2, <2>3 DEF Rotate, Redeemed, OnTheWay, Request
  <2>. QED  BY <1>6, <2>1, <2>2, <2>3 DEF Rotation
<1>7. CASE Reset(q)
  <2>1. CASE Supersede(q) \/ Mint(q) \/ Consume(q)
    BY <1>1, <1>4, <2>1 DEF Supersede, Mint, Consume, Start, Go, Request
  <2>2. CASE ReadLink(q)
    BY <2>2 DEF ReadLink, StartWith, Request, Arrives, OnTheWay
  <2>3. CASE ResetPassword(q)
    BY <1>1, <2>3 DEF ResetPassword, Overlapping, Idle
  <2>. QED  BY <1>7, <2>1, <2>2, <2>3 DEF Reset
<1>8. CASE Mfa(q)
  <2>1. CASE BeginSetup(q) \/ StoreSecret(q) \/ VerifySetup(q) \/ Enable(q) \/ Disable(q)
    BY <1>1, <1>4, <2>1 DEF BeginSetup, StoreSecret, VerifySetup, Enable, Disable, Start, Request
  <2>2. CASE VerifyChallenge(q)
    <3>1. PICK since \in challenges :
              req' = [req EXCEPT ![q] = [Idle EXCEPT !.at = "factor", !.secret = user.secret,
                                         !.since = since, !.late = since < resets]]
      BY <2>2 DEF VerifyChallenge
    <3>2. req'[q].at = "factor" /\ req'[q].since = since /\ req'[q].late = (since < resets)
      BY <3>1 DEF Idle
    <3>. QED  BY <3>2 DEF Arrives
  <2>3. CASE AskDisable(q)
    <3>1. req'[q].at = "factor" /\ req'[q].aim = "disable"
      BY <2>3 DEF AskDisable, Idle
    <3>. QED  BY <3>1 DEF Arrives, OnTheWay
  <2>4. ASSUME Proven(q), req[q].at \in {"factor", "burn"} PROVE Arrives(q)
    <3>1. CASE req[q].aim = "login"
      <4>1. req'[q].at = "org" /\ req'[q].since = req[q].since /\ req'[q].late = req[q].late
        BY <2>4, <3>1 DEF Proven, Request
      <4>. QED  BY <1>2, <2>4, <3>1, <4>1 DEF OnTheWay
    <3>2. CASE req[q].aim # "login"
      BY <1>1, <2>4, <3>2 DEF Proven, Request
    <3>. QED  BY <3>1, <3>2
  <2>5. CASE Factor(q)
    <3>1. ASSUME NEW g \in DOMAIN codes, req[q].at = "factor",
                 req' = [req EXCEPT ![q].at = "burn", ![q].code = g]
          PROVE  Arrives(q)
      <4>1. /\ req'[q].at = "burn" /\ req'[q].code = g /\ req'[q].aim = req[q].aim
            /\ req'[q].since = req[q].since /\ req'[q].late = req[q].late
        BY <3>1 DEF Request
      <4>. QED  BY <3>1, <4>1 DEF Arrives, OnTheWay
    <3>. QED  BY <1>1, <1>4, <2>4, <2>5, <3>1 DEF Factor
  <2>6. CASE Burn(q)
    BY <1>1, <1>4, <2>4, <2>6 DEF Burn
  <2>. QED  BY <1>8, <2>1, <2>2, <2>3, <2>5, <2>6 DEF Mfa
<1>9. CASE Elsewhere(q)
  <2>1. CASE ReadTicket(q)
    <3>1. PICK l \in Tickets :
              /\ link[l].state = "open"
              /\ req' = [req EXCEPT ![q] = [Idle EXCEPT !.at = "burnTicket", !.arg = l,
                                                        !.since = resets]]
      BY <2>1 DEF ReadTicket
    <3>2. req'[q].at = "burnTicket" /\ req'[q].arg = l /\ req'[q].since = resets
      BY <3>1 DEF Idle
    <3>. QED  BY <2>1, <3>1, <3>2 DEF ReadTicket, ButRequests, Arrives, Core, TypeOK
  <2>2. CASE BurnTicket(q)
    BY <1>2, <2>2 DEF BurnTicket, Redeemed, OnTheWay, Request
  <2>3. CASE SsoCallback(q)
    <3>1. req'[q].at = "issue" /\ req'[q].since = resets
      BY <2>3 DEF SsoCallback, Idle
    <3>. QED  BY <3>1 DEF Arrives, Core, TypeOK
  <2>. QED  BY <1>9, <2>1, <2>2, <2>3 DEF Elsewhere
<1>. QED  BY <1>5, <1>6, <1>7, <1>8, <1>9

\* A step is one request's own, or none's.
LEMMA RequestSteps == ASSUME Core, Next, NEW q \in Requests PROVE Waits(q) \/ Arrives(q)
<1>. req \in [Requests -> Request]
  BY DEF Core, TypeOK
<1>1. ASSUME req' = req, resets' = resets PROVE Waits(q)
  BY <1>1 DEF Waits
<1>2. ASSUME NEW r \in Requests, r # q, NEW row, req' = [req EXCEPT ![r] = row], resets' = resets
      PROVE  Waits(q)
  BY <1>2 DEF Waits
<1>3. CASE (\E t \in Tokens : Logout(t)) \/ (\E l \in Tickets : MintTicket(l)) \/ NextWindow
  BY <1>1, <1>3 DEF Logout, MintTicket, NextWindow, ButTokens, ButLinks, ButFails
<1>4. ASSUME NEW r \in Requests, r # q, Login(r) \/ Rotation(r) \/ Reset(r) \/ Mfa(r) \/ Elsewhere(r)
      PROVE  Waits(q)
  <2>1. CASE ResetPassword(r)
    <3>1. req'[q] = [req[q] EXCEPT !.late = @ \/ req[q].at \in SigningIn]
      BY <1>4, <2>1 DEF ResetPassword, Overlapping
    <3>. QED  BY <3>1 DEF Waits, Request
  <2>2. CASE ~ResetPassword(r)
    <3>1. resets' = resets
      <4>1. Login(r) => UNCHANGED resets
        BY DEF Login, PeekEmail, PeekIp, FindUser, Compare, BumpEmail, BumpIp, OrgActive, Clear,
               Issue, ButRequests, ButFails, ButTokens
      <4>2. Rotation(r) \/ Reset(r) \/ Elsewhere(r) => UNCHANGED resets
        BY <2>2
        DEF Rotation, Refresh, RevokeAll, Rotate, Reset, Supersede, Mint, ReadLink, Consume,
            Elsewhere, ReadTicket, BurnTicket, SsoCallback, ButRequests, ButTokens, ButLinks
      <4>3. Mfa(r) => UNCHANGED resets
        BY DEF Mfa, BeginSetup, StoreSecret, VerifySetup, Enable, VerifyChallenge,
               AskDisable, Factor, Burn, Disable, ButRequests, ButMfa
      <4>. QED  BY <1>4, <4>1, <4>2, <4>3
    <3>2. req'[q] = req[q]
      <4>1. Login(r) => req'[q] = req[q]
        BY <1>4
        DEF Login, PeekEmail, PeekIp, FindUser, Compare, BumpEmail, BumpIp, OrgActive, Clear,
            Issue, Start, Go, End
      <4>2. Rotation(r) \/ Reset(r) \/ Elsewhere(r) => req'[q] = req[q]
        BY <1>4, <2>2
        DEF Rotation, Refresh, RevokeAll, Rotate, Reset, Supersede, Mint, ReadLink, Consume,
            Elsewhere, ReadTicket, BurnTicket, SsoCallback, Start, StartWith, Go, Redeemed, End
      <4>3. Mfa(r) => req'[q] = req[q]
        BY <1>4
        DEF Mfa, BeginSetup, StoreSecret, VerifySetup, Enable, VerifyChallenge,
            AskDisable, Factor, Burn, Disable, Proven, Start, End
      <4>. QED  BY <1>4, <4>1, <4>2, <4>3
    <3>. QED  BY <3>1, <3>2 DEF Waits
  <2>. QED  BY <2>1, <2>2
<1>. QED  BY <1>3, <1>4, OwnSteps DEF Next

-----------------------------------------------------------------------------
(* What may be used once. *)

LEMMA LinksOnce ==
    ASSUME Core, Next, NEW l \in Links \cup Tickets
    PROVE  /\ link'[l].state # "consumed" => link'[l].uses = 0
           /\ l \in Links => link'[l].uses <= 1
<1>. link \in [Links \cup Tickets -> OneTime]
  BY DEF Core, TypeOK
<1>0. /\ link[l].state # "consumed" => link[l].uses = 0
      /\ l \in Links => link[l].uses <= 1
  BY DEF Core, UnusedIsNew, SingleUse
<1>1. CASE link'[l] = link[l]
  BY <1>0, <1>1
<1>2. CASE \E k \in Links \cup Tickets :
              link[k].state = "none" /\ link' = [link EXCEPT ![k].state = "open"]
  BY <1>0, <1>2 DEF OneTime
<1>3. CASE \E r \in Requests : Supersede(r)
  BY <1>0, <1>3 DEF Supersede, OneTime
<1>4. ASSUME NEW r \in Requests, Consume(r), link[req[r].arg].state = "open" PROVE
           /\ link'[l].state # "consumed" => link'[l].uses = 0
           /\ l \in Links => link'[l].uses <= 1
  BY <1>0, <1>4 DEF Consume
<1>5. ASSUME NEW r \in Requests, BurnTicket(r) PROVE
           /\ link'[l].state # "consumed" => link'[l].uses = 0
           /\ l \in Links => link'[l].uses <= 1
  <2>1. req[r].arg \in Tickets
    BY <1>5 DEF BurnTicket, Redeemed, Core, Holds
  <2>2. l \in Links => link'[l] = link[l]
    BY <1>5, <2>1, SessionsAssumption DEF BurnTicket
  <2>. QED  BY <1>0, <1>5, <2>2 DEF BurnTicket
<1>. QED  BY <1>1, <1>2, <1>3, <1>4, <1>5, LinkSteps

LEMMA CodesOnce ==
    ASSUME Core, Next, NEW g \in DOMAIN codes
    PROVE  /\ codes'[g].state = "unused" => codes'[g].uses = 0
           /\ g > enables' => codes'[g].state = "none" /\ codes'[g].uses = 0
           /\ codes'[g].uses <= 1
<1>1. codes \in [1..MaxEnables -> Code] /\ enables \in Nat /\ g \in Nat
  BY SessionsAssumption DEF Core, TypeOK
<1>2. /\ codes[g].state = "unused" => codes[g].uses = 0
      /\ g > enables => codes[g].state = "none" /\ codes[g].uses = 0
      /\ codes[g].uses <= 1 /\ codes[g] \in Code
  BY <1>1 DEF Core, UnusedIsNew, SingleUse
<1>3. CASE codes' = codes /\ enables' = enables
  BY <1>2, <1>3
<1>4. ASSUME NEW r \in Requests, Enable(r)
      PROVE  /\ codes'[g].state = "unused" => codes'[g].uses = 0
             /\ g > enables' => codes'[g].state = "none" /\ codes'[g].uses = 0
             /\ codes'[g].uses <= 1
  <2>1. codes'[g] = [codes[g] EXCEPT !.state = IF g = enables + 1 THEN "unused" ELSE "none"]
    BY <1>4 DEF Enable
  <2>2. codes'[g].uses = codes[g].uses
        /\ codes'[g].state = (IF g = enables + 1 THEN "unused" ELSE "none")
    BY <1>2, <2>1 DEF Code
  <2>3. enables' = enables + 1
    BY <1>4 DEF Enable
  <2>. QED  BY <1>1, <1>2, <2>2, <2>3
<1>5. ASSUME NEW r \in Requests, Burn(r)
      PROVE  /\ codes'[g].state = "unused" => codes'[g].uses = 0
             /\ g > enables' => codes'[g].state = "none" /\ codes'[g].uses = 0
             /\ codes'[g].uses <= 1
  <2>1. enables' = enables
    BY <1>5 DEF Burn
  <2>2. CASE codes' = codes
    BY <1>2, <2>1, <2>2
  <2>3. CASE codes' # codes
    <3>. DEFINE c == req[r].code
    <3>1. /\ codes[c].state = "unused" /\ c \in DOMAIN codes
          /\ codes' = [codes EXCEPT ![c] = [state |-> "used", uses |-> codes[c].uses + 1]]
      BY <1>5, <2>3 DEF Burn, Core, Holds
    <3>2. codes[c].uses = 0
      BY <3>1 DEF Core, UnusedIsNew
    <3>3. ~(g > enables /\ g = c)
      BY <1>2, <3>1
    <3>. QED  BY <1>1, <1>2, <2>1, <3>1, <3>2, <3>3
  <2>. QED  BY <2>2, <2>3
<1>6. ASSUME NEW r \in Requests, Disable(r)
      PROVE  /\ codes'[g].state = "unused" => codes'[g].uses = 0
             /\ g > enables' => codes'[g].state = "none" /\ codes'[g].uses = 0
             /\ codes'[g].uses <= 1
  <2>1. codes'[g] = [codes[g] EXCEPT !.state = "none"] /\ enables' = enables
    BY <1>6 DEF Disable
  <2>. QED  BY <1>2, <2>1 DEF Code
<1>7. \/ codes' = codes /\ enables' = enables
      \/ \E r \in Requests : Enable(r) \/ Burn(r) \/ Disable(r)
  BY OtherSteps
<1>. QED  BY <1>3, <1>4, <1>5, <1>6, <1>7

\* A token's next life: as it is, just issued, revoked, or redeemed.
LEMMA TokenRows ==
    ASSUME Core, Next, NEW t \in Tokens
    PROVE  \/ token'[t] = token[t]
           \/ \E r \in Requests :
                /\ req[r].at = "issue" /\ token'[t].uses = 0 /\ token'[t].state = "live"
                /\ token'[t].since = req[r].since /\ token'[t].late = req[r].late
                /\ Issue(r)
           \/ token'[t].state = "revoked" /\ token'[t].uses = token[t].uses
           \/ /\ token'[t].state = "revoked" /\ token'[t].uses = token[t].uses + 1
              /\ \E r \in Requests : Rotate(r) /\ req[r].arg = t
<1>. token \in [Tokens -> Token]
  BY DEF Core, TypeOK
<1>1. \A x \in Tokens : \/ Revoked(token[x]) = token[x]
                        \/ Revoked(token[x]).state = "revoked"
  BY DEF Revoked
<1>2. \A x \in Tokens : Revoked(token[x]).uses = token[x].uses
  BY RevokedType
<1>3. ASSUME NEW r \in Requests, NEW x \in Tokens, Issue(r),
             token' = [token EXCEPT ![x] =
                [state |-> "live", uses |-> 0, since |-> req[r].since, late |-> req[r].late]]
      PROVE  \/ token'[t] = token[t]
             \/ /\ req[r].at = "issue" /\ token'[t].uses = 0 /\ token'[t].state = "live"
                /\ token'[t].since = req[r].since /\ token'[t].late = req[r].late
  BY <1>3 DEF Issue
<1>4. ASSUME NEW r \in Requests, Rotate(r)
      PROVE  \/ token'[t] = token[t]
             \/ /\ token'[t].state = "revoked" /\ token'[t].uses = token[t].uses + 1
                /\ req[r].arg = t
  <2>. DEFINE x == req[r].arg
              row == Revoked(token[x])
  <2>1. x \in Tokens /\ token[x].state # "none"
    BY <1>4 DEF Rotate, Redeemed, Core, Holds
  <2>2. row \in Token /\ row.uses = token[x].uses /\ row.state = "revoked"
    BY <2>1, RevokedType DEF Revoked
  <2>3. token' = [token EXCEPT ![x] = [row EXCEPT !.uses = @ + 1]]
    BY <1>4 DEF Rotate
  <2>. HIDE DEF row, x
  <2>4. [row EXCEPT !.uses = @ + 1].state = "revoked"
        /\ [row EXCEPT !.uses = @ + 1].uses = token[x].uses + 1
    BY <2>2 DEF Token
  <2>5. CASE t = x
    BY <2>3, <2>4, <2>5 DEF x
  <2>6. CASE t # x
    BY <2>3, <2>6
  <2>. QED  BY <2>5, <2>6
<1>5. ASSUME NEW x \in Tokens, token' = [token EXCEPT ![x] = Revoked(@)]
      PROVE  \/ token'[t] = token[t]
             \/ token'[t].state = "revoked" /\ token'[t].uses = token[t].uses
  BY <1>1, <1>2, <1>5
<1>6. ASSUME token' = [x \in Tokens |-> Revoked(token[x])]
      PROVE  \/ token'[t] = token[t]
             \/ token'[t].state = "revoked" /\ token'[t].uses = token[t].uses
  BY <1>1, <1>2, <1>6
<1>. QED  BY <1>3, <1>4, <1>5, <1>6, TokenSteps

LEMMA HoldsKept == ASSUME Core, Next PROVE Holds'
<1>1. DOMAIN codes' = DOMAIN codes
  BY TypesKept DEF Core, TypeOK
<1>. SUFFICES ASSUME NEW q \in Requests
              PROVE  /\ req'[q].at = "consume" => req'[q].arg \in Links
                     /\ req'[q].at = "rotate" =>
                            req'[q].arg \in Tokens /\ token'[req'[q].arg].state # "none"
                     /\ req'[q].at = "burnTicket" => req'[q].arg \in Tickets
                     /\ req'[q].at = "burn" => req'[q].code \in DOMAIN codes
  BY <1>1 DEF Holds
<1>2. CASE Waits(q)
  BY <1>2, TokenRows DEF Waits, Core, Holds
<1>3. CASE Arrives(q)
  BY <1>3 DEF Arrives
<1>. QED  BY <1>2, <1>3, RequestSteps


LEMMA CoreKept == ASSUME Core, Next PROVE Core'
<1>1. \A t \in Tokens : token'[t].state # "revoked" => token'[t].uses = 0
  BY TokenRows DEF Core, UnusedIsNew
<1>2. DOMAIN codes' = DOMAIN codes
  BY TypesKept DEF Core, TypeOK
<1>. QED
  BY <1>1, <1>2, TypesKept, HoldsKept, LinksOnce, CodesOnce DEF Core, UnusedIsNew, SingleUse

-----------------------------------------------------------------------------
(* The reset. *)

LEMMA LateKept ==
    ASSUME Core, Next, OldIsLate, OnlyLateSurvive
    PROVE  OldIsLate' /\ OnlyLateSurvive'
<1>0. resets \in Nat /\ resets' \in Nat
  BY TypesKept DEF Core, TypeOK
<1>1. CASE resets' = resets
  <2>1. ASSUME NEW q \in Requests, OnTheWay(q)', req'[q].since < resets PROVE req'[q].late
    <3>1. CASE Waits(q)
      BY <2>1, <3>1 DEF Waits, OnTheWay, OldIsLate, SigningIn
    <3>2. CASE Arrives(q) /\ req'[q].at = "rotate"
      BY <2>1, <3>2 DEF Arrives, OnlyLateSurvive
    <3>3. CASE Arrives(q) /\ req'[q].at # "rotate"
      BY <2>1, <3>3 DEF Arrives, OldIsLate
    <3>. QED  BY <3>1, <3>2, <3>3, RequestSteps
  <2>2. ASSUME NEW t \in Tokens, token'[t].state = "live", token'[t].since < resets
        PROVE  token'[t].late
    <3>1. CASE token'[t] = token[t]
      BY <2>2, <3>1 DEF OnlyLateSurvive
    <3>2. ASSUME NEW r \in Requests, req[r].at = "issue",
                 token'[t].since = req[r].since, token'[t].late = req[r].late
          PROVE  token'[t].late
      BY <2>2, <3>2 DEF OldIsLate, OnTheWay
    <3>. QED  BY <2>2, <3>1, <3>2, TokenRows
  <2>. QED  BY <1>1, <2>1, <2>2 DEF OldIsLate, OnlyLateSurvive, OnTheWay
<1>2. CASE resets' # resets
  <2>0. resets' = resets \/ \E r \in Requests : ResetPassword(r)
    BY OtherSteps
  <2>1. PICK r \in Requests : ResetPassword(r)
    BY <1>2, <2>0
  <2>2. \A t \in Tokens : token'[t].state # "live"
    BY <2>1 DEF ResetPassword, Revoked
  <2>3. ASSUME NEW q \in Requests, OnTheWay(q)' PROVE req'[q].late
    <3>1. req'[q] = IF q = r THEN Idle ELSE [req[q] EXCEPT !.late = @ \/ req[q].at \in SigningIn]
      BY <2>1 DEF ResetPassword, Overlapping
    <3>2. q # r
      BY <2>3, <3>1 DEF Idle, OnTheWay
    <3>3. req[q] \in Request
      BY DEF Core, TypeOK
    <3>. QED  BY <2>3, <3>1, <3>2, <3>3 DEF Request, OnTheWay, SigningIn
  <2>. QED  BY <2>2, <2>3 DEF OldIsLate, OnlyLateSurvive
<1>. QED  BY <1>1, <1>2

-----------------------------------------------------------------------------
(* What overlapping requests may exceed. *)

LEMMA Sizes ==
    ASSUME NEW A, A \subseteq Requests
    PROVE  /\ Cardinality(A) \in Nat /\ Cardinality(Requests) \in Nat
           /\ Cardinality(A) <= Cardinality(Requests)
           /\ \A B : B \subseteq A => Cardinality(B) \in Nat /\ Cardinality(B) <= Cardinality(A)
           /\ \A B, r : r \in A /\ B \subseteq A \ {r} =>
                 Cardinality(B) \in Nat /\ Cardinality(B) + 1 <= Cardinality(A)
<1>1. IsFiniteSet(Requests)
  BY SessionsAssumption
<1>2. \A S : IsFiniteSet(S) => Cardinality(S) \in Nat
  BY FS_CardinalityType
<1>3. \A S, T : IsFiniteSet(S) /\ T \subseteq S =>
          IsFiniteSet(T) /\ Cardinality(T) <= Cardinality(S)
  BY FS_Subset
<1>4. IsFiniteSet(A)
  BY <1>1, <1>3
<1>5. ASSUME NEW B, NEW r, r \in A, B \subseteq A \ {r}
      PROVE  Cardinality(B) \in Nat /\ Cardinality(B) + 1 <= Cardinality(A)
  <2>1. IsFiniteSet(A \ {r}) /\ Cardinality(A \ {r}) = Cardinality(A) - 1
    BY <1>4, <1>5, FS_RemoveElement
  <2>2. Cardinality(B) \in Nat /\ Cardinality(A) \in Nat
    BY <1>2, <1>3, <1>4, <1>5
  <2>3. Cardinality(B) <= Cardinality(A \ {r})
    BY <1>3, <1>5, <2>1
  <2>. QED  BY <2>1, <2>2, <2>3
<1>. QED  BY <1>1, <1>2, <1>3, <1>4, <1>5

LEMMA RotatorsKept ==
    ASSUME Core, Next, RedeemersBounded, NEW t \in Tokens
    PROVE  token'[t].uses + Cardinality(Rotating(t)') <= Cardinality(Requests)
<1>. DEFINE now == Rotating(t)
            next == Rotating(t)'
<1>0. /\ now \subseteq Requests /\ next \subseteq Requests
      /\ token[t].uses \in Nat /\ token'[t].uses \in Nat
  BY TypesKept DEF Rotating, Core, TypeOK, Token
<1>1. token[t].uses + Cardinality(now) <= Cardinality(Requests)
  BY DEF RedeemersBounded
<1>2. CASE \E q \in next : q \notin now
  <2>1. PICK q \in Requests : q \in next /\ q \notin now
    BY <1>0, <1>2
  <2>2. ~Waits(q)
    BY <2>1 DEF Waits, Rotating
  <2>3. token[t].state = "live" /\ token' = token
    BY <2>1, <2>2, RequestSteps DEF Arrives, Rotating
  <2>4. token'[t].uses = 0
    BY <2>3 DEF Core, UnusedIsNew
  <2>. HIDE DEF now, next
  <2>5. /\ Cardinality(next) \in Nat /\ Cardinality(next) <= Cardinality(Requests)
        /\ Cardinality(Requests) \in Nat
    BY <1>0, Sizes
  <2>. QED  BY <2>4, <2>5 DEF next
<1>3. CASE next \subseteq now
  <2>1. ASSUME NEW r \in Requests, Rotate(r), req[r].arg = t, token'[t].uses = token[t].uses + 1
        PROVE  token'[t].uses + Cardinality(next) <= Cardinality(Requests)
    <3>1. r \in now
      BY <2>1 DEF Rotate, Redeemed, Rotating
    <3>2. req'[r].at = "issue"
      BY <2>1 DEF Rotate, Redeemed, Core, TypeOK, Request
    <3>3. next \subseteq now \ {r}
      BY <1>3, <3>2 DEF Rotating
    <3>. HIDE DEF now, next
    <3>4. Cardinality(next) \in Nat /\ Cardinality(next) + 1 <= Cardinality(now)
          /\ Cardinality(now) \in Nat
      BY <1>0, <3>1, <3>3, Sizes
    <3>5. Cardinality(Requests) \in Nat
      BY <1>0, Sizes
    <3>. QED  BY <1>0, <1>1, <2>1, <3>4, <3>5
  <2>2. ASSUME token'[t].uses = token[t].uses \/ token'[t].uses = 0
        PROVE  token'[t].uses + Cardinality(next) <= Cardinality(Requests)
    <3>. HIDE DEF now, next
    <3>1. /\ Cardinality(next) \in Nat /\ Cardinality(next) <= Cardinality(now)
          /\ Cardinality(now) \in Nat /\ Cardinality(Requests) \in Nat
      BY <1>0, <1>3, Sizes
    <3>. QED  BY <1>0, <1>1, <2>2, <3>1
  <2>. QED  BY <2>1, <2>2, TokenRows
<1>. QED  BY <1>2, <1>3

LEMMA BurnersKept ==
    ASSUME Core, Next, RedeemersBounded, NEW l \in Tickets
    PROVE  link'[l].uses + Cardinality(Burning(l)') <= Cardinality(Requests)
<1>. DEFINE now == Burning(l)
            next == Burning(l)'
<1>0. /\ now \subseteq Requests /\ next \subseteq Requests
      /\ link[l].uses \in Nat /\ link'[l].uses \in Nat
  BY TypesKept DEF Burning, Core, TypeOK, OneTime
<1>. link \in [Links \cup Tickets -> OneTime]
  BY DEF Core, TypeOK
<1>1. link[l].uses + Cardinality(now) <= Cardinality(Requests)
  BY DEF RedeemersBounded
<1>2. CASE \E q \in next : q \notin now
  <2>1. PICK q \in Requests : q \in next /\ q \notin now
    BY <1>0, <1>2
  <2>2. ~Waits(q)
    BY <2>1 DEF Waits, Burning
  <2>3. link[l].state = "open" /\ link' = link
    BY <2>1, <2>2, RequestSteps DEF Arrives, Burning
  <2>4. link'[l].uses = 0
    BY <2>3 DEF Core, UnusedIsNew
  <2>. HIDE DEF now, next
  <2>5. /\ Cardinality(next) \in Nat /\ Cardinality(next) <= Cardinality(Requests)
        /\ Cardinality(Requests) \in Nat
    BY <1>0, Sizes
  <2>. QED  BY <2>4, <2>5 DEF next
<1>3. CASE next \subseteq now
  <2>1. ASSUME NEW r \in Requests, BurnTicket(r), req[r].arg = l
        PROVE  link'[l].uses + Cardinality(next) <= Cardinality(Requests)
    <3>1. r \in now /\ link'[l].uses = link[l].uses + 1
      BY <2>1 DEF BurnTicket, Redeemed, Burning
    <3>2. req'[r].at = "issue"
      BY <2>1 DEF BurnTicket, Redeemed, Core, TypeOK, Request
    <3>3. next \subseteq now \ {r}
      BY <1>3, <3>2 DEF Burning
    <3>. HIDE DEF now, next
    <3>4. Cardinality(next) \in Nat /\ Cardinality(next) + 1 <= Cardinality(now)
          /\ Cardinality(now) \in Nat
      BY <1>0, <3>1, <3>3, Sizes
    <3>5. Cardinality(Requests) \in Nat
      BY <1>0, Sizes
    <3>. QED  BY <1>0, <1>1, <3>1, <3>4, <3>5
  <2>2. ASSUME link'[l].uses = link[l].uses
        PROVE  link'[l].uses + Cardinality(next) <= Cardinality(Requests)
    <3>. HIDE DEF now, next
    <3>1. /\ Cardinality(next) \in Nat /\ Cardinality(next) <= Cardinality(now)
          /\ Cardinality(now) \in Nat /\ Cardinality(Requests) \in Nat
      BY <1>0, <1>3, Sizes
    <3>. QED  BY <1>0, <1>1, <2>2, <3>1
  <2>3. CASE \E r \in Requests : BurnTicket(r)
    <3>1. PICK r \in Requests : BurnTicket(r)
      BY <2>3
    <3>2. req[r].arg # l => link'[l].uses = link[l].uses
      BY <3>1 DEF BurnTicket
    <3>. QED  BY <2>1, <2>2, <3>1, <3>2
  <2>4. CASE \E r \in Requests : Consume(r) /\ link[req[r].arg].state = "open"
    <3>1. PICK r \in Requests : Consume(r)
      BY <2>4
    <3>2. req[r].arg # l
      BY <3>1, SessionsAssumption DEF Consume, Core, Holds
    <3>. QED  BY <2>2, <3>1, <3>2 DEF Consume
  <2>5. CASE \E r \in Requests : Supersede(r)
    <3>1. link'[l] = link[l]
      BY <2>5, SessionsAssumption DEF Supersede
    <3>. QED  BY <2>2, <3>1
  <2>6. CASE \E k \in Links \cup Tickets :
                link[k].state = "none" /\ link' = [link EXCEPT ![k].state = "open"]
    <3>1. link'[l].uses = link[l].uses
      BY <2>6 DEF OneTime
    <3>. QED  BY <2>2, <3>1
  <2>. QED  BY <2>2, <2>3, <2>4, <2>5, <2>6, LinkSteps
<1>. QED  BY <1>2, <1>3

LEMMA PassersKept == ASSUME Core, Next, PassersBounded PROVE PassersBounded'
<1>. DEFINE n == Cardinality(Requests)
<1>0. /\ PastEmail \subseteq Requests /\ PastEmail' \subseteq Requests
      /\ PastIp \subseteq Requests /\ PastIp' \subseteq Requests
      /\ fails \in [email : Nat, ip : Nat] /\ fails' \in [email : Nat, ip : Nat]
      /\ req \in [Requests -> Request]
  BY TypesKept DEF PastEmail, PastIp, Core, TypeOK
<1>1. /\ n \in Nat /\ n >= 1
      /\ Cardinality(PastEmail) \in Nat /\ Cardinality(PastEmail') \in Nat
      /\ Cardinality(PastIp) \in Nat /\ Cardinality(PastIp') \in Nat
      /\ Cardinality(PastEmail') <= n /\ Cardinality(PastIp') <= n
  <2>1. Cardinality(Requests) # 0
    BY SessionsAssumption, FS_EmptySet
  <2>. QED  BY <1>0, <2>1, Sizes
<1>2. \/ fails' = fails \/ fails' = [email |-> 0, ip |-> 0]
      \/ \E r \in Requests : BumpEmail(r) \/ BumpIp(r) \/ Clear(r)
  BY OtherSteps
<1>3. fails'.email + Cardinality(PastEmail') <= MaxPerEmail + n - 1
  <2>1. CASE fails'.email = 0
    BY <1>1, <2>1, SessionsAssumption
  <2>2. CASE \E q \in PastEmail' : q \notin PastEmail
    <3>1. PICK q \in Requests : q \in PastEmail' /\ q \notin PastEmail
      BY <1>0, <2>2
    <3>2. ~Waits(q)
      BY <3>1 DEF Waits, PastEmail
    <3>3. fails.email < MaxPerEmail /\ fails' = fails
      BY <3>1, <3>2, RequestSteps DEF Arrives, PastEmail
    <3>. QED  BY <1>0, <1>1, <3>3, SessionsAssumption
  <2>3. ASSUME PastEmail' \subseteq PastEmail, NEW r \in Requests, BumpEmail(r)
        PROVE  fails'.email + Cardinality(PastEmail') <= MaxPerEmail + n - 1
    <3>1. r \in PastEmail /\ fails'.email = fails.email + 1
      BY <1>0, <2>3 DEF BumpEmail, Go, PastEmail
    <3>2. req'[r].at = "bumpIp"
      BY <1>0, <2>3 DEF BumpEmail, Go, Request
    <3>3. PastEmail' \subseteq PastEmail \ {r}
      BY <2>3, <3>2 DEF PastEmail
    <3>4. Cardinality(PastEmail') + 1 <= Cardinality(PastEmail)
      BY <1>0, <3>1, <3>3, Sizes
    <3>. QED  BY <1>0, <1>1, <3>1, <3>4, SessionsAssumption DEF PassersBounded
  <2>4. CASE PastEmail' \subseteq PastEmail /\ fails'.email = fails.email
    <3>1. Cardinality(PastEmail') <= Cardinality(PastEmail)
      BY <1>0, <2>4, Sizes
    <3>. QED  BY <1>0, <1>1, <2>4, <3>1, SessionsAssumption DEF PassersBounded
  <2>5. \/ fails'.email = fails.email \/ fails'.email = 0 \/ \E r \in Requests : BumpEmail(r)
    BY <1>0, <1>2 DEF BumpIp, Clear
  <2>. QED  BY <2>1, <2>2, <2>3, <2>4, <2>5
<1>4. fails'.ip + Cardinality(PastIp') <= MaxPerIp + n - 1
  <2>1. CASE fails'.ip = 0
    BY <1>1, <2>1, SessionsAssumption
  <2>2. CASE \E q \in PastIp' : q \notin PastIp
    <3>1. PICK q \in Requests : q \in PastIp' /\ q \notin PastIp
      BY <1>0, <2>2
    <3>2. ~Waits(q)
      BY <3>1 DEF Waits, PastIp
    <3>3. fails.ip < MaxPerIp /\ fails' = fails
      BY <3>1, <3>2, RequestSteps DEF Arrives, PastIp
    <3>. QED  BY <1>0, <1>1, <3>3, SessionsAssumption
  <2>3. ASSUME PastIp' \subseteq PastIp, NEW r \in Requests, BumpIp(r)
        PROVE  fails'.ip + Cardinality(PastIp') <= MaxPerIp + n - 1
    <3>1. r \in PastIp /\ fails'.ip = fails.ip + 1
      BY <1>0, <2>3 DEF BumpIp, PastIp
    <3>2. req'[r].at = "idle"
      BY <1>0, <2>3 DEF BumpIp, End, Idle
    <3>3. PastIp' \subseteq PastIp \ {r}
      BY <2>3, <3>2 DEF PastIp
    <3>4. Cardinality(PastIp') + 1 <= Cardinality(PastIp)
      BY <1>0, <3>1, <3>3, Sizes
    <3>. QED  BY <1>0, <1>1, <3>1, <3>4, SessionsAssumption DEF PassersBounded
  <2>4. CASE PastIp' \subseteq PastIp /\ fails'.ip = fails.ip
    <3>1. Cardinality(PastIp') <= Cardinality(PastIp)
      BY <1>0, <2>4, Sizes
    <3>. QED  BY <1>0, <1>1, <2>4, <3>1, SessionsAssumption DEF PassersBounded
  <2>5. \/ fails'.ip = fails.ip \/ fails'.ip = 0 \/ \E r \in Requests : BumpIp(r)
    BY <1>0, <1>2 DEF BumpEmail, Clear
  <2>. QED  BY <2>1, <2>2, <2>3, <2>4, <2>5
<1>. QED  BY <1>3, <1>4 DEF PassersBounded

-----------------------------------------------------------------------------
(* The theorems. *)

LEMMA Initially == Init => IInv
<1>. SUFFICES ASSUME Init PROVE IInv
  OBVIOUS
<1>1. \A r \in Requests : req[r] = Idle
  BY DEF Init
<1>2. TypeOK
  BY IdleType, SessionsAssumption DEF Init, TypeOK, Token, OneTime, Code
<1>3. Holds /\ OldIsLate
  BY <1>1 DEF Holds, OldIsLate, OnTheWay, Idle
<1>4. UnusedIsNew /\ SingleUse
  BY DEF Init, UnusedIsNew, SingleUse
<1>5. OnlyLateSurvive
  BY DEF Init, OnlyLateSurvive
<1>6. RedeemersBounded
  <2>1. \A x : Rotating(x) = {} /\ Burning(x) = {}
    BY <1>1 DEF Rotating, Burning, Idle
  <2>2. Cardinality({}) = 0 /\ Cardinality(Requests) \in Nat
    BY FS_EmptySet, FS_CardinalityType, SessionsAssumption
  <2>3. (\A t \in Tokens : token[t].uses = 0) /\ (\A l \in Tickets : link[l].uses = 0)
    BY DEF Init
  <2>4. /\ \A t \in Tokens : Cardinality(Rotating(t)) = 0
        /\ \A l \in Tickets : Cardinality(Burning(l)) = 0
    BY <2>1, <2>2
  <2>5. /\ \A t \in Tokens : token[t].uses + Cardinality(Rotating(t)) = 0
        /\ \A l \in Tickets : link[l].uses + Cardinality(Burning(l)) = 0
    BY <2>3, <2>4
  <2>. QED  BY <2>2, <2>5 DEF RedeemersBounded
<1>7. PassersBounded
  <2>1. PastEmail = {} /\ PastIp = {}
    BY <1>1 DEF PastEmail, PastIp, Idle
  <2>2. Cardinality({}) = 0 /\ Cardinality(Requests) \in Nat
    BY FS_EmptySet, FS_CardinalityType, SessionsAssumption
  <2>. QED  BY <2>1, <2>2, SessionsAssumption DEF Init, PassersBounded
<1>. QED  BY <1>2, <1>3, <1>4, <1>5, <1>6, <1>7 DEF IInv, Core

LEMMA Invariance == Spec => []IInv
<1>1. ASSUME IInv, [Next]_vars PROVE IInv'
  <2>1. CASE Next
    <3>1. Core' /\ OldIsLate' /\ OnlyLateSurvive' /\ PassersBounded'
      BY <1>1, <2>1, CoreKept, LateKept, PassersKept DEF IInv
    <3>2. RedeemersBounded'
      BY <1>1, <2>1, RotatorsKept, BurnersKept DEF IInv, RedeemersBounded
    <3>. QED  BY <3>1, <3>2 DEF IInv
  <2>2. CASE UNCHANGED vars
    BY <1>1, <2>2
    DEF IInv, vars, Core, TypeOK, Holds, UnusedIsNew, SingleUse, OldIsLate, OnTheWay,
        OnlyLateSurvive, RedeemersBounded, Rotating, Burning, PassersBounded, PastEmail, PastIp
  <2>. QED  BY <1>1, <2>1, <2>2
<1>. QED  BY Initially, <1>1, PTL DEF Spec

LEMMA UsesAreNat ==
    ASSUME IInv
    PROVE  /\ \A t \in Tokens : token[t].uses \in Nat /\ Rotating(t) \subseteq Requests
           /\ \A l \in Tickets : link[l].uses \in Nat /\ Burning(l) \subseteq Requests
           /\ fails.email \in Nat /\ fails.ip \in Nat
           /\ PastEmail \subseteq Requests /\ PastIp \subseteq Requests
BY DEF IInv, Core, TypeOK, Token, OneTime, Rotating, Burning, PastEmail, PastIp

\* A reset link and a recovery code are acted on once: consumeToken and
\* verifySecondFactor look again in the update.
THEOREM UsedOnce == Spec => []SingleUse
BY Invariance, PTL DEF IInv, Core

\* refresh and exchangeTicket do not look again: a token is redeemed at most once
\* for every request that may have read it.
THEOREM RedeemedWithinOverlap == Spec => []OverlapBounded
<1>1. ASSUME IInv PROVE OverlapBounded
  BY <1>1, UsesAreNat, Sizes DEF IInv, RedeemersBounded, OverlapBounded
<1>. QED  BY Invariance, <1>1, PTL

\* The throttle on failed logins holds but for the requests that passed it before
\* the failures of others were counted.
THEOREM ThrottleHolds == Spec => []FailuresBounded
<1>1. ASSUME IInv PROVE FailuresBounded
  BY <1>1, UsesAreNat, Sizes, SessionsAssumption DEF IInv, PassersBounded, FailuresBounded
<1>. QED  BY Invariance, <1>1, PTL

\* A password reset ends every session, but for those that come of a request
\* that overlapped it or of a challenge that is older.
THEOREM ResetEndsSessions == Spec => []OnlyLateSurvive
BY Invariance, PTL DEF IInv

=============================================================================
