--------------------------- MODULE IdentityProofs ---------------------------
(***************************************************************************)
(* Nobody but the bootstrap administrator is verified or let in without    *)
(* having followed a link, unless verification is switched off; no company *)
(* is made up without its user; and a link that nobody will have goes back *)
(* to a request that stopped or a mail the server lost, for any number of  *)
(* users, tokens and requests that overlap and stop anywhere.              *)
(***************************************************************************)
EXTENDS Identity, FiniteSetTheorems, TLAPS

Names == Companies \cup Requisites \cup {None}

UserType == [exists : BOOLEAN, company : Names, admin : BOOLEAN, verified : BOOLEAN]

RequestType == [step : Steps, login : Logins \cup {None}, seen : UserType,
                token : Tokens \cup {None}, company : Names]

\* The types that the argument needs.
Types ==
  /\ user \in [Logins -> UserType]
  /\ token \in [Tokens -> TokenRow]
  /\ mail \subseteq Tokens /\ sessions \subseteq Logins
  /\ req \in [Workers -> RequestType]
  /\ verification \in BOOLEAN

\* The user has followed a link that was mailed to that login, or needs none.
Linked(x) ==
  \/ ~verification \/ x = AdminLogin
  \/ \E t \in mail : token[t].user = x /\ token[t].used

\* Steps that name a user and, up to the sending of a mail, a token.
Named == Steps \ {"idle", "company"}

\* A request that will write back a row it has read has read a verified one
\* only of a user who followed a link, and one that verifies an address holds a
\* token that was mailed to its user.
RequestOK(w) ==
  /\ req[w].step \in Named => req[w].login \in Logins
  /\ req[w].step = "send" => req[w].token \in Tokens
  /\ req[w].step \in {"promote", "verifySave"} /\ req[w].seen.verified => Linked(req[w].login)
  /\ req[w].step \in {"verify", "verifySave"} =>
       req[w].token \in mail /\ token[req[w].token].user = req[w].login

\* The inductive invariant.
IdentityInv == Types /\ VerifiedByLink /\ \A w \in Workers : RequestOK(w)

\* No step loses a mail, gives a token to another user or takes back its use.
LinksKept ==
  /\ UNCHANGED verification /\ mail \subseteq mail'
  /\ \A t \in Tokens : token[t].user # None =>
       token'[t].user = token[t].user /\ (token[t].used => token'[t].used)

\* Who has followed a link has followed it for good.
LEMMA LinkedStays ==
  ASSUME Types, LinksKept, NEW x \in Logins, Linked(x) PROVE Linked(x)'
<1>1. CASE ~verification \/ x = AdminLogin
  BY <1>1 DEF Linked, LinksKept
<1>2. CASE \E t \in mail : token[t].user = x /\ token[t].used
  <2>1. PICK t \in mail : token[t].user = x /\ token[t].used
    BY <1>2
  <2>2. t \in Tokens /\ x # None
    BY IdentityAssumption DEF Types
  <2>3. t \in mail' /\ token'[t].user = x /\ token'[t].used
    BY <2>1, <2>2 DEF LinksKept
  <2> QED BY <2>3 DEF Linked
<1> QED BY <1>1, <1>2 DEF Linked

\* A request that does not move stays right.
LEMMA RequestStays ==
  ASSUME IdentityInv, LinksKept, NEW w \in Workers, req'[w] = req[w]
  PROVE  RequestOK(w)'
<1>1. RequestOK(w) /\ Types
  BY DEF IdentityInv
<1>2. req[w].step \in {"promote", "verify", "verifySave"} => req[w].login \in Logins
  BY <1>1 DEF RequestOK, Named, Steps
<1>3. req[w].step \in {"promote", "verifySave"} /\ req[w].seen.verified => Linked(req[w].login)'
  BY <1>1, <1>2, LinkedStays DEF RequestOK
<1>4. req[w].step \in {"verify", "verifySave"} =>
        req[w].token \in mail' /\ token'[req[w].token].user = req[w].login
  <2> SUFFICES ASSUME req[w].step \in {"verify", "verifySave"}
               PROVE  req[w].token \in mail' /\ token'[req[w].token].user = req[w].login
    OBVIOUS
  <2>1. req[w].token \in mail /\ token[req[w].token].user = req[w].login
    BY <1>1 DEF RequestOK
  <2>2. req[w].token \in Tokens /\ req[w].login # None
    BY <1>1, <1>2, <2>1, IdentityAssumption DEF Types
  <2> QED BY <2>1, <2>2 DEF LinksKept
<1> QED BY <1>1, <1>3, <1>4 DEF RequestOK

\* A step keeps the invariant if it keeps the links, verifies only who has
\* followed one, lets in only who is verified, and moves one request at most.
LEMMA OneRequest ==
  ASSUME IdentityInv, Types', LinksKept,
         \A x \in Logins : user'[x].verified => user[x].verified \/ Linked(x)',
         \A x \in Logins : x \in sessions' =>
           x \in sessions \/ user[x].verified \/ Linked(x)',
         NEW w \in Workers, RequestOK(w)',
         \A v \in Workers : v # w => req'[v] = req[v]
  PROVE  IdentityInv'
<1>1. \A x \in Logins : user[x].verified \/ x \in sessions => Linked(x)'
  BY LinkedStays DEF IdentityInv, VerifiedByLink, Linked
<1>2. VerifiedByLink'
  BY <1>1 DEF VerifiedByLink, Linked
<1>3. \A v \in Workers : RequestOK(v)'
  BY RequestStays
<1> QED BY <1>2, <1>3 DEF IdentityInv

LEMMA NoRequests ==
  ASSUME IdentityInv, Types', LinksKept, UNCHANGED req,
         \A x \in Logins : user'[x].verified => user[x].verified \/ Linked(x)',
         \A x \in Logins : x \in sessions' =>
           x \in sessions \/ user[x].verified \/ Linked(x)'
  PROVE  IdentityInv'
<1>1. \A x \in Logins : user[x].verified \/ x \in sessions => Linked(x)'
  BY LinkedStays DEF IdentityInv, VerifiedByLink, Linked
<1>2. VerifiedByLink'
  BY <1>1 DEF VerifiedByLink, Linked
<1>3. \A v \in Workers : RequestOK(v)'
  BY RequestStays
<1> QED BY <1>2, <1>3 DEF IdentityInv

LEMMA InitInv == Init => IdentityInv
<1> SUFFICES ASSUME Init PROVE IdentityInv
  OBVIOUS
<1>1. NoUser \in UserType /\ NoToken \in TokenRow /\ NoRequest \in RequestType
  BY DEF NoUser, UserType, Names, NoToken, TokenRow, NoRequest, RequestType, Steps
<1>2. Types
  BY <1>1 DEF Init, Types
<1>3. VerifiedByLink
  BY DEF Init, VerifiedByLink, NoUser
<1>4. \A w \in Workers : RequestOK(w)
  BY DEF Init, RequestOK, NoRequest, Named
<1> QED BY <1>2, <1>3, <1>4 DEF IdentityInv

-----------------------------------------------------------------------------
(* The types of the pieces the actions write *)

LEMMA Parts ==
  ASSUME IdentityInv
  PROVE  /\ Types
         /\ \A x \in Logins : user[x] \in UserType
         /\ \A t \in Tokens : token[t] \in TokenRow
         /\ \A w \in Workers :
              /\ req[w] \in RequestType /\ req[w].step \in Steps
              /\ req[w].login \in Logins \cup {None} /\ req[w].seen \in UserType
              /\ req[w].token \in Tokens \cup {None} /\ req[w].company \in Names
         /\ NoUser \in UserType /\ NoToken \in TokenRow /\ NoRequest \in RequestType
BY DEF IdentityInv, Types, RequestType, NoUser, UserType, Names, NoToken, TokenRow,
       NoRequest, Steps

\* A request that begins, or ends: what it holds is given.
LEMMA RequestMoves ==
  ASSUME IdentityInv, NEW w \in Workers, NEW r \in RequestType,
         req' = [req EXCEPT ![w] = r]
  PROVE  /\ req' \in [Workers -> RequestType] /\ req'[w] = r
         /\ \A v \in Workers : v # w => req'[v] = req[v]
BY DEF IdentityInv, Types

\* Requests that only read.
LEMMA OnlyReads ==
  ASSUME IdentityInv, NEW w \in Workers, NEW r \in RequestType,
         req' = [req EXCEPT ![w] = r], UNCHANGED <<user, token, mail, undelivered, sessions, verification>>,
         r.step \in Named => r.login \in Logins,
         r.step = "send" => r.token \in Tokens,
         r.step \in {"promote", "verifySave"} /\ r.seen.verified => Linked(r.login),
         r.step \in {"verify", "verifySave"} =>
           r.token \in mail /\ token[r.token].user = r.login
  PROVE  IdentityInv'
<1>1. LinksKept
  BY DEF LinksKept
<1>2. Types'
  BY RequestMoves DEF IdentityInv, Types
<1>3. RequestOK(w)'
  BY RequestMoves DEF RequestOK, Linked
<1> QED BY <1>1, <1>2, <1>3, RequestMoves, OneRequest

\* A request ends without having changed anything that matters here.
LEMMA Ends ==
  ASSUME IdentityInv, NEW w \in Workers, Done(w), UNCHANGED <<user, token, mail, undelivered, sessions, verification>>
  PROVE  IdentityInv'
<1>1. NoRequest \in RequestType /\ NoRequest.step = "idle"
  BY Parts DEF NoRequest
<1> QED BY <1>1, OnlyReads DEF Done, Named

-----------------------------------------------------------------------------
(* Requests that read *)

LEMMA RegisterCompanyInv ==
  ASSUME IdentityInv, NEW w \in Workers, NEW q \in Requisites, RegisterCompany(w, q)
  PROVE  IdentityInv'
<1> DEFINE r == [NoRequest EXCEPT !.step = "company", !.company = q]
<1>1. r \in RequestType /\ r.step = "company"
  BY Parts DEF NoRequest, RequestType, Steps, Names
<1>2. req' = [req EXCEPT ![w] = r] /\ UNCHANGED <<user, token, mail, undelivered, sessions, verification>>
  BY DEF RegisterCompany
<1> HIDE DEF r
<1> QED BY <1>1, <1>2, OnlyReads DEF Named

LEMMA RegisterUserInv ==
  ASSUME IdentityInv, NEW w \in Workers, NEW x \in Logins, NEW c \in Companies \cup {None},
         RegisterUser(w, x, c)
  PROVE  IdentityInv'
<1> DEFINE r == [NoRequest EXCEPT !.step = "register", !.login = x, !.company = c]
<1>1. r \in RequestType /\ r.step = "register" /\ r.login = x
  BY Parts DEF NoRequest, RequestType, Steps, Names
<1>2. req' = [req EXCEPT ![w] = r] /\ UNCHANGED <<user, token, mail, undelivered, sessions, verification>>
  BY DEF RegisterUser
<1> HIDE DEF r
<1> QED BY <1>1, <1>2, OnlyReads

LEMMA PromoteToAdminInv ==
  ASSUME IdentityInv, NEW w \in Workers, NEW x \in Logins, PromoteToAdmin(w, x)
  PROVE  IdentityInv'
<1> DEFINE r == [NoRequest EXCEPT !.step = "promote", !.login = x, !.seen = user[x]]
<1>1. r \in RequestType /\ r.step = "promote" /\ r.login = x /\ r.seen = user[x]
  BY Parts DEF NoRequest, RequestType, Steps
<1>2. req' = [req EXCEPT ![w] = r] /\ UNCHANGED <<user, token, mail, undelivered, sessions, verification>>
  BY DEF PromoteToAdmin
<1>3. user[x].verified => Linked(x)
  BY DEF IdentityInv, VerifiedByLink, Linked
<1> HIDE DEF r
<1> QED BY <1>1, <1>2, <1>3, OnlyReads

LEMMA ResendVerificationInv ==
  ASSUME IdentityInv, NEW w \in Workers, NEW x \in Logins, ResendVerification(w, x)
  PROVE  IdentityInv'
<1> DEFINE r == [NoRequest EXCEPT !.step = "cooldown", !.login = x]
<1>1. r \in RequestType /\ r.step = "cooldown" /\ r.login = x
  BY Parts DEF NoRequest, RequestType, Steps
<1>2. req' = [req EXCEPT ![w] = r] /\ UNCHANGED <<user, token, mail, undelivered, sessions, verification>>
  BY DEF ResendVerification
<1> HIDE DEF r
<1> QED BY <1>1, <1>2, OnlyReads

LEMMA VerifyEmailInv ==
  ASSUME IdentityInv, NEW w \in Workers, NEW t \in Tokens, VerifyEmail(w, t)
  PROVE  IdentityInv'
<1> DEFINE r == [NoRequest EXCEPT !.step = "verify", !.token = t, !.login = token[t].user]
<1>1. token[t].user \in Logins /\ t \in mail
  BY Parts DEF VerifyEmail, TokenValid, Active, TokenRow
<1>2. /\ r \in RequestType /\ r.step = "verify" /\ r.token = t
      /\ r.login = token[t].user
  BY <1>1, Parts DEF NoRequest, RequestType, Steps
<1>3. req' = [req EXCEPT ![w] = r] /\ UNCHANGED <<user, token, mail, undelivered, sessions, verification>>
  BY DEF VerifyEmail
<1> HIDE DEF r
<1> QED BY <1>1, <1>2, <1>3, OnlyReads

LEMMA CheckCooldownInv ==
  ASSUME IdentityInv, NEW w \in Workers, CheckCooldown(w) PROVE IdentityInv'
<1> DEFINE r == [req[w] EXCEPT !.step = "revoke"]
<1>1. r \in RequestType /\ r.step = "revoke" /\ r.login = req[w].login
  BY Parts DEF RequestType, Steps
<1>2. req[w].login \in Logins
  BY DEF CheckCooldown, At, IdentityInv, RequestOK, Named, Steps
<1>3. /\ req' = [req EXCEPT ![w] = r] \/ Done(w)
      /\ UNCHANGED <<user, token, mail, undelivered, sessions, verification>>
  BY DEF CheckCooldown
<1> HIDE DEF r
<1> QED BY <1>1, <1>2, <1>3, OnlyReads, Ends

LEMMA VerifyReadsUserInv ==
  ASSUME IdentityInv, NEW w \in Workers, VerifyReadsUser(w) PROVE IdentityInv'
<1> DEFINE x == req[w].login
           r == [req[w] EXCEPT !.step = "verifySave", !.seen = user[x]]
<1>1. x \in Logins /\ req[w].token \in mail /\ token[req[w].token].user = x
  BY DEF VerifyReadsUser, At, IdentityInv, RequestOK, Named, Steps
<1>2. /\ r \in RequestType /\ r.step = "verifySave" /\ r.login = x
      /\ r.seen = user[x] /\ r.token = req[w].token
  BY <1>1, Parts DEF RequestType, Steps
<1>3. req' = [req EXCEPT ![w] = r] /\ UNCHANGED <<user, token, mail, undelivered, sessions, verification>>
  BY DEF VerifyReadsUser
<1>4. user[x].verified => Linked(x)
  BY <1>1 DEF IdentityInv, VerifiedByLink, Linked
<1> HIDE DEF r
<1> QED BY <1>1, <1>2, <1>3, <1>4, OnlyReads

-----------------------------------------------------------------------------
(* Requests that write *)

\* One token is written; what is linked stays so.
LEMMA TokenWritten ==
  ASSUME IdentityInv, NEW t \in Tokens, NEW y \in TokenRow,
         token' = [token EXCEPT ![t] = y],
         token[t].user # None => y.user = token[t].user /\ (token[t].used => y.used)
  PROVE  /\ token' \in [Tokens -> TokenRow] /\ token'[t] = y
         /\ \A k \in Tokens : token[k].user # None =>
              token'[k].user = token[k].user /\ (token[k].used => token'[k].used)
BY DEF IdentityInv, Types

\* A new token takes a free identifier.
LEMMA FreshTokenWritten ==
  ASSUME IdentityInv, NEW x \in Logins, \E t \in Tokens : token[t].user = None,
         token' = [token EXCEPT ![FreshToken] = NewToken(x)]
  PROVE  /\ FreshToken \in Tokens /\ token' \in [Tokens -> TokenRow]
         /\ \A k \in Tokens : token[k].user # None =>
              token'[k].user = token[k].user /\ (token[k].used => token'[k].used)
<1>1. FreshToken \in Tokens /\ token[FreshToken].user = None
  BY DEF FreshToken
<1>2. NewToken(x) \in TokenRow
  BY DEF NewToken, NoToken, TokenRow
<1> QED BY <1>1, <1>2, TokenWritten

LEMMA SaveTokenInv ==
  ASSUME IdentityInv, NEW w \in Workers, SaveToken(w) PROVE IdentityInv'
<1> DEFINE r == [req[w] EXCEPT !.step = "send", !.token = FreshToken]
<1>1. req[w].login \in Logins
  BY DEF SaveToken, At, IdentityInv, RequestOK, Named, Steps
<1>2. /\ FreshToken \in Tokens /\ token' \in [Tokens -> TokenRow]
      /\ \A k \in Tokens : token[k].user # None =>
           token'[k].user = token[k].user /\ (token[k].used => token'[k].used)
  BY <1>1, FreshTokenWritten DEF SaveToken
<1>3. /\ r \in RequestType /\ r.step = "send" /\ r.login = req[w].login
      /\ r.token = FreshToken
  BY <1>2, Parts DEF RequestType, Steps
<1>4. req' = [req EXCEPT ![w] = r] /\ UNCHANGED <<user, mail, undelivered, sessions, verification>>
  BY DEF SaveToken
<1> HIDE DEF r
<1>5. LinksKept
  BY <1>2, <1>4 DEF LinksKept
<1>6. Types'
  BY <1>2, <1>3, <1>4, RequestMoves DEF IdentityInv, Types
<1>7. RequestOK(w)'
  BY <1>1, <1>2, <1>3, <1>4, RequestMoves DEF RequestOK
<1> QED BY <1>3, <1>4, <1>5, <1>6, <1>7, RequestMoves, OneRequest

\* A login that is free gets a user who is not verified, unless no link is wanted.
LEMMA SaveUserInv ==
  ASSUME IdentityInv, NEW w \in Workers, SaveUser(w) PROVE IdentityInv'
<1> DEFINE x == req[w].login
           u == NewUser(RegistrationCompany(w))
           r == [req[w] EXCEPT !.step = "send", !.token = FreshToken]
<1>1. x \in Logins
  BY DEF SaveUser, At, IdentityInv, RequestOK, Named, Steps
<1>2. CASE user[x].exists
  BY <1>2, Ends DEF SaveUser
<1>3. CASE ~user[x].exists
  <2>1. /\ user' = [user EXCEPT ![x] = u] /\ FirstLink(w, x)
        /\ req[w].company = None => \E d \in Companies : company[d] = None
        /\ verification => \E t \in Tokens : token[t].user = None
        /\ UNCHANGED <<mail, sessions, verification>>
    BY <1>3 DEF SaveUser
  <2>2. RegistrationCompany(w) \in Names
    <3>1. CASE req[w].company = None
      BY <2>1, <3>1 DEF RegistrationCompany, FreshCompany, Names
    <3>2. CASE req[w].company # None
      BY <3>2, Parts DEF RegistrationCompany
    <3> QED BY <3>1, <3>2
  <2>3. u \in UserType /\ (u.verified <=> ~verification)
    BY <2>2, Parts DEF NewUser, NoUser, UserType, Types
  <2> HIDE DEF u
  <2>4. user' \in [Logins -> UserType]
    BY <1>1, <2>1, <2>3, Parts DEF Types
  <2>5. \A k \in Logins : user'[k].verified => user[k].verified \/ Linked(k)'
    BY <1>1, <2>1, <2>3, Parts DEF Types, Linked
  <2>6. CASE ~verification
    <3>1. UNCHANGED token /\ req' = [req EXCEPT ![w] = NoRequest] /\ NoRequest.step = "idle"
      BY <2>1, <2>6 DEF FirstLink, Done, NoRequest
    <3>2. LinksKept
      BY <2>1, <3>1 DEF LinksKept
    <3>3. Types'
      BY <2>1, <2>4, <3>1, RequestMoves, Parts DEF IdentityInv, Types
    <3>4. RequestOK(w)'
      BY <3>1, RequestMoves, Parts DEF RequestOK, Named
    <3> QED BY <2>1, <2>5, <3>1, <3>2, <3>3, <3>4, RequestMoves, Parts, OneRequest
  <2>7. CASE verification
    <3>1. /\ token' = [token EXCEPT ![FreshToken] = NewToken(x)]
          /\ req' = [req EXCEPT ![w] = r]
      BY <2>1, <2>7 DEF FirstLink
    <3>2. /\ FreshToken \in Tokens /\ token' \in [Tokens -> TokenRow]
          /\ \A k \in Tokens : token[k].user # None =>
               token'[k].user = token[k].user /\ (token[k].used => token'[k].used)
      BY <1>1, <2>1, <2>7, <3>1, FreshTokenWritten
    <3>3. r \in RequestType /\ r.step = "send" /\ r.login = x /\ r.token = FreshToken
      BY <3>2, Parts DEF RequestType, Steps
    <3> HIDE DEF r, x
    <3>4. LinksKept
      BY <2>1, <3>2 DEF LinksKept
    <3>5. Types'
      BY <2>1, <2>4, <3>1, <3>2, <3>3, RequestMoves DEF IdentityInv, Types
    <3>6. RequestOK(w)'
      BY <1>1, <3>1, <3>2, <3>3, RequestMoves DEF RequestOK
    <3> QED BY <2>1, <2>5, <3>1, <3>3, <3>4, <3>5, <3>6, RequestMoves, OneRequest
  <2> QED BY <2>6, <2>7
<1> QED BY <1>2, <1>3

\* The row read before is written back: it was verified only by a link.
LEMMA SavePromotedInv ==
  ASSUME IdentityInv, NEW w \in Workers, SavePromoted(w) PROVE IdentityInv'
<1> DEFINE u == [req[w].seen EXCEPT !.admin = TRUE]
<1>1. PICK x \in Logins : x = req[w].login /\ (req[w].seen.verified => Linked(x))
  BY DEF SavePromoted, At, IdentityInv, RequestOK, Named, Steps
<1>2. u \in UserType /\ u.verified = req[w].seen.verified
  BY Parts DEF UserType
<1>3. user' = [user EXCEPT ![x] = u] /\ UNCHANGED <<token, mail, undelivered, sessions, verification>>
  BY <1>1 DEF SavePromoted
<1>4. req' = [req EXCEPT ![w] = NoRequest] /\ NoRequest.step = "idle"
  BY DEF SavePromoted, Done, NoRequest
<1>5. LinksKept
  BY <1>3 DEF LinksKept
<1> HIDE DEF u
<1>6. Types'
  BY <1>1, <1>2, <1>3, <1>4, RequestMoves, Parts DEF IdentityInv, Types
<1>7. Linked(x) => Linked(x)'
  BY <1>1, <1>5, LinkedStays, Parts
<1>8. \A k \in Logins : user'[k].verified => user[k].verified \/ Linked(k)'
  <2> SUFFICES ASSUME NEW k \in Logins, user'[k].verified
               PROVE  user[k].verified \/ Linked(k)'
    OBVIOUS
  <2>1. CASE k = x
    <3>1. u.verified
      BY <1>1, <1>3, <2>1 DEF IdentityInv, Types
    <3> QED BY <1>1, <1>2, <1>7, <2>1, <3>1
  <2>2. CASE k # x
    BY <1>3, <2>2 DEF IdentityInv, Types
  <2> QED BY <2>1, <2>2
<1>9. RequestOK(w)'
  BY <1>4, RequestMoves, Parts DEF RequestOK, Named
<1> QED BY <1>3, <1>4, <1>5, <1>6, <1>8, <1>9, RequestMoves, Parts, OneRequest

\* The link is used up in the step that verifies its user.
LEMMA SaveVerifiedInv ==
  ASSUME IdentityInv, NEW w \in Workers, SaveVerified(w) PROVE IdentityInv'
<1>1. PICK x \in Logins, t \in mail :
        x = req[w].login /\ t = req[w].token /\ token[t].user = x
  BY DEF SaveVerified, At, IdentityInv, RequestOK, Named, Steps
<1>2. t \in Tokens
  BY <1>1, Parts DEF Types
<1> DEFINE u == [req[w].seen EXCEPT !.verified = TRUE]
           y == [token[t] EXCEPT !.used = TRUE]
<1>3. u \in UserType /\ y \in TokenRow /\ y.user = x /\ y.used
  BY <1>1, <1>2, Parts DEF UserType, TokenRow
<1>4. /\ user' = user \/ user' = [user EXCEPT ![x] = u]
      /\ token' = [token EXCEPT ![t] = y] /\ UNCHANGED <<mail, undelivered, sessions, verification>>
  BY <1>1 DEF SaveVerified
<1>5. req' = [req EXCEPT ![w] = NoRequest] /\ NoRequest.step = "idle"
  BY DEF SaveVerified, Done, NoRequest
<1> HIDE DEF u, y
<1>6. /\ token' \in [Tokens -> TokenRow] /\ token'[t] = y
      /\ \A k \in Tokens : token[k].user # None =>
           token'[k].user = token[k].user /\ (token[k].used => token'[k].used)
  BY <1>1, <1>2, <1>3, <1>4, TokenWritten
<1>7. LinksKept
  BY <1>4, <1>6 DEF LinksKept
<1>8. Linked(x)'
  BY <1>1, <1>3, <1>4, <1>6 DEF Linked
<1>9. Types'
  BY <1>1, <1>3, <1>4, <1>5, <1>6, RequestMoves, Parts DEF IdentityInv, Types
<1>10. \A k \in Logins : user'[k].verified => user[k].verified \/ Linked(k)'
  BY <1>1, <1>4, <1>8 DEF IdentityInv, Types
<1>11. RequestOK(w)'
  BY <1>5, RequestMoves, Parts DEF RequestOK, Named
<1> QED BY <1>4, <1>5, <1>7, <1>9, <1>10, <1>11, RequestMoves, Parts, OneRequest

LEMMA SendEmailInv ==
  ASSUME IdentityInv, NEW w \in Workers, SendEmail(w) PROVE IdentityInv'
<1> DEFINE r == [req[w] EXCEPT !.step = "sendFailed"]
<1>1. req[w].login \in Logins /\ req[w].token \in Tokens
  BY DEF SendEmail, At, IdentityInv, RequestOK, Named, Steps
<1>2. /\ r \in RequestType /\ r.step = "sendFailed" /\ r.login = req[w].login
      /\ NoRequest \in RequestType /\ NoRequest.step = "idle"
  BY Parts DEF RequestType, Steps, NoRequest
<1>3. mail \subseteq mail' /\ mail' \subseteq Tokens /\ UNCHANGED <<user, token, sessions, verification>>
  BY <1>1, Parts DEF SendEmail, Types
<1>4. req' = [req EXCEPT ![w] = r] \/ req' = [req EXCEPT ![w] = NoRequest]
  BY DEF SendEmail, Done
<1> HIDE DEF r
<1>5. LinksKept
  BY <1>3 DEF LinksKept
<1>6. Types'
  BY <1>2, <1>3, <1>4, RequestMoves DEF IdentityInv, Types
<1>7. RequestOK(w)'
  BY <1>1, <1>2, <1>4, RequestMoves DEF RequestOK, Named
<1> QED BY <1>2, <1>3, <1>4, <1>5, <1>6, <1>7, RequestMoves, OneRequest

\* Revoking changes neither the user of a token nor its use.
LEMMA RevokedKeeps ==
  ASSUME IdentityInv, NEW x, token' = Revoked(x)
  PROVE  /\ token' \in [Tokens -> TokenRow]
         /\ \A k \in Tokens : token'[k].user = token[k].user /\ token'[k].used = token[k].used
<1>1. \A k \in Tokens :
        LET y == [token[k] EXCEPT !.revoked = TRUE]
        IN  y \in TokenRow /\ y.user = token[k].user /\ y.used = token[k].used
  BY Parts DEF TokenRow
<1> QED BY <1>1, Parts DEF Revoked, Active

LEMMA RevokeInv ==
  ASSUME IdentityInv, NEW w \in Workers, RevokeAfterSendFailed(w) \/ RevokeOlder(w)
  PROVE  IdentityInv'
<1> DEFINE r == [req[w] EXCEPT !.step = "save"]
<1>1. RevokeOlder(w) => req[w].login \in Logins
  BY DEF RevokeOlder, At, IdentityInv, RequestOK, Named, Steps
<1>2. /\ r \in RequestType /\ r.step = "save" /\ r.login = req[w].login
      /\ NoRequest \in RequestType /\ NoRequest.step = "idle"
  BY Parts DEF RequestType, Steps, NoRequest
<1>3. /\ token' \in [Tokens -> TokenRow]
      /\ \A k \in Tokens : token'[k].user = token[k].user /\ token'[k].used = token[k].used
  BY RevokedKeeps DEF RevokeAfterSendFailed, RevokeOlder
<1>4. /\ \/ req' = [req EXCEPT ![w] = r] /\ RevokeOlder(w)
         \/ req' = [req EXCEPT ![w] = NoRequest]
      /\ UNCHANGED <<user, mail, undelivered, sessions, verification>>
  BY DEF RevokeAfterSendFailed, RevokeOlder, Done
<1> HIDE DEF r
<1>5. LinksKept
  BY <1>3, <1>4 DEF LinksKept
<1>6. Types'
  BY <1>2, <1>3, <1>4, RequestMoves DEF IdentityInv, Types
<1>7. RequestOK(w)'
  BY <1>1, <1>2, <1>4, RequestMoves DEF RequestOK, Named
<1> QED BY <1>2, <1>4, <1>5, <1>6, <1>7, RequestMoves, OneRequest

-----------------------------------------------------------------------------
(* Logins and time *)

LEMMA LoginInv == ASSUME IdentityInv, NEW x \in Logins, Login(x) PROVE IdentityInv'
<1>1. LinksKept
  BY DEF Login, LinksKept
<1>2. Types'
  BY DEF Login, IdentityInv, Types
<1>3. user[x].verified \/ Linked(x)'
  BY DEF Login, Linked, IdentityInv, Types
<1> QED BY <1>1, <1>2, <1>3, NoRequests DEF Login

\* The administrator is the one user who is verified without a link.
LEMMA BootstrapInv ==
  ASSUME IdentityInv, BootstrapCompany \/ \E c \in Companies : BootstrapAdmin(c)
  PROVE  IdentityInv'
<1>1. LinksKept
  BY DEF BootstrapCompany, BootstrapAdmin, LinksKept
<1>2. CASE BootstrapCompany
  <2>1. Types'
    BY <1>2 DEF BootstrapCompany, IdentityInv, Types
  <2> QED BY <1>1, <1>2, <2>1, NoRequests DEF BootstrapCompany
<1>3. ASSUME NEW c \in Companies, BootstrapAdmin(c) PROVE IdentityInv'
  <2> DEFINE u == [exists |-> TRUE, company |-> c, admin |-> TRUE, verified |-> TRUE]
  <2>1. u \in UserType /\ AdminLogin \in Logins
    BY <1>3, IdentityAssumption DEF UserType, Names, BootstrapAdmin, Serving
  <2>2. user' = [user EXCEPT ![AdminLogin] = u]
    BY <1>3 DEF BootstrapAdmin
  <2> HIDE DEF u
  <2>3. UNCHANGED <<token, mail, sessions, req, verification>>
    BY <1>3 DEF BootstrapAdmin
  <2>4. Types'
    BY <2>1, <2>2, <2>3 DEF IdentityInv, Types
  <2>5. \A k \in Logins : user'[k].verified => user[k].verified \/ Linked(k)'
    BY <2>1, <2>2 DEF IdentityInv, Types, Linked
  <2> QED BY <1>1, <2>3, <2>4, <2>5, NoRequests
<1> QED BY <1>2, <1>3

LEMMA TimeInv ==
  ASSUME IdentityInv, NEW t \in Tokens, CooldownPasses(t) \/ TokenExpires(t)
  PROVE  IdentityInv'
<1>1. PICK y \in {[token[t] EXCEPT !.recent = FALSE], [token[t] EXCEPT !.expired = TRUE]} :
        token' = [token EXCEPT ![t] = y]
  BY DEF CooldownPasses, TokenExpires
<1>2. y \in TokenRow /\ y.user = token[t].user /\ y.used = token[t].used
  BY Parts DEF TokenRow
<1>3. UNCHANGED <<user, mail, undelivered, sessions, req, verification>>
  BY DEF CooldownPasses, TokenExpires
<1>4. /\ token' \in [Tokens -> TokenRow]
      /\ \A k \in Tokens : token[k].user # None =>
           token'[k].user = token[k].user /\ (token[k].used => token'[k].used)
  BY <1>1, <1>2, TokenWritten
<1>5. LinksKept /\ Types'
  BY <1>3, <1>4 DEF LinksKept, IdentityInv, Types
<1> QED BY <1>3, <1>5, NoRequests

\* Every step keeps the invariant.
LEMMA NextInv == IdentityInv /\ [Next]_vars => IdentityInv'
<1> SUFFICES ASSUME IdentityInv, [Next]_vars PROVE IdentityInv'
  OBVIOUS
<1>0. CASE BootstrapCompany \/ \E c \in Companies : BootstrapAdmin(c)
  BY <1>0, BootstrapInv
<1>1. CASE \E w \in Workers, q \in Requisites : RegisterCompany(w, q)
  BY <1>1, RegisterCompanyInv
<1>2. CASE \E w \in Workers, x \in Logins, c \in Companies \cup {None} : RegisterUser(w, x, c)
  BY <1>2, RegisterUserInv
<1>3. CASE \E w \in Workers, x \in Logins : PromoteToAdmin(w, x) \/ ResendVerification(w, x)
  BY <1>3, PromoteToAdminInv, ResendVerificationInv
<1>4. CASE \E w \in Workers, t \in Tokens : VerifyEmail(w, t)
  BY <1>4, VerifyEmailInv
<1>5. ASSUME NEW w \in Workers, SaveCompany(w) \/ Stop(w)
      PROVE  IdentityInv'
  BY <1>5, Ends DEF SaveCompany, Stop
<1>6. ASSUME NEW w \in Workers,
             \/ SaveUser(w) \/ SavePromoted(w) \/ SendEmail(w) \/ RevokeAfterSendFailed(w)
             \/ CheckCooldown(w) \/ RevokeOlder(w) \/ SaveToken(w)
             \/ VerifyReadsUser(w) \/ SaveVerified(w)
      PROVE  IdentityInv'
  BY <1>6, SaveUserInv, SavePromotedInv, SendEmailInv, RevokeInv, CheckCooldownInv,
     SaveTokenInv, VerifyReadsUserInv, SaveVerifiedInv
<1>7. CASE \E x \in Logins : Login(x)
  BY <1>7, LoginInv
<1>8. CASE \E t \in Tokens : CooldownPasses(t) \/ TokenExpires(t)
  BY <1>8, TimeInv
<1>9. CASE UNCHANGED vars
  BY <1>9 DEF vars, IdentityInv, Types, VerifiedByLink, RequestOK, Linked
<1> QED BY <1>0, <1>1, <1>2, <1>3, <1>4, <1>5, <1>6, <1>7, <1>8, <1>9 DEF Next

\* With verification switched on, nobody but the bootstrap administrator is
\* verified, or was ever let in, without having followed a link that was mailed
\* to that login, although PromoteToAdmin and VerifyEmail write back rows they
\* read before.
THEOREM IdentityVerifiedByLink == Spec => []VerifiedByLink
<1>1. IdentityInv => VerifiedByLink
  BY DEF IdentityInv
<1> QED BY <1>1, InitInv, NextInv, PTL DEF Spec

\* The first invariant holds in every reachable state.
LEMMA Invariance == Spec => []IdentityInv
BY InitInv, NextInv, PTL DEF Spec

-----------------------------------------------------------------------------
(* Companies made up for users, and the types in full *)

\* Steps whose user exists.
Standing == {"promote", "cooldown", "revoke", "save", "send", "sendFailed", "verify",
             "verifySave"}

\* A request r against a table u of users and a table k of tokens: a row it will
\* write back names the company its user still has, the token it will mail is
\* one of its user, and only a request that mails or follows a link has one.
RequestIn(r, u, k) ==
  /\ r.step = "company" => r.company \in Requisites
  /\ r.step = "register" => r.login \in Logins /\ r.company \in Companies \cup {None}
  /\ r.step \in Standing => r.login \in Logins /\ u[r.login].exists
  /\ r.step \in {"promote", "verifySave"} =>
       r.seen.exists /\ r.seen.company = u[r.login].company
  /\ r.step \in {"send", "sendFailed"} => r.token \in Tokens /\ k[r.token].user = r.login
  /\ r.step \notin {"send", "sendFailed", "verify", "verifySave"} => r.token = None

\* Whoever has no row has no company.
NoRowNoCompany == \A x \in Logins : ~user[x].exists => user[x].company = None

TokenHasUser == \A t \in Tokens : token[t].user # None => user[token[t].user].exists

\* The second inductive invariant.
RowsInv ==
  /\ TypeOK /\ NoRowNoCompany /\ TokenHasUser /\ DummyCompanyHasUser
  /\ \A w \in Workers : RequestIn(req[w], user, token)

\* No user disappears or changes company, and no token changes its user.
Keeps(u, v, k, l) ==
  /\ \A x \in Logins : u[x].exists => v[x].exists /\ v[x].company = u[x].company
  /\ \A t \in Tokens : k[t].user # None => l[t].user = k[t].user

LEMMA RequestKept ==
  ASSUME NEW r, NEW u, NEW v, NEW k, NEW l, Keeps(u, v, k, l), RequestIn(r, u, k)
  PROVE  RequestIn(r, v, l)
<1>1. {"promote", "verifySave", "send", "sendFailed"} \subseteq Standing
  BY DEF Standing
<1>2. None \notin Logins
  BY IdentityAssumption
<1> QED BY <1>1, <1>2 DEF RequestIn, Keeps

\* The types of the parts of the state.
LEMMA RowParts ==
  ASSUME RowsInv
  PROVE  /\ user \in [Logins -> UserRow] /\ token \in [Tokens -> TokenRow]
         /\ company \in [Companies -> CompanyRow] /\ announced \subseteq Companies
         /\ mail \subseteq Tokens /\ undelivered \subseteq Tokens /\ sessions \subseteq Logins
         /\ stops \in 0..MaxStops /\ verification \in BOOLEAN
         /\ req \in [Workers -> [step : Steps, login : Logins \cup {None}, seen : UserRow,
                                 token : Tokens \cup {None},
                                 company : Companies \cup Requisites \cup {None}]]
BY DEF RowsInv, TypeOK

RequestRow == [step : Steps, login : Logins \cup {None}, seen : UserRow,
               token : Tokens \cup {None}, company : Companies \cup Requisites \cup {None}]

LEMMA RequestParts ==
  ASSUME RowsInv, NEW w \in Workers
  PROVE  /\ req[w] \in RequestRow /\ req[w].step \in Steps
         /\ req[w].login \in Logins \cup {None} /\ req[w].seen \in UserRow
         /\ req[w].token \in Tokens \cup {None}
         /\ req[w].company \in Companies \cup Requisites \cup {None}
         /\ RequestIn(req[w], user, token)
BY RowParts DEF RequestRow, RowsInv

LEMMA NoRequestRow ==
  NoRequest \in RequestRow /\ NoRequest.step = "idle" /\ NoRequest.token = None
BY DEF NoRequest, RequestRow, Steps, NoUser, UserRow

\* What a step does to one request, and that it keeps the rows.
LEMMA OneRow ==
  ASSUME RowsInv, NEW w \in Workers, NEW r \in RequestRow, req' = [req EXCEPT ![w] = r],
         RequestIn(r, user', token'), Keeps(user, user', token, token'),
         user' \in [Logins -> UserRow], token' \in [Tokens -> TokenRow],
         \A x \in Logins : user'[x].exists => user'[x].company \in Companies,
         company' \in [Companies -> CompanyRow], announced' \subseteq Companies,
         mail' \subseteq Tokens, undelivered' \subseteq Tokens, sessions' \subseteq Logins,
         stops' \in 0..MaxStops, verification' \in BOOLEAN,
         NoRowNoCompany', TokenHasUser', DummyCompanyHasUser'
  PROVE  RowsInv'
<1>1. req \in [Workers -> RequestRow]
  BY RowParts DEF RequestRow
<1>2. req' \in [Workers -> RequestRow] /\ \A v \in Workers : req'[v] = IF v = w THEN r ELSE req[v]
  BY <1>1
<1>3. \A v \in Workers : RequestIn(req[v], user', token')
  BY RequestKept DEF RowsInv
<1>4. \A v \in Workers : RequestIn(req[v], user, token)'
  BY <1>2, <1>3
<1>5. TypeOK'
  BY <1>2 DEF TypeOK, RequestRow
<1> QED BY <1>4, <1>5 DEF RowsInv

\* A step that changes a request and none of the tables.
LEMMA OnlyRequest ==
  ASSUME RowsInv, NEW w \in Workers, NEW r \in RequestRow, req' = [req EXCEPT ![w] = r],
         RequestIn(r, user, token), UNCHANGED <<user, company, announced, token, sessions, verification>>,
         mail' \subseteq Tokens, undelivered' \subseteq Tokens, stops' \in 0..MaxStops
  PROVE  RowsInv'
<1>1. Keeps(user, user', token, token') /\ RequestIn(r, user', token')
  BY DEF Keeps
<1>2. NoRowNoCompany' /\ TokenHasUser' /\ DummyCompanyHasUser'
  BY DEF RowsInv, NoRowNoCompany, TokenHasUser, DummyCompanyHasUser
<1>3. \A x \in Logins : user'[x].exists => user'[x].company \in Companies
  BY DEF RowsInv, TypeOK
<1> QED BY <1>1, <1>2, <1>3, OneRow, RowParts

LEMMA RowsInit == Init => RowsInv
<1> SUFFICES ASSUME Init PROVE RowsInv
  OBVIOUS
<1>1. NoUser \in UserRow /\ NoToken \in TokenRow /\ ~NoUser.exists /\ NoUser.company = None
  BY DEF NoUser, UserRow, NoToken, TokenRow
<1>2. TypeOK
  BY <1>1, NoRequestRow, IdentityAssumption DEF Init, TypeOK, CompanyRow, RequestRow
<1>3. NoRowNoCompany /\ TokenHasUser
  BY <1>1 DEF Init, NoRowNoCompany, TokenHasUser, NoToken
<1>4. DummyCompanyHasUser
  BY IdentityAssumption DEF Init, DummyCompanyHasUser
<1>5. \A w \in Workers : RequestIn(req[w], user, token)
  BY NoRequestRow DEF Init, RequestIn, Standing
<1> QED BY <1>2, <1>3, <1>4, <1>5 DEF RowsInv

\* A request that ends leaves the rows as they are.
LEMMA IdleRow == RequestIn(NoRequest, user, token) /\ RequestIn(NoRequest, user, token)'
BY NoRequestRow DEF RequestIn, Standing

LEMMA EndsRows ==
  ASSUME RowsInv, NEW w \in Workers, Done(w), stops' \in 0..MaxStops,
         mail' \subseteq Tokens, undelivered' \subseteq Tokens,
         UNCHANGED <<user, company, announced, token, sessions, verification>>
  PROVE  RowsInv'
BY NoRequestRow, IdleRow, OnlyRequest DEF Done

\* Requests that begin.
LEMMA BeginsRows ==
  ASSUME RowsInv, NEW w \in Workers,
         \/ \E q \in Requisites : RegisterCompany(w, q)
         \/ \E x \in Logins, c \in Companies \cup {None} : RegisterUser(w, x, c)
         \/ \E x \in Logins : PromoteToAdmin(w, x) \/ ResendVerification(w, x)
         \/ \E t \in Tokens : VerifyEmail(w, t)
  PROVE  RowsInv'
<1>1. CASE \E q \in Requisites : RegisterCompany(w, q)
  <2>1. PICK q \in Requisites : RegisterCompany(w, q)
    BY <1>1
  <2> DEFINE r == [NoRequest EXCEPT !.step = "company", !.company = q]
  <2>2. r \in RequestRow /\ r.step = "company" /\ r.token = None /\ r.company = q
    BY NoRequestRow DEF NoRequest, RequestRow, Steps
  <2>3. /\ req' = [req EXCEPT ![w] = r]
        /\ UNCHANGED <<user, company, announced, token, sessions, mail, undelivered, stops, verification>>
    BY <2>1 DEF RegisterCompany
  <2> HIDE DEF r
  <2>4. RequestIn(r, user, token)
    BY <2>2 DEF RequestIn, Standing
  <2> QED BY <2>2, <2>3, <2>4, OnlyRequest, RowParts
<1>2. CASE \E x \in Logins, c \in Companies \cup {None} : RegisterUser(w, x, c)
  <2>1. PICK x \in Logins, c \in Companies \cup {None} : RegisterUser(w, x, c)
    BY <1>2
  <2> DEFINE r == [NoRequest EXCEPT !.step = "register", !.login = x, !.company = c]
  <2>2. /\ r \in RequestRow /\ r.step = "register" /\ r.token = None
        /\ r.login = x /\ r.company = c
    BY NoRequestRow DEF NoRequest, RequestRow, Steps
  <2>3. /\ req' = [req EXCEPT ![w] = r]
        /\ UNCHANGED <<user, company, announced, token, sessions, mail, undelivered, stops, verification>>
    BY <2>1 DEF RegisterUser
  <2> HIDE DEF r
  <2>4. RequestIn(r, user, token)
    BY <2>2 DEF RequestIn, Standing
  <2> QED BY <2>2, <2>3, <2>4, OnlyRequest, RowParts
<1>3. CASE \E x \in Logins : PromoteToAdmin(w, x)
  <2>1. PICK x \in Logins : PromoteToAdmin(w, x)
    BY <1>3
  <2> DEFINE r == [NoRequest EXCEPT !.step = "promote", !.login = x, !.seen = user[x]]
  <2>2. /\ r \in RequestRow /\ r.step = "promote" /\ r.token = None
        /\ r.login = x /\ r.seen = user[x]
    BY NoRequestRow, RowParts DEF NoRequest, RequestRow, Steps
  <2>3. /\ req' = [req EXCEPT ![w] = r] /\ user[x].exists
        /\ UNCHANGED <<user, company, announced, token, sessions, mail, undelivered, stops, verification>>
    BY <2>1 DEF PromoteToAdmin
  <2> HIDE DEF r
  <2>4. RequestIn(r, user, token)
    BY <2>2, <2>3 DEF RequestIn, Standing
  <2> QED BY <2>2, <2>3, <2>4, OnlyRequest, RowParts
<1>4. CASE \E x \in Logins : ResendVerification(w, x)
  <2>1. PICK x \in Logins : ResendVerification(w, x)
    BY <1>4
  <2> DEFINE r == [NoRequest EXCEPT !.step = "cooldown", !.login = x]
  <2>2. r \in RequestRow /\ r.step = "cooldown" /\ r.token = None /\ r.login = x
    BY NoRequestRow DEF NoRequest, RequestRow, Steps
  <2>3. /\ req' = [req EXCEPT ![w] = r] /\ user[x].exists
        /\ UNCHANGED <<user, company, announced, token, sessions, mail, undelivered, stops, verification>>
    BY <2>1 DEF ResendVerification
  <2> HIDE DEF r
  <2>4. RequestIn(r, user, token)
    BY <2>2, <2>3 DEF RequestIn, Standing
  <2> QED BY <2>2, <2>3, <2>4, OnlyRequest, RowParts
<1>5. CASE \E t \in Tokens : VerifyEmail(w, t)
  <2>1. PICK t \in Tokens : VerifyEmail(w, t)
    BY <1>5
  <2> DEFINE r == [NoRequest EXCEPT !.step = "verify", !.token = t, !.login = token[t].user]
  <2>2. token[t].user \in Logins
    BY <2>1, RowParts DEF VerifyEmail, TokenValid, Active, TokenRow
  <2>3. r \in RequestRow /\ r.step = "verify" /\ r.token = t /\ r.login = token[t].user
    BY <2>2, NoRequestRow DEF NoRequest, RequestRow, Steps
  <2>4. /\ req' = [req EXCEPT ![w] = r]
        /\ UNCHANGED <<user, company, announced, token, sessions, mail, undelivered, stops, verification>>
    BY <2>1 DEF VerifyEmail
  <2>5. user[token[t].user].exists
    BY <2>2, IdentityAssumption DEF RowsInv, TokenHasUser
  <2> HIDE DEF r
  <2>6. RequestIn(r, user, token)
    BY <2>2, <2>3, <2>5 DEF RequestIn, Standing
  <2> QED BY <2>3, <2>4, <2>6, OnlyRequest, RowParts
<1> QED BY <1>1, <1>2, <1>3, <1>4, <1>5

\* Requests that go on without writing.
LEMMA GoesOnRows ==
  ASSUME RowsInv, NEW w \in Workers,
         CheckCooldown(w) \/ VerifyReadsUser(w) \/ SendEmail(w) \/ Stop(w)
  PROVE  RowsInv'
<1>1. CASE CheckCooldown(w)
  <2> DEFINE r == [req[w] EXCEPT !.step = "revoke"]
  <2>1. r \in RequestRow /\ r.step = "revoke" /\ r.login = req[w].login /\ r.token = req[w].token
    BY RequestParts DEF RequestRow, Steps
  <2>2. /\ req' = [req EXCEPT ![w] = r] \/ Done(w)
        /\ req[w].step = "cooldown"
        /\ UNCHANGED <<user, company, announced, token, sessions, mail, undelivered, stops, verification>>
    BY <1>1 DEF CheckCooldown, At
  <2> HIDE DEF r
  <2>3. RequestIn(r, user, token)
    BY <2>1, <2>2, RequestParts DEF RequestIn, Standing
  <2> QED BY <2>1, <2>2, <2>3, OnlyRequest, EndsRows, RowParts
<1>2. CASE VerifyReadsUser(w)
  <2>1. PICK x \in Logins : x = req[w].login /\ user[x].exists /\ req[w].step = "verify"
    BY <1>2, RequestParts DEF VerifyReadsUser, At, RequestIn, Standing
  <2> DEFINE r == [req[w] EXCEPT !.step = "verifySave", !.seen = user[x]]
  <2>2. /\ r \in RequestRow /\ r.step = "verifySave" /\ r.login = x
        /\ r.seen = user[x] /\ r.token = req[w].token
    BY <2>1, RequestParts, RowParts DEF RequestRow, Steps
  <2>3. /\ req' = [req EXCEPT ![w] = r]
        /\ UNCHANGED <<user, company, announced, token, sessions, mail, undelivered, stops, verification>>
    BY <1>2, <2>1 DEF VerifyReadsUser
  <2> HIDE DEF r
  <2>4. RequestIn(r, user, token)
    BY <2>1, <2>2 DEF RequestIn, Standing
  <2> QED BY <2>2, <2>3, <2>4, OnlyRequest, RowParts
<1>3. CASE SendEmail(w)
  <2> DEFINE r == [req[w] EXCEPT !.step = "sendFailed"]
  <2>1. r \in RequestRow /\ r.step = "sendFailed" /\ r.login = req[w].login /\ r.token = req[w].token
    BY RequestParts DEF RequestRow, Steps
  <2>2. /\ req' = [req EXCEPT ![w] = r] \/ Done(w)
        /\ req[w].step = "send" /\ mail' \subseteq mail \cup {req[w].token}
        /\ undelivered' \subseteq undelivered \cup {req[w].token}
        /\ UNCHANGED <<user, company, announced, token, sessions, stops, verification>>
    BY <1>3 DEF SendEmail, At
  <2> HIDE DEF r
  <2>3. RequestIn(r, user, token) /\ req[w].token \in Tokens
    BY <2>1, <2>2, RequestParts DEF RequestIn, Standing
  <2>4. mail' \subseteq Tokens /\ undelivered' \subseteq Tokens
    BY <2>2, <2>3, RowParts
  <2> QED BY <2>1, <2>2, <2>3, <2>4, OnlyRequest, EndsRows, RowParts
<1>4. CASE Stop(w)
  <2>1. stops' \in 0..MaxStops
    BY <1>4, RowParts, IdentityAssumption DEF Stop
  <2> QED BY <1>4, <2>1, EndsRows, RowParts DEF Stop
<1> QED BY <1>1, <1>2, <1>3, <1>4

\* The requisites of a company are never those of a made-up one.
LEMMA SaveCompanyRows == ASSUME RowsInv, NEW w \in Workers, SaveCompany(w) PROVE RowsInv'
<1>1. PICK c \in Companies : c = FreshCompany /\ company[c] = None
  BY DEF SaveCompany, FreshCompany
<1>2. PICK q \in Requisites : q = req[w].company
  BY RequestParts DEF SaveCompany, At, RequestIn
<1>3. /\ company' = [company EXCEPT ![c] = q] /\ announced' = announced \cup {c}
      /\ req' = [req EXCEPT ![w] = NoRequest]
      /\ UNCHANGED <<user, token, mail, undelivered, sessions, stops, verification>>
  BY <1>1, <1>2 DEF SaveCompany, PublishCompanyCreated, Done
<1>4. company' \in [Companies -> CompanyRow] /\ announced' \subseteq Companies
  BY <1>3, RowParts DEF CompanyRow
<1>5. \A d \in Companies : company'[d] = "dummy" => company[d] = "dummy"
  BY <1>3, RowParts, IdentityAssumption
<1>6. DummyCompanyHasUser'
  BY <1>3, <1>5 DEF RowsInv, DummyCompanyHasUser
<1>7. Keeps(user, user', token, token')
  BY <1>3 DEF Keeps
<1>8. NoRowNoCompany' /\ TokenHasUser'
  BY <1>3 DEF RowsInv, NoRowNoCompany, TokenHasUser
<1>9. \A x \in Logins : user'[x].exists => user'[x].company \in Companies
  BY <1>3 DEF RowsInv, TypeOK
<1> QED BY <1>3, <1>4, <1>6, <1>7, <1>8, <1>9, OneRow, RowParts, NoRequestRow, IdleRow

\* A row that is written back has the company that the row has.
LEMMA WriteBack ==
  ASSUME RowsInv, NEW w \in Workers, NEW x \in Logins, NEW u \in UserRow,
         u.exists, user[x].exists, u.company = user[x].company,
         user' = user \/ user' = [user EXCEPT ![x] = u],
         token' \in [Tokens -> TokenRow],
         \A t \in Tokens : token'[t].user = token[t].user,
         Done(w), UNCHANGED <<company, announced, mail, undelivered, sessions, stops, verification>>
  PROVE  RowsInv'
<1>1. user \in [Logins -> UserRow]
  BY RowParts
<1>2. /\ user' \in [Logins -> UserRow]
      /\ \A y \in Logins : /\ user'[y].exists <=> user[y].exists
                            /\ user'[y].company = user[y].company
  <2>1. CASE user' = user
    BY <1>1, <2>1
  <2>2. CASE user' = [user EXCEPT ![x] = u]
    BY <1>1, <2>2
  <2> QED BY <2>1, <2>2
<1>3. Keeps(user, user', token, token')
  BY <1>2 DEF Keeps
<1>4. NoRowNoCompany'
  BY <1>2 DEF RowsInv, NoRowNoCompany
<1>5. TokenHasUser'
  <2> SUFFICES ASSUME NEW t \in Tokens, token'[t].user # None
               PROVE  user'[token'[t].user].exists
    BY DEF TokenHasUser
  <2>1. token[t].user \in Logins
    BY RowParts DEF TokenRow
  <2> QED BY <1>2, <2>1 DEF RowsInv, TokenHasUser
<1>6. DummyCompanyHasUser'
  BY <1>2 DEF RowsInv, DummyCompanyHasUser
<1>7. \A y \in Logins : user'[y].exists => user'[y].company \in Companies
  BY <1>2 DEF RowsInv, TypeOK
<1> QED BY <1>2, <1>3, <1>4, <1>5, <1>6, <1>7, OneRow, RowParts, NoRequestRow, IdleRow DEF Done

LEMMA SavePromotedRows == ASSUME RowsInv, NEW w \in Workers, SavePromoted(w) PROVE RowsInv'
<1>1. PICK x \in Logins : /\ x = req[w].login /\ user[x].exists
                          /\ req[w].seen.exists /\ req[w].seen.company = user[x].company
  BY RequestParts DEF SavePromoted, At, RequestIn, Standing
<1> DEFINE u == [req[w].seen EXCEPT !.admin = TRUE]
<1>2. u \in UserRow /\ u.exists /\ u.company = user[x].company
  BY <1>1, RequestParts DEF UserRow
<1>3. /\ user' = [user EXCEPT ![x] = u] /\ Done(w)
      /\ UNCHANGED <<company, announced, token, mail, undelivered, sessions, stops, verification>>
  BY <1>1 DEF SavePromoted
<1> HIDE DEF u
<1> QED BY <1>1, <1>2, <1>3, WriteBack, RowParts

LEMMA SaveVerifiedRows == ASSUME RowsInv, NEW w \in Workers, SaveVerified(w) PROVE RowsInv'
<1>1. PICK x \in Logins : /\ x = req[w].login /\ user[x].exists
                          /\ req[w].seen.exists /\ req[w].seen.company = user[x].company
  BY RequestParts DEF SaveVerified, At, RequestIn, Standing
<1> DEFINE u == [req[w].seen EXCEPT !.verified = TRUE]
<1>2. u \in UserRow /\ u.exists /\ u.company = user[x].company
  BY <1>1, RequestParts DEF UserRow
<1>3. /\ user' = user \/ user' = [user EXCEPT ![x] = u]
      /\ token' = [token EXCEPT ![req[w].token].used = TRUE] /\ Done(w)
      /\ UNCHANGED <<company, announced, mail, undelivered, sessions, stops, verification>>
  BY <1>1 DEF SaveVerified
<1>4. /\ token' \in [Tokens -> TokenRow]
      /\ \A t \in Tokens : token'[t].user = token[t].user
  <2>1. token \in [Tokens -> TokenRow]
    BY RowParts
  <2>2. CASE req[w].token \in Tokens
    <3> DEFINE y == [token[req[w].token] EXCEPT !.used = TRUE]
    <3>1. y \in TokenRow /\ y.user = token[req[w].token].user
      BY <2>1, <2>2 DEF TokenRow
    <3>2. token' = [token EXCEPT ![req[w].token] = y]
      BY <1>3
    <3> HIDE DEF y
    <3> QED BY <2>1, <2>2, <3>1, <3>2
  <2>3. CASE req[w].token \notin Tokens
    <3>1. token' = token
      BY <1>3, <2>1, <2>3
    <3> QED BY <2>1, <3>1
  <2> QED BY <2>2, <2>3
<1> HIDE DEF u
<1> QED BY <1>1, <1>2, <1>3, <1>4, WriteBack

\* Tokens change, but not their users.
LEMMA TokensOnly ==
  ASSUME RowsInv, NEW w \in Workers, NEW r \in RequestRow, req' = [req EXCEPT ![w] = r],
         RequestIn(r, user, token), token' \in [Tokens -> TokenRow],
         \A t \in Tokens : token[t].user # None => token'[t].user = token[t].user,
         TokenHasUser', UNCHANGED <<user, company, announced, mail, undelivered, sessions, stops, verification>>
  PROVE  RowsInv'
<1>1. Keeps(user, user', token, token')
  BY DEF Keeps
<1>2. RequestIn(r, user', token')
  BY <1>1, RequestKept
<1>3. NoRowNoCompany' /\ DummyCompanyHasUser'
  BY DEF RowsInv, NoRowNoCompany, DummyCompanyHasUser
<1>4. \A x \in Logins : user'[x].exists => user'[x].company \in Companies
  BY DEF RowsInv, TypeOK
<1> QED BY <1>1, <1>2, <1>3, <1>4, OneRow, RowParts

LEMMA RevokedRows ==
  ASSUME RowsInv, NEW x, token' = Revoked(x), UNCHANGED user
  PROVE  /\ token' \in [Tokens -> TokenRow]
         /\ \A k \in Tokens : token'[k].user = token[k].user
         /\ TokenHasUser'
<1>1. \A k \in Tokens :
        [token[k] EXCEPT !.revoked = TRUE] \in TokenRow
        /\ [token[k] EXCEPT !.revoked = TRUE].user = token[k].user
  BY RowParts DEF TokenRow
<1>2. /\ token' \in [Tokens -> TokenRow]
      /\ \A k \in Tokens : token'[k].user = token[k].user
  BY <1>1, RowParts DEF Revoked, Active
<1> QED BY <1>2 DEF RowsInv, TokenHasUser

LEMMA RevokeRows ==
  ASSUME RowsInv, NEW w \in Workers, RevokeAfterSendFailed(w) \/ RevokeOlder(w) PROVE RowsInv'
<1> DEFINE r == [req[w] EXCEPT !.step = "save"]
<1>1. r \in RequestRow /\ r.step = "save" /\ r.login = req[w].login /\ r.token = req[w].token
  BY RequestParts DEF RequestRow, Steps
<1>2. /\ \/ req' = [req EXCEPT ![w] = r] /\ req[w].step = "revoke"
         \/ req' = [req EXCEPT ![w] = NoRequest]
      /\ UNCHANGED <<user, company, announced, mail, undelivered, sessions, stops, verification>>
  BY DEF RevokeAfterSendFailed, RevokeOlder, Done, At
<1>3. /\ token' \in [Tokens -> TokenRow]
      /\ \A k \in Tokens : token'[k].user = token[k].user
      /\ TokenHasUser'
  BY RevokedRows DEF RevokeAfterSendFailed, RevokeOlder
<1> HIDE DEF r
<1>4. req[w].step = "revoke" => RequestIn(r, user, token)
  BY <1>1, RequestParts DEF RequestIn, Standing
<1> QED BY <1>1, <1>2, <1>3, <1>4, TokensOnly, NoRequestRow, IdleRow

\* A new token takes a free identifier, for a user that exists.
LEMMA NewTokenRows ==
  ASSUME RowsInv, NEW x \in Logins, \E t \in Tokens : token[t].user = None,
         token' = [token EXCEPT ![FreshToken] = NewToken(x)]
  PROVE  /\ FreshToken \in Tokens /\ token[FreshToken].user = None
         /\ token' \in [Tokens -> TokenRow] /\ token'[FreshToken] = NewToken(x)
         /\ NewToken(x).user = x
         /\ \A k \in Tokens : k # FreshToken => token'[k] = token[k]
<1>1. FreshToken \in Tokens /\ token[FreshToken].user = None
  BY DEF FreshToken
<1>2. NewToken(x) \in TokenRow /\ NewToken(x).user = x
  BY DEF NewToken, NoToken, TokenRow
<1> QED BY <1>1, <1>2, RowParts

LEMMA SaveTokenRows == ASSUME RowsInv, NEW w \in Workers, SaveToken(w) PROVE RowsInv'
<1>1. PICK x \in Logins : x = req[w].login /\ user[x].exists
  BY RequestParts DEF SaveToken, At, RequestIn, Standing
<1>2. /\ FreshToken \in Tokens /\ token[FreshToken].user = None
      /\ token' \in [Tokens -> TokenRow] /\ token'[FreshToken].user = x
      /\ \A k \in Tokens : k # FreshToken => token'[k] = token[k]
  BY <1>1, NewTokenRows DEF SaveToken
<1> DEFINE r == [req[w] EXCEPT !.step = "send", !.token = FreshToken]
<1>3. r \in RequestRow /\ r.step = "send" /\ r.login = x /\ r.token = FreshToken
  BY <1>1, <1>2, RequestParts DEF RequestRow, Steps
<1>4. /\ req' = [req EXCEPT ![w] = r]
      /\ UNCHANGED <<user, company, announced, mail, undelivered, sessions, stops, verification>>
  BY DEF SaveToken
<1> HIDE DEF r
<1>5. RequestIn(r, user', token')
  BY <1>1, <1>2, <1>3, <1>4 DEF RequestIn, Standing
<1>6. Keeps(user, user', token, token')
  BY <1>2, <1>4 DEF Keeps
<1>7. TokenHasUser'
  BY <1>1, <1>2, <1>4 DEF RowsInv, TokenHasUser
<1>8. NoRowNoCompany' /\ DummyCompanyHasUser'
  BY <1>4 DEF RowsInv, NoRowNoCompany, DummyCompanyHasUser
<1>9. \A y \in Logins : user'[y].exists => user'[y].company \in Companies
  BY <1>4 DEF RowsInv, TypeOK
<1> QED BY <1>2, <1>3, <1>4, <1>5, <1>6, <1>7, <1>8, <1>9, OneRow, RowParts

\* Company, event, user and token appear together, and the login was free.
LEMMA SaveUserRows == ASSUME RowsInv, NEW w \in Workers, SaveUser(w) PROVE RowsInv'
<1>1. PICK x \in Logins : x = req[w].login
  BY RequestParts DEF SaveUser, At, RequestIn
<1>2. CASE user[x].exists
  BY <1>1, <1>2, EndsRows, RowParts DEF SaveUser
<1>3. CASE ~user[x].exists
  <2> DEFINE c == RegistrationCompany(w)
             own == req[w].company = None
             u == NewUser(c)
  <2>1. c \in Companies /\ (own => company[c] = None)
    <3>1. CASE own
      BY <1>1, <1>3, <3>1 DEF SaveUser, RegistrationCompany, FreshCompany
    <3>2. CASE ~own
      BY <3>2, RequestParts DEF SaveUser, At, RequestIn, RegistrationCompany
    <3> QED BY <3>1, <3>2
  <2>2. u \in UserRow /\ u.exists /\ u.company = c
    BY <2>1, RowParts DEF NewUser, NoUser, UserRow
  <2>3. /\ token' \in [Tokens -> TokenRow]
        /\ \A k \in Tokens : token'[k] = token[k] \/ (token[k].user = None /\ token'[k].user = x)
    <3>1. CASE verification
      BY <1>1, <1>3, <3>1, NewTokenRows DEF SaveUser, FirstLink
    <3>2. CASE ~verification
      BY <1>1, <1>3, <3>2, RowParts DEF SaveUser, FirstLink
    <3> QED BY <3>1, <3>2
  <2>4. PICK r \in RequestRow :
          /\ req' = [req EXCEPT ![w] = r]
          /\ \/ r = NoRequest
             \/ /\ r.step = "send" /\ r.login = x
                /\ r.token \in Tokens /\ token'[r.token].user = x
    <3>1. CASE verification
      <4> DEFINE r == [req[w] EXCEPT !.step = "send", !.token = FreshToken]
      <4>1. FreshToken \in Tokens /\ token'[FreshToken].user = x
        BY <1>1, <1>3, <3>1, NewTokenRows DEF SaveUser, FirstLink
      <4>2. r \in RequestRow /\ r.step = "send" /\ r.login = x /\ r.token = FreshToken
        BY <1>1, <4>1, RequestParts DEF RequestRow, Steps
      <4>3. req' = [req EXCEPT ![w] = r]
        BY <1>1, <1>3, <3>1 DEF SaveUser, FirstLink
      <4> HIDE DEF r
      <4> QED BY <4>1, <4>2, <4>3
    <3>2. CASE ~verification
      BY <1>1, <1>3, <3>2, NoRequestRow DEF SaveUser, FirstLink, Done
    <3> QED BY <3>1, <3>2
  <2>5. /\ user' = [user EXCEPT ![x] = u]
        /\ UNCHANGED <<mail, undelivered, sessions, stops, verification>>
    BY <1>1, <1>3 DEF SaveUser
  <2>6. /\ own => company' = [company EXCEPT ![c] = "dummy"] /\ announced' = announced \cup {c}
        /\ ~own => UNCHANGED <<company, announced>>
    BY <1>1, <1>3 DEF SaveUser, PublishCompanyCreated
  <2> HIDE DEF c, u, own
  <2>7. /\ user' \in [Logins -> UserRow] /\ user'[x] = u
        /\ \A y \in Logins : y # x => user'[y] = user[y]
    BY <2>2, <2>5, RowParts
  <2>8. Keeps(user, user', token, token')
    BY <1>3, <2>3, <2>7 DEF Keeps
  <2>9. RequestIn(r, user', token')
    BY <2>2, <2>4, <2>7, IdleRow DEF RequestIn, Standing
  <2>10. NoRowNoCompany'
    BY <2>2, <2>7 DEF RowsInv, NoRowNoCompany
  <2>11. TokenHasUser'
    <3> SUFFICES ASSUME NEW t \in Tokens, token'[t].user # None
                 PROVE  user'[token'[t].user].exists
      BY DEF TokenHasUser
    <3>1. CASE token'[t].user = x
      BY <2>2, <2>7, <3>1
    <3>2. CASE token'[t].user # x
      <4>1. token'[t] = token[t] /\ token[t].user \in Logins
        BY <2>3, <3>2, RowParts DEF TokenRow
      <4>2. user[token[t].user].exists
        BY <4>1 DEF RowsInv, TokenHasUser
      <4> QED BY <4>1, <4>2, <2>8 DEF Keeps
    <3> QED BY <3>1, <3>2
  <2>12. company' \in [Companies -> CompanyRow] /\ announced' \subseteq Companies
    BY <2>1, <2>6, RowParts DEF CompanyRow
  <2>13. DummyCompanyHasUser'
    <3> SUFFICES ASSUME NEW d \in Companies, company'[d] = "dummy"
                 PROVE  d \in announced' /\ \E y \in Logins : user'[y].company = d
      BY DEF DummyCompanyHasUser
    <3>1. CASE company[d] = "dummy"
      <4>1. d \in announced /\ \E y \in Logins : user[y].company = d
        BY <3>1 DEF RowsInv, DummyCompanyHasUser
      <4>2. PICK y \in Logins : user[y].company = d
        BY <4>1
      <4>3. user[y].exists
        BY <4>2, IdentityAssumption DEF RowsInv, NoRowNoCompany
      <4>4. user'[y].company = d
        BY <2>8, <4>2, <4>3 DEF Keeps
      <4> QED BY <2>6, <4>1, <4>4
    <3>2. CASE company[d] # "dummy"
      <4>1. own /\ d = c
        BY <2>1, <2>6, <3>2, RowParts
      <4> QED BY <2>2, <2>6, <2>7, <4>1
    <3> QED BY <3>1, <3>2
  <2>14. \A y \in Logins : user'[y].exists => user'[y].company \in Companies
    BY <2>1, <2>2, <2>7 DEF RowsInv, TypeOK
  <2> QED BY <2>3, <2>4, <2>5, <2>7, <2>8, <2>9, <2>10, <2>11, <2>12, <2>13, <2>14,
             OneRow, RowParts
<1> QED BY <1>2, <1>3

\* Logins and the passing of time.
LEMMA LoginTimeRows ==
  ASSUME RowsInv, \/ \E x \in Logins : Login(x)
                  \/ \E t \in Tokens : CooldownPasses(t) \/ TokenExpires(t)
  PROVE  RowsInv'
<1>1. UNCHANGED <<user, company, announced, mail, undelivered, req, stops, verification>> /\ sessions' \subseteq Logins
  BY RowParts DEF Login, CooldownPasses, TokenExpires
<1>2. token' \in [Tokens -> TokenRow] /\ \A k \in Tokens : token'[k].user = token[k].user
  <2>1. token \in [Tokens -> TokenRow]
    BY RowParts
  <2>2. CASE \E x \in Logins : Login(x)
    BY <2>1, <2>2 DEF Login
  <2>3. ASSUME NEW t \in Tokens, CooldownPasses(t) \/ TokenExpires(t)
        PROVE  /\ token' \in [Tokens -> TokenRow]
               /\ \A k \in Tokens : token'[k].user = token[k].user
    <3>1. PICK y \in {[token[t] EXCEPT !.recent = FALSE], [token[t] EXCEPT !.expired = TRUE]} :
            token' = [token EXCEPT ![t] = y]
      BY <2>3 DEF CooldownPasses, TokenExpires
    <3>2. y \in TokenRow /\ y.user = token[t].user
      BY <2>1 DEF TokenRow
    <3> QED BY <2>1, <3>1, <3>2
  <2> QED BY <2>2, <2>3
<1>3. TypeOK' /\ NoRowNoCompany' /\ TokenHasUser' /\ DummyCompanyHasUser'
  BY <1>1, <1>2 DEF RowsInv, TypeOK, NoRowNoCompany, TokenHasUser, DummyCompanyHasUser
<1>4. Keeps(user, user', token, token')
  BY <1>1, <1>2 DEF Keeps
<1>5. \A w \in Workers : RequestIn(req[w], user', token')
  BY <1>4, RequestKept DEF RowsInv
<1> QED BY <1>1, <1>3, <1>5 DEF RowsInv

\* The administrator's company is not made up, and its login was free.
LEMMA BootstrapRows ==
  ASSUME RowsInv, BootstrapCompany \/ \E c \in Companies : BootstrapAdmin(c)
  PROVE  RowsInv'
<1>1. UNCHANGED <<token, mail, undelivered, sessions, req, stops, verification>>
  BY DEF BootstrapCompany, BootstrapAdmin
<1>2. CASE BootstrapCompany
  <2>1. PICK d \in Companies : d = FreshCompany /\ company[d] = None
    BY <1>2 DEF BootstrapCompany, FreshCompany
  <2>2. /\ company' = [company EXCEPT ![d] = AdminRequisites]
        /\ announced' = announced \cup {d} /\ UNCHANGED user
    BY <1>2, <2>1 DEF BootstrapCompany, PublishCompanyCreated
  <2>3. company' \in [Companies -> CompanyRow] /\ announced' \subseteq Companies
    BY <2>2, RowParts, IdentityAssumption DEF CompanyRow
  <2>4. \A e \in Companies : company'[e] = "dummy" => company[e] = "dummy"
    BY <2>2, RowParts, IdentityAssumption
  <2> QED BY <1>1, <2>2, <2>3, <2>4
          DEF RowsInv, TypeOK, NoRowNoCompany, TokenHasUser, DummyCompanyHasUser
<1>3. ASSUME NEW c \in Companies, BootstrapAdmin(c) PROVE RowsInv'
  <2> DEFINE u == [exists |-> TRUE, company |-> c, admin |-> TRUE, verified |-> TRUE]
  <2>1. u \in UserRow /\ u.exists /\ u.company = c
    BY DEF UserRow
  <2>2. AdminLogin \in Logins /\ ~user[AdminLogin].exists
    BY <1>3, IdentityAssumption DEF BootstrapAdmin, Serving
  <2>3. user' = [user EXCEPT ![AdminLogin] = u] /\ UNCHANGED <<company, announced>>
    BY <1>3 DEF BootstrapAdmin
  <2> HIDE DEF u
  <2>4. /\ user' \in [Logins -> UserRow] /\ user'[AdminLogin] = u
        /\ \A y \in Logins : y # AdminLogin => user'[y] = user[y]
    BY <2>1, <2>2, <2>3, RowParts
  <2>5. Keeps(user, user', token, token')
    BY <1>1, <2>2, <2>4 DEF Keeps
  <2>6. \A w \in Workers : RequestIn(req[w], user', token')
    BY <2>5, RequestKept DEF RowsInv
  <2>7. NoRowNoCompany'
    BY <2>1, <2>4 DEF RowsInv, NoRowNoCompany
  <2>8. TokenHasUser'
    <3> SUFFICES ASSUME NEW t \in Tokens, token[t].user # None
                 PROVE  user'[token[t].user].exists
      BY <1>1 DEF TokenHasUser
    <3>1. token[t].user \in Logins /\ user[token[t].user].exists
      BY RowParts DEF TokenRow, RowsInv, TokenHasUser
    <3> QED BY <2>5, <3>1 DEF Keeps
  <2>9. DummyCompanyHasUser'
    <3> SUFFICES ASSUME NEW d \in Companies, company[d] = "dummy"
                 PROVE  d \in announced /\ \E y \in Logins : user'[y].company = d
      BY <2>3 DEF DummyCompanyHasUser
    <3>1. PICK y \in Logins : d \in announced /\ user[y].company = d
      BY DEF RowsInv, DummyCompanyHasUser
    <3>2. user[y].exists
      BY <3>1, IdentityAssumption DEF RowsInv, NoRowNoCompany
    <3> QED BY <2>5, <3>1, <3>2 DEF Keeps
  <2>10. TypeOK'
    BY <1>1, <2>1, <2>3, <2>4 DEF RowsInv, TypeOK
  <2> QED BY <1>1, <2>6, <2>7, <2>8, <2>9, <2>10 DEF RowsInv
<1> QED BY <1>2, <1>3

\* Every step keeps the rows.
LEMMA RowsNext == RowsInv /\ [Next]_vars => RowsInv'
<1> SUFFICES ASSUME RowsInv, [Next]_vars PROVE RowsInv'
  OBVIOUS
<1>0. CASE BootstrapCompany \/ \E c \in Companies : BootstrapAdmin(c)
  BY <1>0, BootstrapRows
<1>1. CASE \/ \E w \in Workers, q \in Requisites : RegisterCompany(w, q)
           \/ \E w \in Workers, x \in Logins, c \in Companies \cup {None} : RegisterUser(w, x, c)
           \/ \E w \in Workers, x \in Logins : PromoteToAdmin(w, x) \/ ResendVerification(w, x)
           \/ \E w \in Workers, t \in Tokens : VerifyEmail(w, t)
  BY <1>1, BeginsRows
<1>2. ASSUME NEW w \in Workers,
             \/ SaveCompany(w) \/ SaveUser(w) \/ SavePromoted(w)
             \/ SendEmail(w) \/ RevokeAfterSendFailed(w)
             \/ CheckCooldown(w) \/ RevokeOlder(w) \/ SaveToken(w)
             \/ VerifyReadsUser(w) \/ SaveVerified(w) \/ Stop(w)
      PROVE  RowsInv'
  BY <1>2, SaveCompanyRows, SaveUserRows, SavePromotedRows, GoesOnRows, RevokeRows,
     SaveTokenRows, SaveVerifiedRows
<1>3. CASE \/ \E x \in Logins : Login(x)
           \/ \E t \in Tokens : CooldownPasses(t) \/ TokenExpires(t)
  BY <1>3, LoginTimeRows
<1>4. CASE UNCHANGED vars
  BY <1>4 DEF vars, RowsInv, TypeOK, NoRowNoCompany, TokenHasUser, DummyCompanyHasUser
<1> QED BY <1>0, <1>1, <1>2, <1>3, <1>4 DEF Next

LEMMA RowsInvariance == Spec => []RowsInv
BY RowsInit, RowsNext, PTL DEF Spec

\* The rows of users, companies and tokens and what every request holds stay
\* well-formed; who exists has a company.
THEOREM IdentityTypeOK == Spec => []TypeOK
<1>1. RowsInv => TypeOK
  BY DEF RowsInv
<1> QED BY <1>1, RowsInvariance, PTL

\* A company made up for a user never exists without that user and without
\* having been announced, however registrations of a login overlap.
THEOREM IdentityDummyCompanyHasUser == Spec => []DummyCompanyHasUser
<1>1. RowsInv => DummyCompanyHasUser
  BY DEF RowsInv
<1> QED BY <1>1, RowsInvariance, PTL

-----------------------------------------------------------------------------
(* Links that nobody will ever have *)

\* An active token whose link nobody has and nobody is about to send, and whose
\* mail did not get lost after the server accepted it.
Lost == {t \in Tokens : Active(t) /\ t \notin mail \cup undelivered
                        /\ ~\E w \in Workers : req[w].token = t}

LostInv == stops \in Nat /\ IsFiniteSet(Lost) /\ Cardinality(Lost) <= stops

\* A set that gains one element at most.
LEMMA OneAdded ==
  ASSUME NEW S, IsFiniteSet(S), NEW x, NEW T, T \subseteq S \cup {x}
  PROVE  IsFiniteSet(T) /\ Cardinality(T) <= Cardinality(S) + 1
<1>1. Cardinality(S) \in Nat
  BY FS_CardinalityType
<1>2. /\ IsFiniteSet(S \cup {x})
      /\ Cardinality(S \cup {x}) = IF x \in S THEN Cardinality(S) ELSE Cardinality(S) + 1
  BY FS_AddElement
<1>3. IsFiniteSet(T) /\ Cardinality(T) <= Cardinality(S \cup {x})
  BY <1>2, FS_Subset
<1> QED BY <1>1, <1>2, <1>3, FS_CardinalityType

LEMMA NoneLost == ASSUME LostInv, UNCHANGED stops, Lost' \subseteq Lost PROVE LostInv'
<1>1. IsFiniteSet(Lost') /\ Cardinality(Lost') <= Cardinality(Lost)
  BY FS_Subset DEF LostInv
<1>2. Cardinality(Lost) \in Nat /\ Cardinality(Lost') \in Nat
  BY <1>1, FS_CardinalityType DEF LostInv
<1> QED BY <1>1, <1>2 DEF LostInv

\* A request that stops loses the token it has.
LEMMA StopLost == ASSUME RowsInv, LostInv, NEW w \in Workers, Stop(w) PROVE LostInv'
<1>1. /\ stops' = stops + 1 /\ UNCHANGED <<token, mail, undelivered, verification>>
      /\ \A v \in Workers : v # w => req'[v] = req[v]
  BY RowParts DEF Stop, Done
<1>2. Lost' \subseteq Lost \cup {req[w].token}
  BY <1>1 DEF Lost, Active
<1>3. IsFiniteSet(Lost') /\ Cardinality(Lost') <= Cardinality(Lost) + 1
  BY <1>2, OneAdded DEF LostInv
<1>4. Cardinality(Lost) \in Nat /\ Cardinality(Lost') \in Nat
  BY <1>3, FS_CardinalityType DEF LostInv
<1> QED BY <1>1, <1>3, <1>4 DEF LostInv

\* No token is lost if none becomes active but the one that request w has now,
\* and w gives up only a token that has been mailed or is not active any more.
LEMMA KeepsTokens ==
  ASSUME LostInv, UNCHANGED stops, NEW w \in Workers,
         mail \subseteq mail', undelivered \subseteq undelivered',
         \A v \in Workers : v # w => req'[v] = req[v],
         \A t \in Tokens : Active(t)' => Active(t) \/ req'[w].token = t,
         \A t \in Tokens : req[w].token = t =>
           \/ req'[w].token = t \/ t \in mail' \cup undelivered' \/ ~Active(t)'
  PROVE  LostInv'
<1>1. Lost' \subseteq Lost
  <2> SUFFICES ASSUME NEW t \in Tokens, t \in Lost' PROVE t \in Lost
    BY DEF Lost
  <2>1. Active(t)' /\ t \notin mail' \cup undelivered' /\ ~\E v \in Workers : req'[v].token = t
    BY DEF Lost
  <2>2. Active(t) /\ t \notin mail \cup undelivered
    BY <2>1
  <2>3. ~\E v \in Workers : req[v].token = t
    BY <2>1
  <2> QED BY <2>2, <2>3 DEF Lost
<1> QED BY <1>1, NoneLost

LEMMA LostInit == Init => LostInv
<1> SUFFICES ASSUME Init PROVE LostInv
  OBVIOUS
<1>1. Lost = {} /\ stops = 0
  BY DEF Init, Lost, Active, NoToken
<1> QED BY <1>1, FS_EmptySet DEF LostInv

\* A request that has no token may do anything but make one active.
LEMMA TokenlessLost ==
  ASSUME LostInv, NEW w \in Workers, UNCHANGED <<mail, undelivered, stops, verification>>,
         \A v \in Workers : v # w => req'[v] = req[v], req[w].token = None,
         \A t \in Tokens : Active(t)' => Active(t) \/ req'[w].token = t
  PROVE  LostInv'
BY KeepsTokens, IdentityAssumption

LEMMA BeginsLost ==
  ASSUME RowsInv, LostInv, NEW w \in Workers,
         \/ \E q \in Requisites : RegisterCompany(w, q)
         \/ \E x \in Logins, c \in Companies \cup {None} : RegisterUser(w, x, c)
         \/ \E x \in Logins : PromoteToAdmin(w, x) \/ ResendVerification(w, x)
         \/ \E t \in Tokens : VerifyEmail(w, t)
         \/ SaveCompany(w) \/ SavePromoted(w) \/ CheckCooldown(w)
  PROVE  LostInv'
<1>1. req[w].step \in {"idle", "company", "promote", "cooldown"}
  BY DEF RegisterCompany, RegisterUser, PromoteToAdmin, ResendVerification, VerifyEmail, Free,
         Idle,          SaveCompany, SavePromoted, CheckCooldown, At
<1>2. req[w].token = None
  BY <1>1, RequestParts DEF RequestIn
<1>3. UNCHANGED <<token, mail, undelivered, stops, verification>>
  BY DEF RegisterCompany, RegisterUser, PromoteToAdmin, ResendVerification, VerifyEmail,
         SaveCompany, SavePromoted, CheckCooldown
<1>4. \A v \in Workers : v # w => req'[v] = req[v]
  BY RowParts
  DEF RegisterCompany, RegisterUser, PromoteToAdmin, ResendVerification, VerifyEmail,
      SaveCompany, SavePromoted, CheckCooldown, Done
<1>5. \A t \in Tokens : Active(t)' => Active(t)
  BY <1>3 DEF Active
<1> QED BY <1>2, <1>3, <1>4, <1>5, TokenlessLost

LEMMA NewActive ==
  ASSUME RowsInv, NEW x \in Logins, \E t \in Tokens : token[t].user = None,
         token' = [token EXCEPT ![FreshToken] = NewToken(x)]
  PROVE  \A t \in Tokens : Active(t)' => Active(t) \/ t = FreshToken
BY NewTokenRows DEF Active

LEMMA SaveTokenLost ==
  ASSUME RowsInv, LostInv, NEW w \in Workers, SaveToken(w) \/ SaveUser(w) PROVE LostInv'
<1>1. req[w].step \in {"save", "register"} /\ req[w].login \in Logins /\ req[w].token = None
  BY RequestParts DEF SaveToken, SaveUser, At, RequestIn, Standing
<1>2. UNCHANGED <<mail, undelivered, stops, verification>> /\ \A v \in Workers : v # w => req'[v] = req[v]
  BY RowParts DEF SaveToken, SaveUser, FirstLink, Done
<1>3. CASE UNCHANGED token
  <2>1. \A t \in Tokens : Active(t)' => Active(t)
    BY <1>3 DEF Active
  <2> QED BY <1>1, <1>2, <2>1, TokenlessLost
<1>4. CASE /\ \E t \in Tokens : token[t].user = None
           /\ token' = [token EXCEPT ![FreshToken] = NewToken(req[w].login)]
           /\ req' = [req EXCEPT ![w].step = "send", ![w].token = FreshToken]
  <2>1. \A t \in Tokens : Active(t)' => Active(t) \/ t = FreshToken
    BY <1>1, <1>4, NewActive
  <2>2. req'[w].token = FreshToken
    BY <1>4, RequestParts, RowParts DEF RequestRow
  <2> QED BY <1>1, <1>2, <2>1, <2>2, TokenlessLost
<1> QED BY <1>3, <1>4 DEF SaveToken, SaveUser, FirstLink

LEMMA RevokedActive ==
  ASSUME RowsInv, NEW x, token' = Revoked(x)
  PROVE  /\ \A t \in Tokens : Active(t)' => Active(t)
         /\ \A t \in Tokens : token[t].user = x => ~Active(t)'
<1>1. \A t \in Tokens : [token[t] EXCEPT !.revoked = TRUE].revoked
  BY RowParts DEF TokenRow
<1>2. \A t \in Tokens : token'[t] = IF token[t].user = x /\ Active(t)
                                    THEN [token[t] EXCEPT !.revoked = TRUE] ELSE token[t]
  BY DEF Revoked
<1> QED BY <1>1, <1>2 DEF Active

\* All tokens of the user go when the mail server reports an error, the one
\* that was to be mailed among them.
LEMMA RevokeLost ==
  ASSUME RowsInv, LostInv, NEW w \in Workers, RevokeAfterSendFailed(w) \/ RevokeOlder(w)
  PROVE  LostInv'
<1>1. /\ \A t \in Tokens : Active(t)' => Active(t)
      /\ \A t \in Tokens : token[t].user = req[w].login => ~Active(t)'
  BY RevokedActive DEF RevokeAfterSendFailed, RevokeOlder
<1>2. UNCHANGED <<mail, undelivered, stops, verification>> /\ \A v \in Workers : v # w => req'[v] = req[v]
  BY RowParts DEF RevokeAfterSendFailed, RevokeOlder, Done
<1>3. \/ req[w].step = "sendFailed" /\ token[req[w].token].user = req[w].login
      \/ req[w].step = "revoke" /\ req[w].token = None
  BY RequestParts DEF RevokeAfterSendFailed, RevokeOlder, At, RequestIn
<1> QED BY <1>1, <1>2, <1>3, KeepsTokens, TokenlessLost

LEMMA SendEmailLost ==
  ASSUME RowsInv, LostInv, NEW w \in Workers, SendEmail(w) PROVE LostInv'
<1>1. UNCHANGED <<token, stops, verification>> /\ mail \subseteq mail' /\ undelivered \subseteq undelivered'
  BY DEF SendEmail
<1>2. \A v \in Workers : v # w => req'[v] = req[v]
  BY RowParts DEF SendEmail, Done
<1>3. req[w].token \in mail' \cup undelivered' \/ req'[w].token = req[w].token
  BY RowParts, RequestParts DEF SendEmail, RequestRow
<1>4. \A t \in Tokens : Active(t)' => Active(t)
  BY <1>1 DEF Active
<1> QED BY <1>1, <1>2, <1>3, <1>4, KeepsTokens

\* Who follows a link has it from a mail.
LEMMA VerifyLost ==
  ASSUME IdentityInv, RowsInv, LostInv, NEW w \in Workers, VerifyReadsUser(w) \/ SaveVerified(w)
  PROVE  LostInv'
<1>1. req[w].token \in mail
  BY DEF VerifyReadsUser, SaveVerified, At, IdentityInv, RequestOK
<1>2. UNCHANGED <<mail, undelivered, stops, verification>> /\ \A v \in Workers : v # w => req'[v] = req[v]
  BY RowParts DEF VerifyReadsUser, SaveVerified, Done
<1>3. \A t \in Tokens : Active(t)' => Active(t)
  <2>1. CASE UNCHANGED token
    BY <2>1 DEF Active
  <2>2. CASE SaveVerified(w)
    <3> DEFINE y == [token[req[w].token] EXCEPT !.used = TRUE]
    <3>1. req[w].token \in Tokens
      BY <1>1, RowParts
    <3>2. y.used
      BY <3>1, RowParts DEF TokenRow
    <3>3. token' = [token EXCEPT ![req[w].token] = y]
      BY <2>2 DEF SaveVerified
    <3> HIDE DEF y
    <3> QED BY <3>1, <3>2, <3>3, RowParts DEF Active
  <2> QED BY <2>1, <2>2 DEF VerifyReadsUser
<1> QED BY <1>1, <1>2, <1>3, KeepsTokens

LEMMA LoginTimeLost ==
  ASSUME RowsInv, LostInv, \/ \E x \in Logins : Login(x)
                           \/ \E t \in Tokens : CooldownPasses(t) \/ TokenExpires(t)
  PROVE  LostInv'
<1>1. UNCHANGED <<mail, undelivered, req, stops, verification>>
  BY DEF Login, CooldownPasses, TokenExpires
<1>2. ASSUME NEW t \in Tokens, Active(t)' PROVE Active(t)
  <2>1. CASE UNCHANGED token
    BY <1>2, <2>1 DEF Active
  <2>2. ASSUME NEW k \in Tokens, CooldownPasses(k) \/ TokenExpires(k) PROVE Active(t)
    <3>1. PICK y \in {[token[k] EXCEPT !.recent = FALSE], [token[k] EXCEPT !.expired = TRUE]} :
            token' = [token EXCEPT ![k] = y]
      BY <2>2 DEF CooldownPasses, TokenExpires
    <3>2. Active(k)
      BY <2>2 DEF CooldownPasses, TokenExpires
    <3>3. t # k => token'[t] = token[t]
      BY <3>1, RowParts
    <3> QED BY <1>2, <3>2, <3>3 DEF Active
  <2> QED BY <2>1, <2>2 DEF Login
<1>3. Lost' \subseteq Lost
  BY <1>1, <1>2 DEF Lost
<1> QED BY <1>1, <1>3, NoneLost

\* Every step keeps the account of what was lost.
LEMMA LostNext == IdentityInv /\ RowsInv /\ LostInv /\ [Next]_vars => LostInv'
<1> SUFFICES ASSUME IdentityInv, RowsInv, LostInv, [Next]_vars PROVE LostInv'
  OBVIOUS
<1>0. CASE BootstrapCompany \/ \E c \in Companies : BootstrapAdmin(c)
  <2>1. Lost' \subseteq Lost /\ UNCHANGED stops
    BY <1>0 DEF BootstrapCompany, BootstrapAdmin, Lost, Active
  <2> QED BY <2>1, NoneLost
<1>1. CASE \/ \E w \in Workers, q \in Requisites : RegisterCompany(w, q)
           \/ \E w \in Workers, x \in Logins, c \in Companies \cup {None} : RegisterUser(w, x, c)
           \/ \E w \in Workers, x \in Logins : PromoteToAdmin(w, x) \/ ResendVerification(w, x)
           \/ \E w \in Workers, t \in Tokens : VerifyEmail(w, t)
  BY <1>1, BeginsLost
<1>2. ASSUME NEW w \in Workers,
             \/ SaveCompany(w) \/ SaveUser(w) \/ SavePromoted(w)
             \/ SendEmail(w) \/ RevokeAfterSendFailed(w)
             \/ CheckCooldown(w) \/ RevokeOlder(w) \/ SaveToken(w)
             \/ VerifyReadsUser(w) \/ SaveVerified(w) \/ Stop(w)
      PROVE  LostInv'
  BY <1>2, BeginsLost, SaveTokenLost, SendEmailLost, RevokeLost, VerifyLost, StopLost
<1>3. CASE \/ \E x \in Logins : Login(x)
           \/ \E t \in Tokens : CooldownPasses(t) \/ TokenExpires(t)
  BY <1>3, LoginTimeLost
<1>4. CASE UNCHANGED vars
  <2>1. Lost' \subseteq Lost /\ UNCHANGED stops
    BY <1>4 DEF vars, Lost, Active
  <2> QED BY <2>1, NoneLost
<1> QED BY <1>0, <1>1, <1>2, <1>3, <1>4 DEF Next

\* A token that blocks a resend although nobody has its link, or will have it,
\* was left by a request that stopped, one for each, or by a mail that the server
\* accepted and lost: no error it reports and no overlap of requests leaves one.
THEOREM IdentityLostLinksExplained == Spec => []LostLinksExplained
<1>1. LostInv => LostLinksExplained
  BY DEF LostInv, LostLinksExplained, Lost
<1> QED BY <1>1, LostInit, LostNext, Invariance, RowsInvariance, PTL DEF Spec

=============================================================================
