------------------------------ MODULE Identity ------------------------------
(***************************************************************************)
(* Companies, users and the verification of their e-mail address.          *)
(*                                                                         *)
(* Requests overlap.  A registration checks the login first and relies on  *)
(* the unique index in its transaction; the mail is sent after the commit. *)
(* Resending runs without a transaction: check, revoke, insert and send    *)
(* are separate steps.  VerifyEmail and PromoteToAdmin both read a user    *)
(* and write the whole row back, without a lock.  A request may stop at    *)
(* any step.                                                               *)
(*                                                                         *)
(* At its start, before it serves, the process makes sure of the bootstrap *)
(* administrator, who needs no link.  With the verification of addresses   *)
(* switched off, as docker-compose.yml ships it, users are verified when   *)
(* they register and no mail is sent.                                      *)
(***************************************************************************)
EXTENDS Integers, FiniteSets

CONSTANTS Logins, Requisites, Companies, Tokens, Workers, None,
          AdminLogin, AdminRequisites, \* the bootstrap administrator and its company;
                                       \* AdminLogin is None if there is to be none
          MaxStops      \* bound on requests that end in the middle

\* "dummy" stands for the generated requisites of a company made up for a user.
ASSUME IdentityAssumption ==
  /\ MaxStops \in Nat
  /\ None \notin Logins \cup Companies \cup Tokens \cup Requisites \cup {"dummy"}
  /\ "dummy" \notin Requisites
  /\ AdminLogin \in Logins \cup {None} /\ AdminRequisites \in Requisites

VARIABLES user,       \* by login, which is unique
          company,    \* the requisites of a company; "dummy" if made up for one user
          announced,  \* companies whose CompanyCreated event is in the outbox
          token,      \* the verification tokens
          mail,       \* tokens whose link reached the user
          undelivered,\* tokens whose mail the server accepted and lost
          sessions,   \* logins that were issued an access token
          req,        \* what each worker is doing
          stops,
          verification \* the switch IDENTITY_EMAIL_VERIFICATION_ENABLED

vars == <<user, company, announced, token, mail, undelivered, sessions, req, stops,
          verification>>

\* A company's requisites, or the made-up ones of a user without a company.
CompanyRow == Requisites \cup {"dummy", None}

UserRow == [exists : BOOLEAN, company : Companies \cup {None}, admin : BOOLEAN,
            verified : BOOLEAN]

\* recent: sent less than the cooldown ago.
TokenRow == [user : Logins \cup {None}, used : BOOLEAN, revoked : BOOLEAN,
             expired : BOOLEAN, recent : BOOLEAN]

Steps == {"idle", "company", "register", "send", "sendFailed", "cooldown", "revoke",
          "save", "verify", "verifySave", "promote"}

NoUser    == [exists |-> FALSE, company |-> None, admin |-> FALSE, verified |-> FALSE]
NoToken   == [user |-> None, used |-> FALSE, revoked |-> FALSE, expired |-> FALSE,
              recent |-> FALSE]
NoRequest == [step |-> "idle", login |-> None, seen |-> NoUser, token |-> None,
              company |-> None]

TypeOK ==
  /\ user \in [Logins -> UserRow]
  /\ \A x \in Logins : user[x].exists => user[x].company \in Companies
  /\ company \in [Companies -> CompanyRow]
  /\ announced \subseteq Companies
  /\ token \in [Tokens -> TokenRow]
  /\ mail \subseteq Tokens /\ undelivered \subseteq Tokens /\ sessions \subseteq Logins
  /\ req \in [Workers -> [step : Steps, login : Logins \cup {None}, seen : UserRow,
                          token : Tokens \cup {None},
                          company : Companies \cup Requisites \cup {None}]]
  /\ stops \in 0..MaxStops /\ verification \in BOOLEAN

Init ==
  /\ user = [x \in Logins |-> NoUser]
  /\ company = [c \in Companies |-> None]
  /\ announced = {} /\ mail = {} /\ undelivered = {} /\ sessions = {}
  /\ token = [t \in Tokens |-> NoToken]
  /\ req = [w \in Workers |-> NoRequest]
  /\ stops = 0
  /\ verification \in BOOLEAN

\* The process serves once the bootstrap administrator exists.
Serving   == AdminLogin = None \/ user[AdminLogin].exists
Idle(w)   == req[w].step = "idle"
Free(w)   == Idle(w) /\ Serving
At(w, s)  == req[w].step = s
Done(w)   == req' = [req EXCEPT ![w] = NoRequest]

FreshCompany == CHOOSE c \in Companies : company[c] = None
FreshToken   == CHOOSE t \in Tokens : token[t].user = None

-----------------------------------------------------------------------------
(* Companies *)

GetByRequisites(r) == {c \in Companies : company[c] = r}

\* A company that is found is returned as it is.
RegisterCompany(w, r) ==
  /\ Free(w)
  /\ GetByRequisites(r) = {}
  /\ req' = [req EXCEPT ![w] = [NoRequest EXCEPT !.step = "company", !.company = r]]
  /\ UNCHANGED <<user, company, announced, token, mail, undelivered, sessions,
                 stops, verification>>

PublishCompanyCreated(c) == announced' = announced \cup {c}

\* Requisites have no unique index: a company that was registered meanwhile
\* does not make the insert fail.
SaveCompany(w) ==
  /\ At(w, "company")
  /\ \E c \in Companies : company[c] = None
  /\ company' = [company EXCEPT ![FreshCompany] = req[w].company]
  /\ PublishCompanyCreated(FreshCompany)
  /\ Done(w)
  /\ UNCHANGED <<user, token, mail, undelivered, sessions, stops, verification>>

-----------------------------------------------------------------------------
(* The bootstrap administrator.  A start that ends between the two commits *)
(* is repeated by the next one, which finds the company.                   *)

BootstrapCompany ==
  /\ ~Serving /\ GetByRequisites(AdminRequisites) = {}
  /\ \E c \in Companies : company[c] = None
  /\ company' = [company EXCEPT ![FreshCompany] = AdminRequisites]
  /\ PublishCompanyCreated(FreshCompany)
  /\ UNCHANGED <<user, token, mail, undelivered, sessions, req, stops, verification>>

BootstrapAdmin(c) ==
  /\ ~Serving /\ c \in GetByRequisites(AdminRequisites)
  /\ user' = [user EXCEPT ![AdminLogin] =
                [exists |-> TRUE, company |-> c, admin |-> TRUE, verified |-> TRUE]]
  /\ UNCHANGED <<company, announced, token, mail, undelivered, sessions, req, stops,
                 verification>>

-----------------------------------------------------------------------------
(* Users *)

\* The login is free and the company, if one is given, is found.
RegisterUser(w, x, c) ==
  /\ Free(w) /\ ~user[x].exists
  /\ c \in Companies => company[c] # None
  /\ req' = [req EXCEPT ![w] = [NoRequest EXCEPT !.step = "register", !.login = x, !.company = c]]
  /\ UNCHANGED <<user, company, announced, token, mail, undelivered, sessions,
                 stops, verification>>

\* resolveRegistrationCompany: the given company, or a new one for the user.
RegistrationCompany(w) ==
  IF req[w].company = None THEN FreshCompany ELSE req[w].company

NewToken(x) == [NoToken EXCEPT !.user = x, !.recent = TRUE]

NewUser(c) == [NoUser EXCEPT !.exists = TRUE, !.company = c, !.verified = ~verification]

\* The user's first token, to be mailed next; none if verification is off.
FirstLink(w, x) ==
  IF verification
  THEN /\ token' = [token EXCEPT ![FreshToken] = NewToken(x)]
       /\ req'   = [req EXCEPT ![w].step = "send", ![w].token = FreshToken]
  ELSE Done(w) /\ UNCHANGED token

\* Mutant of SaveUser: the company stays when the user cannot be inserted.
CompanyStays(w) ==
  LET x   == req[w].login
      own == req[w].company = None
      c   == RegistrationCompany(w) IN
  /\ At(w, "register")
  /\ own => \E d \in Companies : company[d] = None
  /\ verification => \E t \in Tokens : token[t].user = None
  /\ company' = IF own THEN [company EXCEPT ![c] = "dummy"] ELSE company
  /\ IF own THEN PublishCompanyCreated(c) ELSE UNCHANGED announced
  /\ IF user[x].exists THEN Done(w) /\ UNCHANGED <<user, token>>
     ELSE user' = [user EXCEPT ![x] = NewUser(c)] /\ FirstLink(w, x)
  /\ UNCHANGED <<mail, undelivered, sessions, stops, verification>>

\* One transaction: the made-up company and its event, the user and the first
\* token.  A login that was taken meanwhile violates the unique index and
\* rolls everything back.
SaveUser(w) ==
  LET x   == req[w].login
      own == req[w].company = None
      c   == RegistrationCompany(w) IN
  /\ At(w, "register")
  /\ IF user[x].exists THEN Done(w) /\ UNCHANGED <<company, announced, user, token>>
     ELSE /\ own => \E d \in Companies : company[d] = None
          /\ verification => \E t \in Tokens : token[t].user = None
          /\ company' = IF own THEN [company EXCEPT ![c] = "dummy"] ELSE company
          /\ IF own THEN PublishCompanyCreated(c) ELSE UNCHANGED announced
          /\ user' = [user EXCEPT ![x] = NewUser(c)]
          /\ FirstLink(w, x)
  /\ UNCHANGED <<mail, undelivered, sessions, stops, verification>>

\* Role and verification are read and the whole row is written, by user id.
PromoteToAdmin(w, x) ==
  /\ Free(w) /\ user[x].exists
  /\ req' = [req EXCEPT ![w] = [NoRequest EXCEPT !.step = "promote", !.login = x, !.seen = user[x]]]
  /\ UNCHANGED <<user, company, announced, token, mail, undelivered, sessions,
                 stops, verification>>

SavePromoted(w) ==
  /\ At(w, "promote")
  /\ user' = [user EXCEPT ![req[w].login] = [req[w].seen EXCEPT !.admin = TRUE]]
  /\ Done(w)
  /\ UNCHANGED <<company, announced, token, mail, undelivered, sessions, stops,
                 verification>>

Login(x) ==
  /\ user[x].exists /\ (verification => user[x].verified)
  /\ sessions' = sessions \cup {x}
  /\ UNCHANGED <<user, company, announced, token, mail, undelivered, req, stops,
                 verification>>

-----------------------------------------------------------------------------
(* Verification links *)

Active(t) == token[t].user # None /\ ~token[t].used /\ ~token[t].revoked

\* RevokeActiveForUser
Revoked(x) == [t \in Tokens |-> IF token[t].user = x /\ Active(t)
                                THEN [token[t] EXCEPT !.revoked = TRUE] ELSE token[t]]

\* The server accepts the mail, and delivers it or not, or the sender reports
\* an error, in which case the mail may have gone out all the same.
SendEmail(w) ==
  LET t == req[w].token IN
  /\ At(w, "send")
  /\ \/ mail' = mail \cup {t} /\ UNCHANGED undelivered /\ Done(w)
     \/ undelivered' = undelivered \cup {t} /\ UNCHANGED mail /\ Done(w)
     \/ /\ mail' \in {mail, mail \cup {t}} /\ UNCHANGED undelivered
        /\ req' = [req EXCEPT ![w].step = "sendFailed"]
  /\ UNCHANGED <<user, company, announced, token, sessions, stops, verification>>

\* Mutant of RevokeAfterSendFailed: the token stays active.
KeptAfterSendFailed(w) ==
  /\ At(w, "sendFailed")
  /\ Done(w)
  /\ UNCHANGED <<user, company, announced, token, mail, undelivered, sessions,
                 stops, verification>>

\* Every active token of the user is revoked, not just this one.
RevokeAfterSendFailed(w) ==
  /\ At(w, "sendFailed")
  /\ token' = Revoked(req[w].login)
  /\ Done(w)
  /\ UNCHANGED <<user, company, announced, mail, undelivered, sessions, stops,
                 verification>>

ResendVerification(w, x) ==
  /\ Free(w) /\ verification /\ user[x].exists /\ ~user[x].verified
  /\ req' = [req EXCEPT ![w] = [NoRequest EXCEPT !.step = "cooldown", !.login = x]]
  /\ UNCHANGED <<user, company, announced, token, mail, undelivered, sessions,
                 stops, verification>>

\* Mutant of CooldownOver: an active token blocks whatever its age.
NoActiveToken(x) == ~\E t \in Tokens : token[t].user = x /\ Active(t)

\* LastSentAtForUser looks at the tokens that are neither used nor revoked.
CooldownOver(x) == ~\E t \in Tokens : token[t].user = x /\ Active(t) /\ token[t].recent

CheckCooldown(w) ==
  /\ At(w, "cooldown")
  /\ IF CooldownOver(req[w].login) THEN req' = [req EXCEPT ![w].step = "revoke"] ELSE Done(w)
  /\ UNCHANGED <<user, company, announced, token, mail, undelivered, sessions,
                 stops, verification>>

\* CreateToken outside a transaction: two commits.
RevokeOlder(w) ==
  /\ At(w, "revoke")
  /\ token' = Revoked(req[w].login)
  /\ req' = [req EXCEPT ![w].step = "save"]
  /\ UNCHANGED <<user, company, announced, mail, undelivered, sessions, stops,
                 verification>>

SaveToken(w) ==
  /\ At(w, "save")
  /\ \E t \in Tokens : token[t].user = None
  /\ token' = [token EXCEPT ![FreshToken] = NewToken(req[w].login)]
  /\ req' = [req EXCEPT ![w].step = "send", ![w].token = FreshToken]
  /\ UNCHANGED <<user, company, announced, mail, undelivered, sessions, stops,
                 verification>>

TokenValid(t) == Active(t) /\ ~token[t].expired

\* The user opens a link; the token is checked before the transaction.
VerifyEmail(w, t) ==
  /\ Free(w) /\ verification /\ t \in mail /\ TokenValid(t)
  /\ req' = [req EXCEPT ![w] = [NoRequest EXCEPT !.step = "verify", !.token = t,
                                                 !.login = token[t].user]]
  /\ UNCHANGED <<user, company, announced, token, mail, undelivered, sessions,
                 stops, verification>>

VerifyReadsUser(w) ==
  /\ At(w, "verify")
  /\ req' = [req EXCEPT ![w].step = "verifySave", ![w].seen = user[req[w].login]]
  /\ UNCHANGED <<user, company, announced, token, mail, undelivered, sessions,
                 stops, verification>>

\* Mutant of SaveVerified: the link is not used up.
LinkStaysValid(w) ==
  LET x == req[w].login IN
  /\ At(w, "verifySave")
  /\ user' = IF req[w].seen.verified THEN user
             ELSE [user EXCEPT ![x] = [req[w].seen EXCEPT !.verified = TRUE]]
  /\ Done(w)
  /\ UNCHANGED <<token, company, announced, mail, undelivered, sessions, stops,
                 verification>>

\* The row is written back unless it was verified already; MarkUsed does not
\* look at revoked_at.
SaveVerified(w) ==
  LET x == req[w].login IN
  /\ At(w, "verifySave")
  /\ user' = IF req[w].seen.verified THEN user
             ELSE [user EXCEPT ![x] = [req[w].seen EXCEPT !.verified = TRUE]]
  /\ token' = [token EXCEPT ![req[w].token].used = TRUE]
  /\ Done(w)
  /\ UNCHANGED <<company, announced, mail, undelivered, sessions, stops,
                 verification>>

\* Nothing depends on the age of a token that is used or revoked.
CooldownPasses(t) ==
  /\ Active(t) /\ token[t].recent
  /\ token' = [token EXCEPT ![t].recent = FALSE]
  /\ UNCHANGED <<user, company, announced, mail, undelivered, sessions, req, stops,
                 verification>>

\* The lifetime of a token is longer than the cooldown.
TokenExpires(t) ==
  /\ Active(t) /\ ~token[t].recent /\ ~token[t].expired
  /\ token' = [token EXCEPT ![t].expired = TRUE]
  /\ UNCHANGED <<user, company, announced, mail, undelivered, sessions, req, stops,
                 verification>>

\* The process dies or a statement fails; an open transaction is rolled back.
Stop(w) ==
  /\ ~Idle(w) /\ stops < MaxStops
  /\ stops' = stops + 1
  /\ Done(w)
  /\ UNCHANGED <<user, company, announced, token, mail, undelivered, sessions,
                 verification>>

-----------------------------------------------------------------------------
Next ==
  \/ BootstrapCompany \/ \E c \in Companies : BootstrapAdmin(c)
  \/ \E w \in Workers, r \in Requisites : RegisterCompany(w, r)
  \/ \E w \in Workers, x \in Logins, c \in Companies \cup {None} : RegisterUser(w, x, c)
  \/ \E w \in Workers, x \in Logins : PromoteToAdmin(w, x) \/ ResendVerification(w, x)
  \/ \E w \in Workers, t \in Tokens : VerifyEmail(w, t)
  \/ \E w \in Workers :
       \/ SaveCompany(w) \/ SaveUser(w) \/ SavePromoted(w)
       \/ SendEmail(w) \/ RevokeAfterSendFailed(w)
       \/ CheckCooldown(w) \/ RevokeOlder(w) \/ SaveToken(w)
       \/ VerifyReadsUser(w) \/ SaveVerified(w) \/ Stop(w)
  \/ \E x \in Logins : Login(x)
  \/ \E t \in Tokens : CooldownPasses(t) \/ TokenExpires(t)

Spec == Init /\ [][Next]_vars

\* Time passes; nobody is obliged to send a request.
FairSpec == Spec /\ \A t \in Tokens : WF_vars(CooldownPasses(t))

-----------------------------------------------------------------------------
(* Properties *)

\* With verification switched on, a user other than the bootstrap administrator
\* is verified, or was let in, only after following a link that was mailed for
\* that very login and is used up by it, although rows read earlier are written
\* over later ones.
VerifiedByLink ==
  verification => \A x \in Logins \ {AdminLogin} :
    user[x].verified \/ x \in sessions =>
      \E t \in mail : token[t].user = x /\ token[t].used

\* A company made up for a user never exists without one, and it has been
\* announced to billing: two registrations of one login at once leave no
\* company behind.
DummyCompanyHasUser ==
  \A c \in Companies : company[c] = "dummy" =>
    c \in announced /\ \E x \in Logins : user[x].company = c

\* A token that blocks a resend, whose link nobody has or is about to send and
\* whose mail the server has not lost after accepting it, was left by a request
\* that stopped, one token for each: an error the sender reports leaves none.
LostLinksExplained ==
  Cardinality({t \in Tokens : Active(t) /\ t \notin mail \cup undelivered
                 /\ ~\E w \in Workers : req[w].token = t}) <= stops

\* A user who is not verified can, sooner or later, ask for another link: a
\* token whose mail was lost, or that has expired, does not block for ever.  The
\* bootstrap administrator never needs one.
NeverLockedOut ==
  \A x \in Logins \ {AdminLogin} : user[x].exists /\ ~user[x].verified ~>
    user[x].verified \/ CooldownOver(x)
=============================================================================
