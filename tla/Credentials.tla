----------------------------- MODULE Credentials -----------------------------
(***************************************************************************)
(* The sessions and the emailed links of one user account.                 *)
(*                                                                         *)
(*   handlers   requests of the API: login, refresh, logout, forgot and    *)
(*              reset password (auth/service.py, auth/router.py), resend   *)
(*              and accept an invitation, deactivate and reactivate        *)
(*              (users/service.py, users/router.py)                        *)
(*   hooks      the two email webhooks (webhooks/router.py)                *)
(*   broker     QStash (external): at least once, at most MaxAttempts      *)
(*                                                                         *)
(* Every handler may serve any number of requests, one at a time.  Reads   *)
(* see what is committed; what a request writes becomes visible with its   *)
(* commit.  An UPDATE chooses its rows when it starts: revoke_all_for_user *)
(* therefore misses a token that is committed while it runs.               *)
(***************************************************************************)
EXTENDS Integers, FiniteSets

CONSTANTS
    Handlers,        \* API invocations that can be in flight together
    Hooks,           \* webhook invocations that can be in flight together
    Tokens,          \* refresh tokens that can be issued: bound on logins and rotations
    Permits,         \* reset and invitation tokens that can be issued
    ResetMessages,   \* deduplication ids of forgot-password messages
    InviteMessages,  \* deduplication ids of invitation messages
    MaxAttempts,     \* deliveries the broker makes of one accepted message
    MaxRequests,     \* bound on requests of the API
    MaxFaults,       \* bound on failed calls and dying processes
    NoToken,         \* the parent of a token issued by a login
    Initial          \* the password that no permit has set

Messages == ResetMessages \cup InviteMessages

ASSUME CredentialsConstantsOK ==
    /\ Tokens \subseteq Nat
    /\ Permits \subseteq Nat
    /\ NoToken \notin Tokens
    /\ Initial \notin Permits
    /\ ResetMessages \cap InviteMessages = {}
    /\ Handlers \cap Hooks = {}
    /\ MaxAttempts \in Nat \ {0}
    /\ MaxRequests \in Nat
    /\ MaxFaults \in Nat

VARIABLES
    user,     \* is_active, is_email_verified and the password of the account
    token,    \* refresh_tokens
    permit,   \* password_reset_tokens and user_invitation_tokens
    handler,  \* state of every API invocation
    hook,     \* state of every webhook invocation
    left,     \* deliveries left of every message
    sent,     \* messages the broker has accepted, whose ids it remembers
    mailed,   \* messages whose email has gone out
    requests, \* requests still to come
    faults    \* failures still to come

vars == <<user, token, permit, handler, hook, left, sent, mailed, requests, faults>>

\* A password is named by the permit that has set it.
Passwords == Permits \cup {Initial}

User == [active : BOOLEAN, verified : BOOLEAN, password : Passwords]

\* Of a refresh token: `under' is the password of the login it descends from,
\* `login' the first token of that session.  `late' is a history variable: the
\* call that issued it, or an ancestor, had been overtaken (see Overtaken).
Token ==
    [state : {"none", "valid", "over"}, login : Tokens \cup {NoToken},
     under : Passwords, late : BOOLEAN]

\* "expired" permits are still rows that mark_used can hit.
Permit ==
    [kind : {"reset", "invite"}, state : {"none", "live", "expired", "used", "deleted"}]

Idle == [pc |-> "idle"]

Valid(t) == token[t].state = "valid"

Request == requests > 0 /\ requests' = requests - 1
Fault == faults > 0 /\ faults' = faults - 1

\* Tokens and permits are taken in order, which loses nothing.
NextToken(t) == \A u \in Tokens : token[u].state = "none" => t <= u
NextPermit(p) == \A q \in Permits : permit[q].state = "none" => p <= q

\* The account is active, verified or invited; somebody may be logged in, and a
\* link of an earlier email may be about.
Init ==
    /\ user \in [active : {TRUE}, verified : BOOLEAN, password : {Initial}]
    /\ \E T \in {{}, {t \in Tokens : \A u \in Tokens : t <= u}} :
          token = [t \in Tokens |->
              [state |-> IF t \in T THEN "valid" ELSE "none",
               login |-> IF t \in T THEN t ELSE NoToken, under |-> Initial, late |-> FALSE]]
    /\ \E kind \in {"reset", "invite"}, P \in {{}, {p \in Permits : \A q \in Permits : p <= q}} :
          permit = [p \in Permits |->
              [kind |-> kind, state |-> IF p \in P THEN "live" ELSE "none"]]
    /\ handler = [h \in Handlers |-> Idle]
    /\ hook = [k \in Hooks |-> Idle]
    /\ left = [m \in Messages |-> 0]
    /\ sent = {}
    /\ mailed = {}
    /\ requests = MaxRequests
    /\ faults = MaxFaults

-----------------------------------------------------------------------------
(* Who overlaps whom.                                                      *)

\* A login or a rotation that has passed its check and is about to commit.
Signing(h) == handler[h].pc \in {"rotating", "minting"}
Signers == {h \in Handlers : Signing(h)}

\* A call whose revoke_all_for_user has chosen its rows and that has not committed.
RevokingAll(h) == handler[h].pc \in {"changing", "deactivating"}

\* The calls of S have been overtaken: while they were in flight somebody else
\* has revoked the token they rotate, or all tokens of the user.
Overtaken(S) ==
    [h \in Handlers |-> IF h \in S THEN [handler[h] EXCEPT !.overtaken = TRUE] ELSE handler[h]]

Begin(h, pc, parent, under) ==
    handler' = [handler EXCEPT ![h] =
        [pc |-> pc, parent |-> parent, under |-> under,
         overtaken |-> \E g \in Handlers : RevokingAll(g)]]

\* Those who rotate token t.
Rotating(t) == {h \in Signers : handler[h].parent = t}

\* The UPDATE of a revocation hits only rows that are not revoked.
Over(S) ==
    [t \in Tokens |-> IF t \in S /\ Valid(t) THEN [token[t] EXCEPT !.state = "over"] ELSE token[t]]

ValidTokens == {t \in Tokens : Valid(t)}

-----------------------------------------------------------------------------
(* Sessions.                                                               *)

\* authenticate_user: the account is active and the password is the current one.
Authenticate(h) ==
    /\ handler[h].pc = "idle" /\ Request
    /\ user.active
    /\ Begin(h, "minting", NoToken, user.password)
    /\ UNCHANGED <<user, token, permit, hook, left, sent, mailed, faults>>

\* rotate_refresh_token: the SELECT, which turns a token away that is missing,
\* revoked or expired.
RotateReads(h, t) ==
    /\ handler[h].pc = "idle" /\ Request
    /\ Valid(t)
    /\ Begin(h, "rotating", t, token[t].under)
    /\ UNCHANGED <<user, token, permit, hook, left, sent, mailed, faults>>

\* The old token is revoked, not yet committed; an inactive user ends the call
\* and with it its transaction.
RotateChecksUser(h) ==
    /\ handler[h].pc = "rotating"
    /\ handler' = [handler EXCEPT ![h] =
          IF user.active THEN [@ EXCEPT !.pc = "minting"] ELSE Idle]
    /\ UNCHANGED <<user, token, permit, hook, left, sent, mailed, requests, faults>>

\* The token that a signer commits.
Minted(h, t) ==
    LET c == handler[h]
    IN  [state |-> "valid", under |-> c.under,
         login |-> IF c.parent = NoToken THEN t ELSE token[c.parent].login,
         late |-> c.overtaken \/ (c.parent # NoToken /\ token[c.parent].late)]

\* Mutant: the old token stays.
MutantKeepsParent(h, t) ==
    /\ handler[h].pc = "minting"
    /\ token[t].state = "none" /\ NextToken(t)
    /\ token' = [token EXCEPT ![t] = Minted(h, t)]
    /\ handler' = [handler EXCEPT ![h] = Idle]
    /\ UNCHANGED <<user, permit, hook, left, sent, mailed, requests, faults>>

\* create_auth_tokens commits the new token and the revocation of the old one.
\* That UPDATE may have hit no row, its result is not looked at.
Mint(h, t) ==
    /\ handler[h].pc = "minting"
    /\ token[t].state = "none" /\ NextToken(t)
    /\ LET parent == handler[h].parent
       IN  /\ token' = [Over({parent}) EXCEPT ![t] = Minted(h, t)]
           /\ handler' = [Overtaken(IF parent = NoToken THEN {} ELSE Rotating(parent))
                 EXCEPT ![h] = Idle]
    /\ UNCHANGED <<user, permit, hook, left, sent, mailed, requests, faults>>

Logout(h, t) ==
    /\ handler[h].pc = "idle" /\ Request
    /\ Valid(t)
    /\ token' = Over({t})
    /\ handler' = Overtaken(Rotating(t))
    /\ UNCHANGED <<user, permit, hook, left, sent, mailed, faults>>

\* A token expires; the cleanup of maintenance/service.py may delete its row,
\* which nobody can tell from an expired one.
TokenExpires(t) ==
    /\ Valid(t)
    /\ token' = Over({t})
    /\ UNCHANGED <<user, permit, handler, hook, left, sent, mailed, requests, faults>>

-----------------------------------------------------------------------------
(* Links.                                                                  *)

\* reset_password: the SELECT.
ResetReads(h, p) ==
    /\ handler[h].pc = "idle" /\ Request
    /\ permit[p] = [kind |-> "reset", state |-> "live"]
    /\ handler' = [handler EXCEPT ![h] = [pc |-> "resetting", permit |-> p]]
    /\ UNCHANGED <<user, token, permit, hook, left, sent, mailed, faults>>

\* accept_invitation: the SELECTs of the permit and of the user.
AcceptReads(h, p) ==
    /\ handler[h].pc = "idle" /\ Request
    /\ permit[p] = [kind |-> "invite", state |-> "live"]
    /\ user.active /\ ~user.verified
    /\ handler' = [handler EXCEPT ![h] = [pc |-> "accepting", permit |-> p]]
    /\ UNCHANGED <<user, token, permit, hook, left, sent, mailed, faults>>

\* A request has marked permit p and not committed: it holds the row.
Locked(p) == \E g \in Handlers : handler[g].pc = "changing" /\ handler[g].permit = p

Markable(p) == permit[p].state \in {"live", "expired"}

\* Revocation of all tokens: those that are valid now will be revoked by the
\* commit, and whoever is about to sign one is overtaken.
RevokeAll(h, doing) ==
    handler' = [Overtaken(Signers) EXCEPT ![h] = doing]

\* Mutant: as with refresh tokens, the result of the UPDATE is not looked at.
MutantMarkUnchecked(h) ==
    /\ handler[h].pc \in {"resetting", "accepting"}
    /\ user.active \/ handler[h].pc = "accepting"
    /\ RevokeAll(h, [pc |-> "changing", permit |-> handler[h].permit, revoking |-> ValidTokens,
                     verifies |-> handler[h].pc = "accepting"])
    /\ UNCHANGED <<user, token, permit, hook, left, sent, mailed, requests, faults>>

\* mark_used, checked, then revoke_all_for_user.  mark_used waits for a request
\* that has marked the permit, and looks again when that has ended.  Only a
\* reset looks at the user once more.
MarkUsed(h) ==
    /\ handler[h].pc \in {"resetting", "accepting"}
    /\ LET p == handler[h].permit
           accepting == handler[h].pc = "accepting"
       IN  /\ ~Locked(p)
           /\ IF Markable(p) /\ (user.active \/ accepting)
              THEN RevokeAll(h, [pc |-> "changing", permit |-> p, revoking |-> ValidTokens,
                                 verifies |-> accepting])
              ELSE handler' = [handler EXCEPT ![h] = Idle]
    /\ UNCHANGED <<user, token, permit, hook, left, sent, mailed, requests, faults>>

\* Mutant: the sessions of the old password go on.
MutantKeepsSessions(h) ==
    /\ handler[h].pc = "changing"
    /\ LET c == handler[h]
       IN  /\ user' = [user EXCEPT !.password = c.permit, !.verified = @ \/ c.verifies]
           /\ permit' = [permit EXCEPT ![c.permit].state = "used"]
    /\ handler' = [handler EXCEPT ![h] = Idle]
    /\ UNCHANGED <<token, hook, left, sent, mailed, requests, faults>>

\* The commit of a reset or of an acceptance.
ChangePassword(h) ==
    /\ handler[h].pc = "changing"
    /\ LET c == handler[h]
       IN  /\ user' = [user EXCEPT !.password = c.permit, !.verified = @ \/ c.verifies]
           /\ permit' = [permit EXCEPT ![c.permit].state = "used"]
           /\ token' = Over(c.revoking)
    /\ handler' = [handler EXCEPT ![h] = Idle]
    /\ UNCHANGED <<hook, left, sent, mailed, requests, faults>>

PermitExpires(p) ==
    /\ permit[p].state = "live"
    /\ permit' = [permit EXCEPT ![p].state = "expired"]
    /\ UNCHANGED <<user, token, handler, hook, left, sent, mailed, requests, faults>>

\* The broker stores a message unless it knows its id.
Store(m) ==
    /\ sent' = sent \cup {m}
    /\ left' = IF m \in sent THEN left ELSE [left EXCEPT ![m] = MaxAttempts]

\* forgot_password: one id per email and window of fifteen minutes.
Forgot(h, m) ==
    /\ handler[h].pc = "idle" /\ Request
    /\ m \in ResetMessages
    /\ Store(m)
    /\ UNCHANGED <<user, token, permit, handler, hook, mailed, faults>>

\* resend_invitation, and the end of create_user: pending invitations are deleted ...
ResendReads(h) ==
    /\ handler[h].pc = "idle" /\ Request
    /\ user.active /\ ~user.verified
    /\ handler' = [handler EXCEPT ![h] = [pc |-> "resending"]]
    /\ UNCHANGED <<user, token, permit, hook, left, sent, mailed, faults>>

Unused(p) == permit[p].kind = "invite" /\ Markable(p)

\* ... for which the DELETE waits for rows that an acceptance has marked ...
RevokePending(h) ==
    /\ handler[h].pc = "resending"
    /\ \A p \in Permits : Unused(p) => ~Locked(p)
    /\ permit' = [p \in Permits |->
          IF Unused(p) THEN [permit[p] EXCEPT !.state = "deleted"] ELSE permit[p]]
    /\ handler' = [handler EXCEPT ![h] = [pc |-> "publishing"]]
    /\ UNCHANGED <<user, token, hook, left, sent, mailed, requests, faults>>

\* ... and a message is published, with one id per user and second.
PublishInvitation(h, m) ==
    /\ handler[h].pc = "publishing"
    /\ m \in InviteMessages
    /\ Store(m)
    /\ handler' = [handler EXCEPT ![h] = Idle]
    /\ UNCHANGED <<user, token, permit, hook, mailed, requests, faults>>

\* deactivate_user: revoke_all_for_user, then the UPDATE of the user ...
DeactivateRevokes(h) ==
    /\ handler[h].pc = "idle" /\ Request
    /\ user.active
    /\ RevokeAll(h, [pc |-> "deactivating", revoking |-> ValidTokens])
    /\ UNCHANGED <<user, token, permit, hook, left, sent, mailed, faults>>

\* ... and the commit of both.
Deactivate(h) ==
    /\ handler[h].pc = "deactivating"
    /\ user' = [user EXCEPT !.active = FALSE]
    /\ token' = Over(handler[h].revoking)
    /\ handler' = [handler EXCEPT ![h] = Idle]
    /\ UNCHANGED <<permit, hook, left, sent, mailed, requests, faults>>

Reactivate(h) ==
    /\ handler[h].pc = "idle" /\ Request
    /\ ~user.active
    /\ user' = [user EXCEPT !.active = TRUE]
    /\ UNCHANGED <<token, permit, handler, hook, left, sent, mailed, faults>>

\* A request fails or dies: its transaction is rolled back.
Abort(h) ==
    /\ handler[h].pc # "idle"
    /\ Fault
    /\ handler' = [handler EXCEPT ![h] = Idle]
    /\ UNCHANGED <<user, token, permit, hook, left, sent, mailed, requests>>

-----------------------------------------------------------------------------
(* The email webhooks.                                                     *)

\* Whom a message may still concern.
Eligible(m) == user.active /\ (m \in InviteMessages => ~user.verified)

\* A delivery finds that the message concerns nobody any more, and answers 200.
Ignore(k, m) ==
    /\ hook[k].pc = "idle"
    /\ left[m] > 0
    /\ ~Eligible(m)
    /\ left' = [left EXCEPT ![m] = 0]
    /\ UNCHANGED <<user, token, permit, handler, hook, sent, mailed, requests, faults>>

\* A delivery creates a permit and commits it; earlier ones are left alone.
Issue(k, m, p) ==
    /\ hook[k].pc = "idle"
    /\ left[m] > 0
    /\ Eligible(m)
    /\ permit[p].state = "none" /\ NextPermit(p)
    /\ permit' = [permit EXCEPT ![p] =
          [kind |-> IF m \in ResetMessages THEN "reset" ELSE "invite", state |-> "live"]]
    /\ left' = [left EXCEPT ![m] = @ - 1]
    /\ hook' = [hook EXCEPT ![k] = [pc |-> "mailing", message |-> m]]
    /\ UNCHANGED <<user, token, handler, sent, mailed, requests, faults>>

\* The email goes out; 200, and the broker makes no further attempt.
Mail(k) ==
    /\ hook[k].pc = "mailing"
    /\ mailed' = mailed \cup {hook[k].message}
    /\ left' = [left EXCEPT ![hook[k].message] = 0]
    /\ hook' = [hook EXCEPT ![k] = Idle]
    /\ UNCHANGED <<user, token, permit, handler, sent, requests, faults>>

\* Mutant: a provider failure is logged and acknowledged.
MutantAcknowledgesFailure(k) ==
    /\ hook[k].pc = "mailing"
    /\ Fault
    /\ hook' = [hook EXCEPT ![k] = Idle]
    /\ left' = [left EXCEPT ![hook[k].message] = 0]
    /\ UNCHANGED <<user, token, permit, handler, sent, mailed, requests>>

\* The provider fails, or the invocation dies: 500, the broker may try again.
MailFails(k) ==
    /\ hook[k].pc = "mailing"
    /\ Fault
    /\ hook' = [hook EXCEPT ![k] = Idle]
    /\ UNCHANGED <<user, token, permit, handler, left, sent, mailed, requests>>

-----------------------------------------------------------------------------
HandlerStep(h) ==
    \/ Authenticate(h) \/ RotateChecksUser(h) \/ MarkUsed(h) \/ ChangePassword(h)
    \/ ResendReads(h) \/ RevokePending(h) \/ DeactivateRevokes(h) \/ Deactivate(h)
    \/ Reactivate(h) \/ Abort(h)
    \/ \E t \in Tokens : RotateReads(h, t) \/ Mint(h, t) \/ Logout(h, t)
    \/ \E p \in Permits : ResetReads(h, p) \/ AcceptReads(h, p)
    \/ \E m \in Messages : Forgot(h, m) \/ PublishInvitation(h, m)

HookDelivers(k, m) == Ignore(k, m) \/ \E p \in Permits : Issue(k, m, p)

Next ==
    \/ \E h \in Handlers : HandlerStep(h)
    \/ \E t \in Tokens : TokenExpires(t)
    \/ \E p \in Permits : PermitExpires(p)
    \/ \E k \in Hooks, m \in Messages : HookDelivers(k, m)
    \/ \E k \in Hooks : Mail(k) \/ MailFails(k)

Spec == Init /\ [][Next]_vars

\* The broker delivers what it has accepted, and webhook invocations run on.
FairSpec ==
    /\ Spec
    /\ \A k \in Hooks : WF_vars(Mail(k))
    /\ \A m \in Messages : WF_vars(\E k \in Hooks : HookDelivers(k, m))

-----------------------------------------------------------------------------
SignerState ==
    [pc : {"rotating", "minting"}, parent : Tokens \cup {NoToken}, under : Passwords,
     overtaken : BOOLEAN]
LinkState == [pc : {"resetting", "accepting"}, permit : Permits]
ChangerState ==
    [pc : {"changing"}, permit : Permits, revoking : SUBSET Tokens, verifies : BOOLEAN]
DeactivatorState == [pc : {"deactivating"}, revoking : SUBSET Tokens]
InviterState == [pc : {"resending", "publishing"}]

HandlerState ==
    {Idle} \cup SignerState \cup LinkState \cup ChangerState \cup DeactivatorState
    \cup InviterState

HookState == {Idle} \cup [pc : {"mailing"}, message : Messages]

\* Every variable stays in its type.
TypeOK ==
    /\ user \in User
    /\ token \in [Tokens -> Token]
    /\ permit \in [Permits -> Permit]
    /\ handler \in [Handlers -> HandlerState]
    /\ hook \in [Hooks -> HookState]
    /\ left \in [Messages -> Nat]
    /\ sent \subseteq Messages
    /\ mailed \subseteq Messages
    /\ requests \in 0..MaxRequests
    /\ faults \in 0..MaxFaults

\* A session that was issued by a call nobody has overtaken.
InTime(t) == Valid(t) /\ ~token[t].late

\* A change of the password and a deactivation end every session: a refresh
\* token that outlives one was issued by a login or a rotation that overlapped
\* a call which revoked its tokens, or descends from such a token.
SessionsEnd == \A t \in Tokens : InTime(t) => user.active /\ token[t].under = user.password

\* Rotation is single-use: two usable tokens of one login exist only if two
\* calls with one token overlapped.
OneTokenPerLogin ==
    \A t, u \in Tokens : InTime(t) /\ InTime(u) /\ token[t].login = token[u].login => t = u

(* The parts of the inductive invariant that no property states.            *)

\* A signer nobody has overtaken, of a session nobody has overtaken before.
OnTime(h) ==
    /\ Signing(h) /\ ~handler[h].overtaken
    /\ handler[h].parent # NoToken => ~token[handler[h].parent].late

\* Whoever is about to sign while all tokens are being revoked is overtaken.
RevokersOvertake ==
    \A g, h \in Handlers : RevokingAll(g) /\ Signing(h) => handler[h].overtaken

\* ... and what is valid and not issued by such a call will be revoked.
RevokersCover ==
    \A g \in Handlers, t \in Tokens : RevokingAll(g) /\ InTime(t) => t \in handler[g].revoking

\* What a signer in time has checked still holds.
OnTimeIsCurrent ==
    \A h \in Handlers : OnTime(h) => user.active /\ handler[h].under = user.password

ParentsExist ==
    \A h \in Handlers : Signing(h) /\ handler[h].parent # NoToken =>
        token[handler[h].parent].state # "none"

\* The first token of every session exists.
LoginsExist ==
    \A t \in Tokens : token[t].state # "none" =>
        /\ token[t].login \in Tokens
        /\ token[token[t].login].state # "none"

LoginOf(h) == token[handler[h].parent].login

RotatingOnTime(h) == OnTime(h) /\ handler[h].parent # NoToken

\* A rotation in time rotates the only usable token of its session, and so does
\* every other one of that session.
OnTimeIsNewest ==
    \A h \in Handlers, t \in Tokens :
        RotatingOnTime(h) /\ InTime(t) /\ token[t].login = LoginOf(h) => t = handler[h].parent

OnTimeAgree ==
    \A g, h \in Handlers :
        RotatingOnTime(g) /\ RotatingOnTime(h) /\ LoginOf(g) = LoginOf(h) =>
            handler[g].parent = handler[h].parent

SessionInv ==
    /\ RevokersOvertake /\ RevokersCover /\ OnTimeIsCurrent /\ ParentsExist /\ LoginsExist
    /\ OnTimeIsNewest /\ OnTimeAgree /\ SessionsEnd /\ OneTokenPerLogin

\* A marked permit waits for the commit of the one request that has marked it.
LinkInv ==
    \A g, h \in Handlers : handler[h].pc = "changing" =>
        /\ Markable(handler[h].permit)
        /\ handler[g].pc = "changing" /\ handler[g].permit = handler[h].permit => g = h

\* The inductive invariant of Credentials_proofs.
IInv == TypeOK /\ SessionInv /\ LinkInv

\* The links implement single-use permits, and nothing else changes a password.
Abstract(s) ==
    CASE s \in {"live", "expired"} -> "issued"
      [] s = "deleted" -> "withdrawn"
      [] OTHER -> s

Links == INSTANCE SingleUse WITH
    state <- [p \in Permits |-> Abstract(permit[p].state)], password <- user.password

ImplementsSingleUse == Links!Spec

\* With fewer failures than attempts an accepted message leads to its email, or
\* finds that it concerns nobody any more.
AcceptedMessageIsMailed ==
    \A m \in Messages : left[m] = MaxAttempts ~> m \in mailed \/ ~Eligible(m)
=============================================================================
