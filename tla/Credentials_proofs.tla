------------------------- MODULE Credentials_proofs -------------------------
(***************************************************************************)
(* Proofs about Credentials for any number of handlers, tokens, permits    *)
(* and messages.  The argument about sessions: whoever is about to sign    *)
(* while its tokens are being revoked is marked as overtaken, so that what *)
(* it signs is late; a signer that is not overtaken has checked what still *)
(* holds, and rotates the only usable token of its session.  The argument  *)
(* about links: a permit that a request has marked is locked until the     *)
(* request has committed.                                                  *)
(***************************************************************************)
EXTENDS Credentials, TLAPS

-----------------------------------------------------------------------------
(* What a handler looks like.                                              *)

LEMMA HandlerShape ==
  ASSUME TypeOK, NEW h \in Handlers
  PROVE  /\ handler[h] \in HandlerState
         /\ Signing(h) => handler[h] \in SignerState
         /\ handler[h].pc \in {"resetting", "accepting"} => handler[h] \in LinkState
         /\ handler[h].pc = "changing" => handler[h] \in ChangerState
         /\ handler[h].pc = "deactivating" => handler[h] \in DeactivatorState
  BY DEF TypeOK, HandlerState, SignerState, LinkState, ChangerState, DeactivatorState,
         InviterState, Idle, Signing

\* Overtaking touches one field of signers only.
LEMMA OvertakenIs ==
  ASSUME TypeOK, NEW S \in SUBSET Signers, NEW h \in Handlers
  PROVE  /\ Overtaken(S)[h] \in HandlerState
         /\ Overtaken(S)[h].pc = handler[h].pc
         /\ h \notin S => Overtaken(S)[h] = handler[h]
         /\ Signing(h) =>
              /\ Overtaken(S)[h].parent = handler[h].parent
              /\ Overtaken(S)[h].under = handler[h].under
              /\ Overtaken(S)[h].overtaken <=> (handler[h].overtaken \/ h \in S)
  <1>1. CASE h \notin S
    <2>1. Overtaken(S)[h] = handler[h]
      BY <1>1 DEF Overtaken
    <2> QED
      BY <1>1, <2>1, HandlerShape DEF SignerState
  <1>2. CASE h \in S
    <2>1. Overtaken(S)[h] = [handler[h] EXCEPT !.overtaken = TRUE]
      BY <1>2 DEF Overtaken
    <2>2. handler[h] \in SignerState
      BY <1>2, HandlerShape DEF Signers
    <2>3. Overtaken(S)[h] \in SignerState
      BY <2>1, <2>2 DEF SignerState
    <2> QED
      BY <1>2, <2>1, <2>2, <2>3 DEF SignerState, HandlerState
  <1> QED
    BY <1>1, <1>2

\* Revocation changes the state of tokens only.
LEMMA OverIs ==
  ASSUME TypeOK, NEW S, NEW t \in Tokens
  PROVE  /\ Over(S)[t] \in Token
         /\ Over(S)[t].state = IF t \in S /\ Valid(t) THEN "over" ELSE token[t].state
         /\ Over(S)[t].login = token[t].login
         /\ Over(S)[t].under = token[t].under
         /\ Over(S)[t].late = token[t].late
  BY DEF Over, TypeOK, Token, Valid

LEMMA OverType ==
  ASSUME TypeOK, NEW S
  PROVE  Over(S) \in [Tokens -> Token]
  BY OverIs DEF Over

LEMMA OvertakenType ==
  ASSUME TypeOK, NEW S \in SUBSET Signers, NEW h \in Handlers, NEW s \in HandlerState
  PROVE  [Overtaken(S) EXCEPT ![h] = s] \in [Handlers -> HandlerState]
  BY OvertakenIs DEF Overtaken

-----------------------------------------------------------------------------
(* Type correctness.                                                       *)

LEMMA InitType == Init => TypeOK
  <1> SUFFICES ASSUME Init PROVE TypeOK
    OBVIOUS
  <1>1. user \in User
    BY DEF Init, User, Passwords
  <1>2. token \in [Tokens -> Token]
    <2>1. PICK T : token = [t \in Tokens |->
              [state |-> IF t \in T THEN "valid" ELSE "none",
               login |-> IF t \in T THEN t ELSE NoToken, under |-> Initial, late |-> FALSE]]
      BY DEF Init
    <2> QED
      BY <2>1 DEF Token, Passwords
  <1>3. permit \in [Permits -> Permit]
    BY DEF Init, Permit
  <1>4. handler \in [Handlers -> HandlerState] /\ hook \in [Hooks -> HookState]
    BY DEF Init, HandlerState, HookState
  <1>5. left \in [Messages -> Nat] /\ sent \subseteq Messages /\ mailed \subseteq Messages
    BY DEF Init
  <1>6. requests \in 0..MaxRequests /\ faults \in 0..MaxFaults
    BY CredentialsConstantsOK DEF Init
  <1> QED
    BY <1>1, <1>2, <1>3, <1>4, <1>5, <1>6 DEF TypeOK

\* Whatever a handler does that is not about sessions keeps the types.
LEMMA RequestStep ==
  ASSUME TypeOK, Request
  PROVE  requests' \in 0..MaxRequests
  BY CredentialsConstantsOK DEF TypeOK, Request

LEMMA FaultStep ==
  ASSUME TypeOK, Fault
  PROVE  faults' \in 0..MaxFaults
  BY CredentialsConstantsOK DEF TypeOK, Fault

LEMMA BeginType ==
  ASSUME TypeOK, NEW h \in Handlers, NEW pc \in {"rotating", "minting"},
         NEW parent \in Tokens \cup {NoToken}, NEW under \in Passwords, Begin(h, pc, parent, under)
  PROVE  handler' \in [Handlers -> HandlerState]
  <1>1. [pc |-> pc, parent |-> parent, under |-> under,
         overtaken |-> \E g \in Handlers : RevokingAll(g)] \in SignerState
    BY DEF SignerState
  <1> QED
    BY <1>1 DEF Begin, TypeOK, HandlerState

LEMMA MintedIs ==
  ASSUME TypeOK, NEW h \in Handlers, handler[h].pc = "minting", NEW t \in Tokens
  PROVE  /\ Minted(h, t) \in Token
         /\ Minted(h, t).state = "valid"
         /\ Minted(h, t).under = handler[h].under
         /\ Minted(h, t).login = IF handler[h].parent = NoToken THEN t ELSE LoginOf(h)
         /\ ~Minted(h, t).late <=> OnTime(h)
  <1>1. handler[h] \in SignerState /\ Signing(h)
    BY HandlerShape DEF Signing
  <1>2. handler[h].parent # NoToken => token[handler[h].parent] \in Token
    BY <1>1 DEF SignerState, TypeOK
  <1> QED
    BY <1>1, <1>2 DEF Minted, LoginOf, OnTime, SignerState, Token

LEMMA RevokeAllType ==
  ASSUME TypeOK, NEW h \in Handlers, NEW s \in HandlerState, RevokeAll(h, s)
  PROVE  handler' \in [Handlers -> HandlerState]
  <1>1. Signers \in SUBSET Signers
    OBVIOUS
  <1> QED
    BY <1>1, OvertakenType DEF RevokeAll

LEMMA RotatingAreSigners ==
  ASSUME NEW t
  PROVE  Rotating(t) \in SUBSET Signers
  BY DEF Rotating

LEMMA MintType ==
  ASSUME TypeOK, NEW h \in Handlers, NEW t \in Tokens, Mint(h, t)
  PROVE  token' \in [Tokens -> Token] /\ handler' \in [Handlers -> HandlerState]
  <1> DEFINE parent == handler[h].parent
             S == IF parent = NoToken THEN {} ELSE Rotating(parent)
  <1>1. S \in SUBSET Signers
    BY RotatingAreSigners
  <1>2. handler' = [Overtaken(S) EXCEPT ![h] = Idle]
    BY DEF Mint
  <1>3. token' = [Over({parent}) EXCEPT ![t] = Minted(h, t)]
    BY DEF Mint
  <1>4. Minted(h, t) \in Token /\ Over({parent}) \in [Tokens -> Token]
    BY MintedIs, OverType DEF Mint
  <1>5. Idle \in HandlerState
    BY DEF HandlerState
  <1> HIDE DEF S, parent
  <1> QED
    BY <1>1, <1>2, <1>3, <1>4, <1>5, OvertakenType

\* Types are kept by the steps of a handler.
LEMMA HandlerTypes ==
  ASSUME TypeOK, NEW h \in Handlers, HandlerStep(h)
  PROVE  TypeOK'
  <1> USE DEF TypeOK
  <1>i. Idle \in HandlerState
    BY DEF HandlerState
  <1>m. \A s \in HandlerState : [handler EXCEPT ![h] = s] \in [Handlers -> HandlerState]
    OBVIOUS
  <1>1. CASE Authenticate(h)
    <2>1. Begin(h, "minting", NoToken, user.password) /\ user.password \in Passwords
      BY <1>1 DEF Authenticate, User
    <2>2. handler' \in [Handlers -> HandlerState] /\ requests' \in 0..MaxRequests
      BY <1>1, <2>1, BeginType, RequestStep DEF Authenticate
    <2> QED
      BY <1>1, <2>2 DEF Authenticate
  <1>2. CASE RotateChecksUser(h)
    <2>1. [handler[h] EXCEPT !.pc = "minting"] \in HandlerState
      BY <1>2, HandlerShape DEF RotateChecksUser, Signing, SignerState, HandlerState
    <2> QED
      BY <1>2, <1>i, <1>m, <2>1 DEF RotateChecksUser
  <1>3. CASE MarkUsed(h)
    <2>1. handler[h] \in LinkState
      BY <1>3, HandlerShape DEF MarkUsed
    <2>2. [pc |-> "changing", permit |-> handler[h].permit, revoking |-> ValidTokens,
           verifies |-> handler[h].pc = "accepting"] \in HandlerState
      BY <2>1 DEF LinkState, HandlerState, ChangerState, ValidTokens
    <2>3. handler' \in [Handlers -> HandlerState]
      BY <1>3, <1>i, <1>m, <2>2, RevokeAllType DEF MarkUsed
    <2> QED
      BY <1>3, <2>3 DEF MarkUsed
  <1>4. CASE ChangePassword(h)
    <2>1. handler[h] \in ChangerState
      BY <1>4, HandlerShape DEF ChangePassword
    <2>2. user' \in User /\ permit' \in [Permits -> Permit]
      <3>1. handler[h].permit \in Permits /\ handler[h].verifies \in BOOLEAN
        BY <2>1 DEF ChangerState
      <3>2. user' \in User
        BY <1>4, <3>1 DEF ChangePassword, User, Passwords
      <3>3. permit' \in [Permits -> Permit]
        BY <1>4, <3>1 DEF ChangePassword, Permit
      <3> QED
        BY <3>2, <3>3
    <2>3. token' \in [Tokens -> Token]
      BY <1>4, OverType DEF ChangePassword
    <2> QED
      BY <1>4, <1>i, <1>m, <2>2, <2>3 DEF ChangePassword
  <1>5. CASE ResendReads(h)
    BY <1>5, <1>m, RequestStep DEF ResendReads, HandlerState, InviterState
  <1>6. CASE RevokePending(h)
    <2>1. permit' \in [Permits -> Permit]
      BY <1>6 DEF RevokePending, Permit
    <2> QED
      BY <1>6, <1>m, <2>1 DEF RevokePending, HandlerState, InviterState
  <1>7. CASE DeactivateRevokes(h)
    <2>1. [pc |-> "deactivating", revoking |-> ValidTokens] \in HandlerState
      BY DEF HandlerState, DeactivatorState, ValidTokens
    <2>2. handler' \in [Handlers -> HandlerState]
      BY <1>7, <2>1, RevokeAllType DEF DeactivateRevokes
    <2> QED
      BY <1>7, <2>2, RequestStep DEF DeactivateRevokes
  <1>8. CASE Deactivate(h)
    <2>1. user' \in User /\ token' \in [Tokens -> Token]
      BY <1>8, OverType DEF Deactivate, User
    <2> QED
      BY <1>8, <1>i, <1>m, <2>1 DEF Deactivate
  <1>9. CASE Reactivate(h)
    <2>1. user' \in User
      BY <1>9 DEF Reactivate, User
    <2> QED
      BY <1>9, <2>1, RequestStep DEF Reactivate
  <1>10. CASE Abort(h)
    BY <1>10, <1>i, <1>m, FaultStep DEF Abort
  <1>11. ASSUME NEW t \in Tokens, RotateReads(h, t)
         PROVE  TypeOK'
    <2>1. token[t].under \in Passwords
      BY DEF Token
    <2>2. handler' \in [Handlers -> HandlerState] /\ requests' \in 0..MaxRequests
      BY <1>11, <2>1, BeginType, RequestStep DEF RotateReads
    <2> QED
      BY <1>11, <2>2 DEF RotateReads
  <1>12. ASSUME NEW t \in Tokens, Mint(h, t)
         PROVE  TypeOK'
    BY <1>12, MintType DEF Mint
  <1>13. ASSUME NEW t \in Tokens, Logout(h, t)
         PROVE  TypeOK'
    <2>1. handler' \in [Handlers -> HandlerState]
      BY <1>13, RotatingAreSigners, OvertakenIs DEF Logout, Overtaken
    <2>2. token' \in [Tokens -> Token] /\ requests' \in 0..MaxRequests
      BY <1>13, OverType, RequestStep DEF Logout
    <2> QED
      BY <1>13, <2>1, <2>2 DEF Logout
  <1>14. ASSUME NEW p \in Permits, ResetReads(h, p) \/ AcceptReads(h, p)
         PROVE  TypeOK'
    BY <1>14, <1>m, RequestStep DEF ResetReads, AcceptReads, HandlerState, LinkState
  <1>15. ASSUME NEW m \in Messages, Forgot(h, m)
         PROVE  TypeOK'
    BY <1>15, RequestStep, CredentialsConstantsOK DEF Forgot, Store
  <1>16. ASSUME NEW m \in Messages, PublishInvitation(h, m)
         PROVE  TypeOK'
    BY <1>16, <1>i, <1>m, CredentialsConstantsOK DEF PublishInvitation, Store
  <1> QED
    BY <1>1, <1>2, <1>3, <1>4, <1>5, <1>6, <1>7, <1>8, <1>9, <1>10, <1>11, <1>12, <1>13, <1>14,
       <1>15, <1>16 DEF HandlerStep

\* Types are kept by expiries and by the webhooks.
LEMMA OtherTypes ==
  ASSUME TypeOK,
         \/ \E t \in Tokens : TokenExpires(t)
         \/ \E p \in Permits : PermitExpires(p)
         \/ \E k \in Hooks, m \in Messages : HookDelivers(k, m)
         \/ \E k \in Hooks : Mail(k) \/ MailFails(k)
  PROVE  TypeOK'
  <1> USE DEF TypeOK
  <1>1. ASSUME NEW t \in Tokens, TokenExpires(t) PROVE TypeOK'
    BY <1>1, OverType DEF TokenExpires
  <1>2. ASSUME NEW p \in Permits, PermitExpires(p) PROVE TypeOK'
    <2>1. permit' \in [Permits -> Permit]
      BY <1>2 DEF PermitExpires, Permit
    <2> QED
      BY <1>2, <2>1 DEF PermitExpires
  <1>3. ASSUME NEW k \in Hooks, NEW m \in Messages, Ignore(k, m) PROVE TypeOK'
    BY <1>3 DEF Ignore
  <1>4. ASSUME NEW k \in Hooks, NEW m \in Messages, NEW p \in Permits, Issue(k, m, p) PROVE TypeOK'
    <2>1. permit' \in [Permits -> Permit]
      BY <1>4 DEF Issue, Permit
    <2>2. hook' \in [Hooks -> HookState] /\ left' \in [Messages -> Nat]
      BY <1>4 DEF Issue, HookState
    <2> QED
      BY <1>4, <2>1, <2>2 DEF Issue
  <1>5. ASSUME NEW k \in Hooks, Mail(k) PROVE TypeOK'
    <2>1. hook[k].message \in Messages
      BY <1>5 DEF Mail, HookState, Idle
    <2> QED
      BY <1>5, <2>1 DEF Mail, HookState
  <1>6. ASSUME NEW k \in Hooks, MailFails(k) PROVE TypeOK'
    BY <1>6, FaultStep DEF MailFails, HookState
  <1> QED
    BY <1>1, <1>2, <1>3, <1>4, <1>5, <1>6 DEF HookDelivers

-----------------------------------------------------------------------------
(* Sessions.                                                               *)

\* What no new signer, no new token and no new revocation can disturb: tokens
\* only become unusable, signers keep what they read and stay overtaken, and
\* what is in time is current.
LEMMA SessionFrame ==
  ASSUME TypeOK, SessionInv,
         \A t \in Tokens :
            /\ token'[t].login = token[t].login
            /\ token'[t].late = token[t].late
            /\ token'[t].state = "none" <=> token[t].state = "none"
            /\ token'[t].state = "valid" => token[t].state = "valid",
         \A h \in Handlers :
            /\ handler'[h].pc \in {"rotating", "minting"} =>
                 /\ Signing(h)
                 /\ handler'[h].parent = handler[h].parent
                 /\ handler'[h].under = handler[h].under
                 /\ handler[h].overtaken => handler'[h].overtaken
            /\ handler'[h].pc \in {"changing", "deactivating"} =>
                 RevokingAll(h) /\ handler'[h].revoking = handler[h].revoking,
         SessionsEnd', OnTimeIsCurrent'
  PROVE  SessionInv'
  <1> USE DEF SessionInv, RevokingAll, Signing
  <1>p. \A h \in Handlers : Signing(h)' /\ handler'[h].parent # NoToken => handler[h].parent \in Tokens
    BY HandlerShape DEF SignerState
  <1>t. \A h \in Handlers : OnTime(h)' => OnTime(h)
    BY <1>p DEF OnTime
  <1>i. \A t \in Tokens : InTime(t)' => InTime(t)
    BY DEF InTime, Valid
  <1>l. \A h \in Handlers : RotatingOnTime(h)' => RotatingOnTime(h) /\ LoginOf(h)' = LoginOf(h)
    BY <1>p, <1>t DEF RotatingOnTime, LoginOf, OnTime
  <1>1. RevokersOvertake' /\ RevokersCover'
    BY <1>i DEF RevokersOvertake, RevokersCover
  <1>2. ParentsExist' /\ LoginsExist'
    BY <1>p DEF ParentsExist, LoginsExist
  <1>3. OnTimeIsNewest'
    BY <1>i, <1>l DEF OnTimeIsNewest, RotatingOnTime, OnTime
  <1>4. OnTimeAgree'
    BY <1>l DEF OnTimeAgree, RotatingOnTime, OnTime
  <1>5. OneTokenPerLogin'
    BY <1>i DEF OneTokenPerLogin
  <1> QED
    BY <1>1, <1>2, <1>3, <1>4, <1>5

\* A step that leaves tokens and passwords alone and begins nothing about them.
LEMMA SessionIdle ==
  ASSUME TypeOK, SessionInv, UNCHANGED token,
         user'.password = user.password, user.active => user'.active,
         \A h \in Handlers :
            \/ handler'[h] = handler[h]
            \/ handler'[h].pc \notin {"rotating", "minting", "changing", "deactivating"}
            \/ /\ Signing(h) /\ handler'[h].pc = "minting"
               /\ handler'[h].parent = handler[h].parent
               /\ handler'[h].under = handler[h].under
               /\ handler'[h].overtaken = handler[h].overtaken
  PROVE  SessionInv'
  <1>1. \A h \in Handlers : OnTime(h)' => OnTime(h) /\ handler'[h].under = handler[h].under
    BY DEF OnTime, Signing
  <1>2. SessionsEnd' /\ OnTimeIsCurrent'
    BY <1>1 DEF SessionInv, SessionsEnd, OnTimeIsCurrent, InTime, Valid
  <1>3. \A t \in Tokens :
            /\ token'[t].login = token[t].login
            /\ token'[t].late = token[t].late
            /\ token'[t].state = "none" <=> token[t].state = "none"
            /\ token'[t].state = "valid" => token[t].state = "valid"
    OBVIOUS
  <1>4. \A h \in Handlers :
            /\ handler'[h].pc \in {"rotating", "minting"} =>
                 /\ Signing(h)
                 /\ handler'[h].parent = handler[h].parent
                 /\ handler'[h].under = handler[h].under
                 /\ handler[h].overtaken => handler'[h].overtaken
            /\ handler'[h].pc \in {"changing", "deactivating"} =>
                 RevokingAll(h) /\ handler'[h].revoking = handler[h].revoking
    BY DEF Signing, RevokingAll
  <1> QED
    BY <1>2, <1>3, <1>4, SessionFrame

\* A login or a rotation reads what is current, unless all is being revoked.
LEMMA SessionBegin ==
  ASSUME TypeOK, SessionInv, NEW h \in Handlers, NEW pc \in {"rotating", "minting"},
         NEW parent \in Tokens \cup {NoToken}, NEW under, handler[h].pc = "idle",
         Begin(h, pc, parent, under), UNCHANGED <<token, user>>,
         parent = NoToken => user.active /\ under = user.password,
         parent # NoToken => Valid(parent) /\ under = token[parent].under
  PROVE  SessionInv'
  <1> DEFINE revoking == \E g \in Handlers : RevokingAll(g)
             new == [pc |-> pc, parent |-> parent, under |-> under, overtaken |-> revoking]
  <1>0. handler' = [handler EXCEPT ![h] = new]
    BY DEF Begin
  <1>1. \A g \in Handlers : handler'[g] = IF g = h THEN new ELSE handler[g]
    BY <1>0 DEF TypeOK
  <1>2. /\ handler'[h].pc = pc /\ handler'[h].parent = parent /\ handler'[h].under = under
        /\ handler'[h].overtaken <=> \E g \in Handlers : RevokingAll(g)
    <2> HIDE DEF revoking
    <2>1. /\ handler'[h].pc = pc /\ handler'[h].parent = parent /\ handler'[h].under = under
          /\ handler'[h].overtaken = revoking
      BY <1>1
    <2> QED
      BY <2>1 DEF revoking
  <1> HIDE DEF new, revoking
  <1> USE DEF SessionInv
  <1>3. \A g \in Handlers : g # h => handler'[g] = handler[g]
    BY <1>1
  <1>4. \A g \in Handlers : RevokingAll(g)' <=> RevokingAll(g)
    BY <1>2, <1>3 DEF RevokingAll
  <1>5. RevokersOvertake'
    BY <1>2, <1>3, <1>4 DEF RevokersOvertake, Signing
  <1>6. RevokersCover'
    BY <1>2, <1>3, <1>4 DEF RevokersCover, InTime, Valid, RevokingAll
  <1>7. \A g \in Handlers : g # h => (OnTime(g)' <=> OnTime(g))
    BY <1>3 DEF OnTime, Signing
  <1>8. RotatingOnTime(h)' => parent \in Tokens /\ InTime(parent) /\ LoginOf(h)' = token[parent].login
    BY <1>2 DEF RotatingOnTime, OnTime, InTime, Valid, LoginOf
  <1>9. OnTimeIsCurrent'
    BY <1>2, <1>3, <1>7, <1>8 DEF OnTimeIsCurrent, SessionsEnd, OnTime, RotatingOnTime
  <1>10. ParentsExist' /\ LoginsExist'
    BY <1>2, <1>3 DEF ParentsExist, LoginsExist, Signing, Valid
  <1>11. \A g \in Handlers : g # h =>
            (RotatingOnTime(g)' <=> RotatingOnTime(g)) /\ LoginOf(g)' = LoginOf(g)
    BY <1>3, <1>7 DEF RotatingOnTime, LoginOf
  <1>12. \A t \in Tokens : InTime(t)' <=> InTime(t)
    BY DEF InTime, Valid
  <1>13. OnTimeIsNewest'
    BY <1>2, <1>3, <1>8, <1>11, <1>12 DEF OnTimeIsNewest, OneTokenPerLogin
  <1>14. OnTimeAgree'
    BY <1>2, <1>3, <1>8, <1>11 DEF OnTimeAgree, OnTimeIsNewest
  <1>15. SessionsEnd' /\ OneTokenPerLogin'
    BY <1>12 DEF SessionsEnd, OneTokenPerLogin
  <1> QED
    BY <1>5, <1>6, <1>9, <1>10, <1>13, <1>14, <1>15

\* The commit of a new token revokes the old one and overtakes whoever rotates it.
LEMMA SessionMint ==
  ASSUME TypeOK, SessionInv, NEW h \in Handlers, NEW t \in Tokens, Mint(h, t)
  PROVE  SessionInv'
  <1> DEFINE parent == handler[h].parent
             S == IF parent = NoToken THEN {} ELSE Rotating(parent)
             new == Minted(h, t)
  <1> USE DEF SessionInv
  <1>1. S \in SUBSET Signers
    BY RotatingAreSigners
  <1>2. /\ handler[h].pc = "minting" /\ token[t].state = "none" /\ UNCHANGED user
        /\ handler[h] \in SignerState /\ Signing(h)
    BY HandlerShape DEF Mint, Signing
  <1>3. \A g \in Handlers : handler'[g] = IF g = h THEN Idle ELSE Overtaken(S)[g]
    BY DEF Mint, Overtaken
  <1>4. \A u \in Tokens : token'[u] = IF u = t THEN new ELSE Over({parent})[u]
    BY DEF Mint, Over
  <1>5. /\ new.state = "valid" /\ new.under = handler[h].under
        /\ new.login = IF parent = NoToken THEN t ELSE LoginOf(h)
        /\ ~new.late <=> OnTime(h)
    BY <1>2, MintedIs
  <1>6. parent # NoToken => parent \in Tokens /\ parent # t
    BY <1>2 DEF SignerState, ParentsExist
  <1> HIDE DEF new
  <1>7. \A u \in Tokens \ {t} :
            /\ token'[u].login = token[u].login /\ token'[u].late = token[u].late
            /\ token'[u].under = token[u].under
            /\ token'[u].state = IF u = parent /\ Valid(u) THEN "over" ELSE token[u].state
    BY <1>4, OverIs
  <1>8. /\ token'[t].state = "valid" /\ token'[t].under = handler[h].under
        /\ token'[t].login = IF parent = NoToken THEN t ELSE LoginOf(h)
        /\ ~token'[t].late <=> OnTime(h)
    BY <1>4, <1>5
  <1>9. \A g \in Handlers : g # h =>
            /\ handler'[g].pc = handler[g].pc
            /\ ~Signing(g) => handler'[g] = handler[g]
            /\ Signing(g) =>
                 /\ handler'[g].parent = handler[g].parent
                 /\ handler'[g].under = handler[g].under
                 /\ handler'[g].overtaken <=> (handler[g].overtaken \/ g \in S)
    BY <1>1, <1>3, OvertakenIs DEF Signers
  <1>10. handler'[h].pc = "idle"
    BY <1>3 DEF Idle
  <1> HIDE DEF S
  <1>11. \A g \in Handlers : g # h /\ Signing(g) /\ handler[g].parent = parent /\ parent # NoToken => g \in S
    BY DEF S, Rotating, Signers
  <1>12. \A g \in Handlers : Signing(g) /\ handler[g].parent # NoToken =>
            /\ handler[g].parent \in Tokens /\ handler[g].parent # t
            /\ token'[handler[g].parent].login = token[handler[g].parent].login
            /\ token'[handler[g].parent].late = token[handler[g].parent].late
    <2> SUFFICES ASSUME NEW g \in Handlers, Signing(g), handler[g].parent # NoToken
                 PROVE  /\ handler[g].parent \in Tokens /\ handler[g].parent # t
      BY <1>7
    <2> QED
      BY <1>2, HandlerShape DEF SignerState, ParentsExist
  <1> HIDE DEF parent
  <1>13. \A g \in Handlers : Signing(g)' => g # h /\ Signing(g)
    BY <1>9, <1>10 DEF Signing
  <1>14. \A g \in Handlers : RevokingAll(g)' => g # h /\ RevokingAll(g) /\ handler'[g] = handler[g]
    BY <1>9, <1>10 DEF RevokingAll, Signing
  <1>15. \A g \in Handlers : OnTime(g)' => g # h /\ OnTime(g) /\ g \notin S /\ handler'[g].under = handler[g].under
    BY <1>9, <1>12, <1>13 DEF OnTime
  <1>16. \A g \in Handlers : RotatingOnTime(g)' =>
            /\ RotatingOnTime(g) /\ LoginOf(g)' = LoginOf(g)
            /\ handler'[g].parent = handler[g].parent /\ g # h /\ g \notin S
    BY <1>9, <1>12, <1>15 DEF RotatingOnTime, LoginOf, OnTime
  <1>17. \A u \in Tokens \ {t} : InTime(u)' => InTime(u) /\ u # parent
    BY <1>7 DEF InTime, Valid
  <1>18. InTime(t)' <=> OnTime(h)
    BY <1>8 DEF InTime, Valid
  <1>19. RevokersOvertake'
    BY <1>9, <1>13, <1>14 DEF RevokersOvertake
  <1>20. RevokersCover'
    BY <1>2, <1>14, <1>17, <1>18 DEF RevokersCover, RevokersOvertake, OnTime
  <1>21. OnTimeIsCurrent'
    BY <1>2, <1>15 DEF OnTimeIsCurrent
  <1>22. ParentsExist'
    BY <1>7, <1>8, <1>9, <1>12, <1>13 DEF ParentsExist
  <1>23. LoginsExist'
    <2>1. \A u \in Tokens : token[u].state # "none" => token'[u].state # "none"
      BY <1>7, <1>8
    <2>2. parent # NoToken => token[parent].state # "none" /\ token[parent].login \in Tokens
              /\ token[token[parent].login].state # "none"
      BY <1>2, <1>6 DEF ParentsExist, LoginsExist, parent
    <2>3. ASSUME NEW u \in Tokens \ {t}, token'[u].state # "none"
          PROVE  token'[u].login \in Tokens /\ token'[token'[u].login].state # "none"
      <3>1. token[u].state # "none"
        BY <1>7, <2>3 DEF Valid
      <3> QED
        BY <1>7, <2>1, <3>1 DEF LoginsExist
    <2>4. token'[t].login \in Tokens /\ token'[token'[t].login].state # "none"
      BY <1>8, <2>1, <2>2 DEF LoginOf, parent
    <2> QED
      BY <2>3, <2>4 DEF LoginsExist
  <1>24. \A u \in Tokens \ {t} : InTime(u) => u # t /\ token[u].login # t
    BY <1>2 DEF InTime, Valid, LoginsExist
  <1>25. \A g \in Handlers : RotatingOnTime(g) => LoginOf(g) # t
    BY <1>2, <1>12 DEF RotatingOnTime, OnTime, LoginOf, ParentsExist, LoginsExist
  <1>26. OneTokenPerLogin'
    <2>1. ASSUME NEW u \in Tokens \ {t}, InTime(u)', InTime(t)'
          PROVE  token'[u].login # token'[t].login
      <3>1. InTime(u) /\ u # parent /\ OnTime(h) /\ token'[u].login = token[u].login
        BY <1>7, <1>17, <1>18, <2>1
      <3>2. CASE parent = NoToken
        BY <1>8, <1>24, <3>1, <3>2
      <3>3. CASE parent # NoToken
        <4>1. RotatingOnTime(h)
          BY <3>1, <3>3 DEF RotatingOnTime, parent
        <4> QED
          BY <1>8, <3>1, <3>3, <4>1 DEF OnTimeIsNewest, parent
      <3> QED
        BY <3>2, <3>3
    <2> QED
      BY <1>7, <1>17, <2>1 DEF OneTokenPerLogin
  <1>27. OnTimeIsNewest'
    <2> SUFFICES ASSUME NEW g \in Handlers, NEW u \in Tokens, RotatingOnTime(g)', InTime(u)',
                        token'[u].login = LoginOf(g)'
                 PROVE  u = handler'[g].parent
      BY DEF OnTimeIsNewest
    <2>1. RotatingOnTime(g) /\ LoginOf(g)' = LoginOf(g) /\ handler'[g].parent = handler[g].parent
          /\ g # h /\ g \notin S
      BY <1>16
    <2>2. CASE u # t
      BY <1>7, <1>17, <2>1, <2>2 DEF OnTimeIsNewest
    <2>3. CASE u = t
      <3>1. OnTime(h)
        BY <1>18, <2>3
      <3>2. parent # NoToken /\ LoginOf(h) = LoginOf(g)
        BY <1>8, <1>25, <2>1, <2>3
      <3>3. RotatingOnTime(h)
        BY <3>1, <3>2 DEF RotatingOnTime, parent
      <3>4. handler[g].parent = parent
        BY <2>1, <3>2, <3>3 DEF OnTimeAgree, parent
      <3> QED
        BY <1>11, <2>1, <3>2, <3>4 DEF RotatingOnTime, OnTime
    <2> QED
      BY <2>2, <2>3
  <1>28. OnTimeAgree'
    BY <1>16 DEF OnTimeAgree
  <1>29. SessionsEnd'
    BY <1>2, <1>7, <1>8, <1>17, <1>18 DEF SessionsEnd, OnTimeIsCurrent
  <1> QED
    BY <1>19, <1>20, <1>21, <1>22, <1>23, <1>26, <1>27, <1>28, <1>29

\* Revoking all tokens begins: whoever is about to sign is overtaken from now on.
LEMMA SessionRevoke ==
  ASSUME TypeOK, SessionInv, NEW h \in Handlers, ~Signing(h), NEW doing,
         doing.pc \in {"changing", "deactivating"}, doing.revoking = ValidTokens,
         RevokeAll(h, doing), UNCHANGED <<token, user>>
  PROVE  SessionInv'
  <1> USE DEF SessionInv
  <1>1. Signers \in SUBSET Signers
    OBVIOUS
  <1>2. \A g \in Handlers : handler'[g] = IF g = h THEN doing ELSE Overtaken(Signers)[g]
    BY DEF RevokeAll, Overtaken
  <1>3. \A g \in Handlers : g # h =>
            /\ handler'[g].pc = handler[g].pc
            /\ ~Signing(g) => handler'[g] = handler[g]
            /\ Signing(g) => handler'[g].parent = handler[g].parent /\ handler'[g].overtaken
    <2>1. \A g \in Handlers : g \in Signers <=> Signing(g)
      BY DEF Signers
    <2> QED
      BY <1>1, <1>2, <2>1, OvertakenIs
  <1>4. handler'[h].pc \in {"changing", "deactivating"} /\ handler'[h].revoking = ValidTokens
    BY <1>2
  <1>5. \A g \in Handlers : Signing(g)' => Signing(g) /\ handler'[g].overtaken
            /\ handler'[g].parent = handler[g].parent
    BY <1>3, <1>4 DEF Signing
  <1>6. \A g \in Handlers : ~OnTime(g)'
    BY <1>5 DEF OnTime
  <1>7. \A t \in Tokens : InTime(t)' <=> InTime(t)
    BY DEF InTime, Valid
  <1>8. RevokersOvertake'
    BY <1>5 DEF RevokersOvertake
  <1>9. RevokersCover'
    <2> SUFFICES ASSUME NEW g \in Handlers, NEW t \in Tokens, RevokingAll(g)', InTime(t)
                 PROVE  t \in handler'[g].revoking
      BY <1>7 DEF RevokersCover
    <2>1. CASE g = h
      BY <1>4, <2>1 DEF InTime, ValidTokens
    <2>2. CASE g # h
      BY <1>3, <2>2 DEF RevokingAll, Signing, RevokersCover
    <2> QED
      BY <2>1, <2>2
  <1>10. ParentsExist' /\ LoginsExist'
    BY <1>5 DEF ParentsExist, LoginsExist
  <1>11. OnTimeIsCurrent' /\ OnTimeIsNewest' /\ OnTimeAgree'
    BY <1>6 DEF OnTimeIsCurrent, OnTimeIsNewest, OnTimeAgree, RotatingOnTime
  <1>12. SessionsEnd' /\ OneTokenPerLogin'
    BY <1>7 DEF SessionsEnd, OneTokenPerLogin
  <1> QED
    BY <1>8, <1>9, <1>10, <1>11, <1>12

\* ... and its commit leaves no session in time.
LEMMA SessionCommit ==
  ASSUME TypeOK, SessionInv, NEW h \in Handlers, RevokingAll(h),
         token' = Over(handler[h].revoking), handler' = [handler EXCEPT ![h] = Idle]
  PROVE  SessionInv'
  <1> USE DEF SessionInv
  <1>1. \A t \in Tokens :
            /\ token'[t].login = token[t].login /\ token'[t].late = token[t].late
            /\ token'[t].state = IF t \in handler[h].revoking /\ Valid(t) THEN "over" ELSE token[t].state
    BY OverIs
  <1>2. \A g \in Handlers : handler'[g] = IF g = h THEN Idle ELSE handler[g]
    BY DEF TypeOK
  <1>3. \A t \in Tokens : ~InTime(t)'
    BY <1>1 DEF InTime, Valid, RevokersCover
  <1>4. \A g \in Handlers : handler[g].pc \in {"rotating", "minting"} => handler[g].overtaken
    BY DEF RevokersOvertake, Signing
  <1>5. \A g \in Handlers : ~OnTime(g)'
    BY <1>2, <1>4 DEF OnTime, Signing, Idle
  <1>6. SessionsEnd' /\ OnTimeIsCurrent'
    BY <1>3, <1>5 DEF SessionsEnd, OnTimeIsCurrent
  <1>8. RevokersOvertake' /\ RevokersCover' /\ OneTokenPerLogin'
    BY <1>2, <1>3, <1>4 DEF RevokersOvertake, RevokersCover, OneTokenPerLogin, Signing, Idle
  <1>9. OnTimeIsNewest' /\ OnTimeAgree'
    BY <1>5 DEF OnTimeIsNewest, OnTimeAgree, RotatingOnTime
  <1>10. \A t \in Tokens : token[t].state = "none" <=> token'[t].state = "none"
    BY <1>1 DEF Valid
  <1>11. ParentsExist'
    <2> SUFFICES ASSUME NEW g \in Handlers, Signing(g)', handler'[g].parent # NoToken
                 PROVE  token'[handler'[g].parent].state # "none"
      BY DEF ParentsExist
    <2>1. handler'[g] = handler[g] /\ Signing(g)
      BY <1>2 DEF Signing, Idle
    <2> QED
      BY <1>10, <2>1, HandlerShape DEF SignerState, ParentsExist
  <1>12. LoginsExist'
    BY <1>1, <1>10 DEF LoginsExist
  <1> QED
    BY <1>6, <1>8, <1>9, <1>11, <1>12

-----------------------------------------------------------------------------
(* The steps of a handler, of time and of the webhooks.                    *)

\* A step of a handler that neither signs, revokes nor commits keeps SessionInv.
LEMMA QuietHandler ==
  ASSUME TypeOK, SessionInv, NEW h \in Handlers,
         UNCHANGED <<token, user>>, NEW s, handler' = [handler EXCEPT ![h] = s],
         s.pc \notin {"rotating", "minting", "changing", "deactivating"}
  PROVE  SessionInv'
  <1>1. \A g \in Handlers : handler'[g] = IF g = h THEN s ELSE handler[g]
    BY DEF TypeOK
  <1> QED
    BY <1>1, SessionIdle

\* A token that becomes unusable by itself or by a logout.
LEMMA SessionEndsOne ==
  ASSUME TypeOK, SessionInv, NEW t \in Tokens, token' = Over({t}), UNCHANGED user,
         NEW S \in SUBSET Signers, handler' = Overtaken(S)
  PROVE  SessionInv'
  <1>1. \A u \in Tokens :
            /\ token'[u].login = token[u].login
            /\ token'[u].late = token[u].late
            /\ token'[u].under = token[u].under
            /\ token'[u].state = "none" <=> token[u].state = "none"
            /\ token'[u].state = "valid" => token[u].state = "valid"
    BY OverIs DEF Valid
  <1>2. \A h \in Handlers :
            /\ handler'[h].pc = handler[h].pc
            /\ ~Signing(h) => handler'[h] = handler[h]
            /\ Signing(h) =>
                 /\ handler'[h].parent = handler[h].parent
                 /\ handler'[h].under = handler[h].under
                 /\ handler[h].overtaken => handler'[h].overtaken
    BY OvertakenIs DEF Signers
  <1>3. \A h \in Handlers : Signing(h) /\ handler[h].parent # NoToken => handler[h].parent \in Tokens
    BY HandlerShape DEF SignerState
  <1>4. \A h \in Handlers : OnTime(h)' => OnTime(h) /\ handler'[h].under = handler[h].under
    BY <1>1, <1>2, <1>3 DEF OnTime, Signing
  <1>5. SessionsEnd' /\ OnTimeIsCurrent'
    BY <1>1, <1>4 DEF SessionInv, SessionsEnd, OnTimeIsCurrent, InTime, Valid
  <1>6. \A h \in Handlers :
            /\ handler'[h].pc \in {"rotating", "minting"} =>
                 /\ Signing(h)
                 /\ handler'[h].parent = handler[h].parent
                 /\ handler'[h].under = handler[h].under
                 /\ handler[h].overtaken => handler'[h].overtaken
            /\ handler'[h].pc \in {"changing", "deactivating"} =>
                 RevokingAll(h) /\ handler'[h].revoking = handler[h].revoking
    BY <1>2 DEF Signing, RevokingAll
  <1> QED
    BY <1>1, <1>5, <1>6, SessionFrame

\* Sessions through a step of a handler.
LEMMA HandlerSessions ==
  ASSUME TypeOK, SessionInv, NEW h \in Handlers, HandlerStep(h)
  PROVE  SessionInv'
  <1>i. Idle.pc = "idle"
    BY DEF Idle
  <1>1. CASE Authenticate(h)
    <2>1. /\ Begin(h, "minting", NoToken, user.password) /\ handler[h].pc = "idle"
          /\ user.active /\ UNCHANGED <<token, user>>
      BY <1>1 DEF Authenticate
    <2> QED
      BY <2>1, SessionBegin
  <1>2. CASE RotateChecksUser(h)
    <2>1. CASE user.active
      <3>1. handler[h] \in SignerState /\ Signing(h)
        BY <1>2, HandlerShape DEF RotateChecksUser, Signing
      <3>2. \A g \in Handlers :
               handler'[g] = IF g = h THEN [handler[h] EXCEPT !.pc = "minting"] ELSE handler[g]
        BY <1>2, <2>1 DEF RotateChecksUser, TypeOK
      <3>3. /\ handler'[h].pc = "minting" /\ handler'[h].parent = handler[h].parent
            /\ handler'[h].under = handler[h].under
            /\ handler'[h].overtaken = handler[h].overtaken
        BY <3>1, <3>2 DEF SignerState
      <3>4. UNCHANGED <<token, user>>
        BY <1>2 DEF RotateChecksUser
      <3> QED
        BY <3>1, <3>2, <3>3, <3>4, SessionIdle
    <2>2. CASE ~user.active
      BY <1>2, <1>i, <2>2, QuietHandler DEF RotateChecksUser
    <2> QED
      BY <2>1, <2>2
  <1>3. CASE MarkUsed(h)
    <2> DEFINE doing == [pc |-> "changing", permit |-> handler[h].permit, revoking |-> ValidTokens,
                         verifies |-> handler[h].pc = "accepting"]
    <2>1. /\ ~Signing(h) /\ UNCHANGED <<token, user>>
          /\ RevokeAll(h, doing) \/ handler' = [handler EXCEPT ![h] = Idle]
      BY <1>3 DEF MarkUsed, Signing
    <2>2. doing.pc = "changing" /\ doing.revoking = ValidTokens
      OBVIOUS
    <2> HIDE DEF doing
    <2> QED
      BY <1>i, <2>1, <2>2, SessionRevoke, QuietHandler
  <1>4. CASE ChangePassword(h)
    BY <1>4, SessionCommit DEF ChangePassword, RevokingAll
  <1>5. CASE ResendReads(h)
    BY <1>5, QuietHandler DEF ResendReads
  <1>6. CASE RevokePending(h)
    BY <1>6, QuietHandler DEF RevokePending
  <1>7. CASE DeactivateRevokes(h)
    <2> DEFINE doing == [pc |-> "deactivating", revoking |-> ValidTokens]
    <2>1. ~Signing(h) /\ UNCHANGED <<token, user>> /\ RevokeAll(h, doing)
      BY <1>7 DEF DeactivateRevokes, Signing
    <2>2. doing.pc = "deactivating" /\ doing.revoking = ValidTokens
      OBVIOUS
    <2> HIDE DEF doing
    <2> QED
      BY <2>1, <2>2, SessionRevoke
  <1>8. CASE Deactivate(h)
    BY <1>8, SessionCommit DEF Deactivate, RevokingAll
  <1>9. CASE Reactivate(h)
    <2>1. /\ UNCHANGED token /\ UNCHANGED handler
          /\ user'.password = user.password /\ user'.active
      BY <1>9 DEF Reactivate, TypeOK, User
    <2> QED
      BY <2>1, SessionIdle
  <1>10. CASE Abort(h)
    BY <1>10, <1>i, QuietHandler DEF Abort
  <1>11. ASSUME NEW t \in Tokens, RotateReads(h, t)
         PROVE  SessionInv'
    <2>1. /\ Begin(h, "rotating", t, token[t].under) /\ handler[h].pc = "idle"
          /\ Valid(t) /\ UNCHANGED <<token, user>> /\ t # NoToken
      BY <1>11, CredentialsConstantsOK DEF RotateReads
    <2> QED
      BY <2>1, SessionBegin
  <1>12. ASSUME NEW t \in Tokens, Mint(h, t)
         PROVE  SessionInv'
    BY <1>12, SessionMint
  <1>13. ASSUME NEW t \in Tokens, Logout(h, t)
         PROVE  SessionInv'
    BY <1>13, RotatingAreSigners, SessionEndsOne DEF Logout
  <1>14. ASSUME NEW p \in Permits, ResetReads(h, p) \/ AcceptReads(h, p)
         PROVE  SessionInv'
    BY <1>14, QuietHandler DEF ResetReads, AcceptReads
  <1>15. ASSUME NEW m \in Messages, Forgot(h, m)
         PROVE  SessionInv'
    BY <1>15, SessionIdle DEF Forgot
  <1>16. ASSUME NEW m \in Messages, PublishInvitation(h, m)
         PROVE  SessionInv'
    BY <1>16, <1>i, QuietHandler DEF PublishInvitation
  <1> QED
    BY <1>1, <1>2, <1>3, <1>4, <1>5, <1>6, <1>7, <1>8, <1>9, <1>10, <1>11, <1>12, <1>13, <1>14,
       <1>15, <1>16 DEF HandlerStep

\* Sessions through the other steps.
LEMMA OtherSessions ==
  ASSUME TypeOK, SessionInv,
         \/ \E t \in Tokens : TokenExpires(t)
         \/ \E p \in Permits : PermitExpires(p)
         \/ \E k \in Hooks, m \in Messages : HookDelivers(k, m)
         \/ \E k \in Hooks : Mail(k) \/ MailFails(k)
  PROVE  SessionInv'
  <1>1. ASSUME NEW t \in Tokens, TokenExpires(t)
        PROVE  SessionInv'
    <2>1. \A u \in Tokens :
              /\ token'[u].login = token[u].login /\ token'[u].late = token[u].late
              /\ token'[u].under = token[u].under
              /\ token'[u].state = "none" <=> token[u].state = "none"
              /\ token'[u].state = "valid" => token[u].state = "valid"
      BY <1>1, OverIs DEF TokenExpires, Valid
    <2>2. UNCHANGED <<user, handler>>
      BY <1>1 DEF TokenExpires
    <2>3. \A h \in Handlers : Signing(h) /\ handler[h].parent # NoToken => handler[h].parent \in Tokens
      BY HandlerShape DEF SignerState
    <2>4. SessionsEnd' /\ OnTimeIsCurrent'
      BY <2>1, <2>2, <2>3 DEF SessionInv, SessionsEnd, OnTimeIsCurrent, InTime, Valid, OnTime, Signing
    <2> QED
      BY <2>1, <2>2, <2>4, SessionFrame DEF Signing, RevokingAll
  <1>2. ASSUME UNCHANGED <<user, token, handler>>
        PROVE  SessionInv'
    BY <1>2, SessionIdle
  <1> QED
    BY <1>1, <1>2 DEF PermitExpires, HookDelivers, Ignore, Issue, Mail, MailFails

-----------------------------------------------------------------------------
(* Links.                                                                  *)

\* Nothing but a mark begins a change, and what is marked stays markable.
LEMMA LinkFrame ==
  ASSUME TypeOK, LinkInv,
         \A h \in Handlers : handler'[h].pc = "changing" =>
            /\ handler[h].pc = "changing"
            /\ handler'[h].permit = handler[h].permit
            /\ Markable(handler[h].permit)'
  PROVE  LinkInv'
  BY DEF LinkInv, Markable

\* Links through a step of a handler.
LEMMA HandlerLinks ==
  ASSUME TypeOK, LinkInv, NEW h \in Handlers, HandlerStep(h)
  PROVE  LinkInv'
  <1> USE DEF Markable
  <1>0. ASSUME NEW s, s.pc # "changing", handler' = [handler EXCEPT ![h] = s], UNCHANGED permit
        PROVE  LinkInv'
    <2>1. \A g \in Handlers : handler'[g] = IF g = h THEN s ELSE handler[g]
      BY <1>0 DEF TypeOK
    <2> QED
      BY <1>0, <2>1, LinkFrame DEF LinkInv
  <1>s. ASSUME NEW s, s.pc # "changing", UNCHANGED permit, NEW S \in SUBSET Signers,
               handler' = [Overtaken(S) EXCEPT ![h] = s]
        PROVE  LinkInv'
    <2>1. \A g \in Handlers : handler'[g] = IF g = h THEN s ELSE Overtaken(S)[g]
      BY <1>s DEF Overtaken
    <2>2. \A g \in Handlers : handler'[g].pc = "changing" => handler'[g] = handler[g]
      BY <1>s, <2>1, OvertakenIs DEF Signers, Signing
    <2> QED
      BY <1>s, <2>2, LinkFrame DEF LinkInv
  <1>i. Idle.pc # "changing"
    BY DEF Idle
  <1>1. CASE Authenticate(h)
    BY <1>0, <1>1 DEF Authenticate, Begin
  <1>2. CASE RotateChecksUser(h)
    <2>1. handler[h] \in SignerState
      BY <1>2, HandlerShape DEF RotateChecksUser, Signing
    <2>2. [handler[h] EXCEPT !.pc = "minting"].pc # "changing"
      BY <2>1 DEF SignerState
    <2> QED
      BY <1>0, <1>2, <1>i, <2>2 DEF RotateChecksUser
  <1>3. CASE MarkUsed(h)
    <2> DEFINE p == handler[h].permit
               doing == [pc |-> "changing", permit |-> p, revoking |-> ValidTokens,
                         verifies |-> handler[h].pc = "accepting"]
    <2>1. CASE handler' = [handler EXCEPT ![h] = Idle]
      BY <1>0, <1>3, <1>i, <2>1 DEF MarkUsed
    <2>2. CASE Markable(p) /\ RevokeAll(h, doing)
      <3>1. ~Locked(p) /\ UNCHANGED permit
        BY <1>3 DEF MarkUsed
      <3>2. Signers \in SUBSET Signers
        OBVIOUS
      <3>3. \A g \in Handlers : handler'[g] = IF g = h THEN doing ELSE Overtaken(Signers)[g]
        BY <2>2 DEF RevokeAll, Overtaken
      <3>4. handler'[h].pc = "changing" /\ handler'[h].permit = p
        BY <3>3
      <3>5. \A g \in Handlers : g # h /\ handler'[g].pc = "changing" =>
               handler[g].pc = "changing" /\ handler'[g].permit = handler[g].permit
        <4>1. ASSUME NEW g \in Handlers, g # h, handler'[g].pc = "changing"
              PROVE  handler'[g] = handler[g]
          <5>1. handler'[g] = Overtaken(Signers)[g] /\ handler[g].pc = "changing"
            BY <3>2, <3>3, <4>1, OvertakenIs
          <5>2. g \notin Signers
            BY <5>1 DEF Signers, Signing
          <5> QED
            BY <3>2, <5>1, <5>2, OvertakenIs
        <4> QED
          BY <4>1
      <3> HIDE DEF doing
      <3> QED
        BY <2>2, <3>1, <3>4, <3>5 DEF LinkInv, Locked
    <2> QED
      BY <1>3, <2>1, <2>2 DEF MarkUsed
  <1>4. CASE ChangePassword(h)
    <2>1. handler[h] \in ChangerState
      BY <1>4, HandlerShape DEF ChangePassword
    <2>2. \A g \in Handlers : handler'[g] = IF g = h THEN Idle ELSE handler[g]
      BY <1>4 DEF ChangePassword, TypeOK
    <2>3. \A q \in Permits : q # handler[h].permit => permit'[q] = permit[q]
      BY <1>4 DEF ChangePassword, TypeOK
    <2>4. \A g \in Handlers : handler'[g].pc = "changing" =>
              /\ handler[g].pc = "changing" /\ handler'[g].permit = handler[g].permit
              /\ handler[g].permit # handler[h].permit /\ handler[g].permit \in Permits
      BY <1>4, <1>i, <2>2, HandlerShape DEF LinkInv, ChangePassword, ChangerState
    <2> QED
      BY <2>3, <2>4, LinkFrame DEF LinkInv
  <1>5. CASE ResendReads(h)
    BY <1>0, <1>5 DEF ResendReads
  <1>6. CASE RevokePending(h)
    <2>1. \A g \in Handlers : handler'[g] = IF g = h THEN [pc |-> "publishing"] ELSE handler[g]
      BY <1>6 DEF RevokePending, TypeOK
    <2>2. \A g \in Handlers : handler[g].pc = "changing" =>
              handler[g].permit \in Permits /\ ~Unused(handler[g].permit)
      BY <1>6, HandlerShape DEF RevokePending, ChangerState, Locked
    <2>3. \A g \in Handlers : handler[g].pc = "changing" =>
              permit'[handler[g].permit] = permit[handler[g].permit]
      BY <1>6, <2>2 DEF RevokePending
    <2> QED
      BY <2>1, <2>3, LinkFrame DEF LinkInv
  <1>7. CASE DeactivateRevokes(h)
    <2>1. Signers \in SUBSET Signers
      OBVIOUS
    <2> QED
      BY <1>7, <1>s, <2>1 DEF DeactivateRevokes, RevokeAll
  <1>8. CASE Deactivate(h)
    BY <1>0, <1>8, <1>i DEF Deactivate
  <1>9. CASE Reactivate(h)
    BY <1>9, LinkFrame DEF Reactivate, LinkInv
  <1>10. CASE Abort(h)
    BY <1>0, <1>10, <1>i DEF Abort
  <1>11. ASSUME NEW t \in Tokens, RotateReads(h, t)
         PROVE  LinkInv'
    BY <1>0, <1>11 DEF RotateReads, Begin
  <1>12. ASSUME NEW t \in Tokens, Mint(h, t)
         PROVE  LinkInv'
    <2> DEFINE S == IF handler[h].parent = NoToken THEN {} ELSE Rotating(handler[h].parent)
    <2>1. S \in SUBSET Signers
      BY RotatingAreSigners
    <2>2. handler' = [Overtaken(S) EXCEPT ![h] = Idle] /\ UNCHANGED permit
      BY <1>12 DEF Mint
    <2> HIDE DEF S
    <2> QED
      BY <1>i, <1>s, <2>1, <2>2
  <1>13. ASSUME NEW t \in Tokens, Logout(h, t)
         PROVE  LinkInv'
    <2>1. \A g \in Handlers : handler'[g].pc = "changing" => handler'[g] = handler[g]
      BY <1>13, RotatingAreSigners, OvertakenIs DEF Logout, Signers, Signing
    <2> QED
      BY <1>13, <2>1, LinkFrame DEF Logout, LinkInv
  <1>14. ASSUME NEW p \in Permits, ResetReads(h, p) \/ AcceptReads(h, p)
         PROVE  LinkInv'
    BY <1>0, <1>14 DEF ResetReads, AcceptReads
  <1>15. ASSUME NEW m \in Messages, Forgot(h, m)
         PROVE  LinkInv'
    BY <1>15, LinkFrame DEF Forgot, LinkInv
  <1>16. ASSUME NEW m \in Messages, PublishInvitation(h, m)
         PROVE  LinkInv'
    BY <1>0, <1>16, <1>i DEF PublishInvitation
  <1> QED
    BY <1>1, <1>2, <1>3, <1>4, <1>5, <1>6, <1>7, <1>8, <1>9, <1>10, <1>11, <1>12, <1>13, <1>14,
       <1>15, <1>16 DEF HandlerStep

\* Links through the other steps.
LEMMA OtherLinks ==
  ASSUME TypeOK, LinkInv,
         \/ \E t \in Tokens : TokenExpires(t)
         \/ \E p \in Permits : PermitExpires(p)
         \/ \E k \in Hooks, m \in Messages : HookDelivers(k, m)
         \/ \E k \in Hooks : Mail(k) \/ MailFails(k)
  PROVE  LinkInv'
  <1>0. \A h \in Handlers : handler[h].pc = "changing" => handler[h].permit \in Permits
    BY HandlerShape DEF ChangerState
  <1>1. ASSUME UNCHANGED <<handler, permit>> PROVE LinkInv'
    BY <1>1, LinkFrame DEF LinkInv, Markable
  <1>2. ASSUME NEW p \in Permits, PermitExpires(p) PROVE LinkInv'
    <2>1. \A q \in Permits : Markable(q) => Markable(q)'
      BY <1>2 DEF PermitExpires, TypeOK, Permit, Markable
    <2>2. UNCHANGED handler
      BY <1>2 DEF PermitExpires
    <2> QED
      BY <1>0, <2>1, <2>2, LinkFrame DEF LinkInv
  <1>3. ASSUME NEW k \in Hooks, NEW m \in Messages, NEW p \in Permits, Issue(k, m, p) PROVE LinkInv'
    <2>1. \A q \in Permits : Markable(q) => Markable(q)'
      BY <1>3 DEF Issue, TypeOK, Permit, Markable
    <2>2. UNCHANGED handler
      BY <1>3 DEF Issue
    <2> QED
      BY <1>0, <2>1, <2>2, LinkFrame DEF LinkInv
  <1> QED
    BY <1>1, <1>2, <1>3 DEF TokenExpires, HookDelivers, Ignore, Mail, MailFails

-----------------------------------------------------------------------------
(* The inductive invariant.                                                *)

LEMMA InitInv == Init => IInv
  <1> SUFFICES ASSUME Init PROVE IInv
    OBVIOUS
  <1>1. TypeOK
    BY InitType
  <1>2. \A h \in Handlers : handler[h].pc = "idle"
    BY DEF Init, Idle
  <1>3. LinkInv
    BY <1>2 DEF LinkInv
  <1>4. PICK T \in {{}, {t \in Tokens : \A u \in Tokens : t <= u}} :
            token = [t \in Tokens |->
                [state |-> IF t \in T THEN "valid" ELSE "none",
                 login |-> IF t \in T THEN t ELSE NoToken, under |-> Initial, late |-> FALSE]]
    BY DEF Init
  <1>5. \A t \in Tokens :
            /\ token[t].state \in {"none", "valid"} /\ token[t].under = Initial
            /\ token[t].state # "none" => token[t].login = t
    BY <1>4
  <1>6. user.active /\ user.password = Initial
    BY DEF Init
  <1>7. LoginsExist /\ SessionsEnd /\ OneTokenPerLogin
    BY <1>5, <1>6 DEF LoginsExist, SessionsEnd, OneTokenPerLogin, InTime, Valid
  <1>8. RevokersOvertake /\ RevokersCover /\ OnTimeIsCurrent /\ ParentsExist /\ OnTimeIsNewest
        /\ OnTimeAgree
    BY <1>2 DEF RevokersOvertake, RevokersCover, OnTimeIsCurrent, ParentsExist, OnTimeIsNewest,
                OnTimeAgree, RotatingOnTime, OnTime, Signing, RevokingAll
  <1> QED
    BY <1>1, <1>3, <1>7, <1>8 DEF IInv, SessionInv

LEMMA StepInv == IInv /\ [Next]_vars => IInv'
  <1> SUFFICES ASSUME IInv, [Next]_vars PROVE IInv'
    OBVIOUS
  <1> USE DEF IInv
  <1>1. ASSUME NEW h \in Handlers, HandlerStep(h) PROVE IInv'
    BY <1>1, HandlerTypes, HandlerSessions, HandlerLinks
  <1>2. ASSUME \/ \E t \in Tokens : TokenExpires(t)
               \/ \E p \in Permits : PermitExpires(p)
               \/ \E k \in Hooks, m \in Messages : HookDelivers(k, m)
               \/ \E k \in Hooks : Mail(k) \/ MailFails(k)
        PROVE IInv'
    BY <1>2, OtherTypes, OtherSessions, OtherLinks
  <1>3. CASE UNCHANGED vars
    <2>1. TypeOK'
      BY <1>3 DEF vars, TypeOK
    <2>2. SessionInv'
      BY <1>3, SessionIdle DEF vars
    <2>3. LinkInv'
      BY <1>3, LinkFrame DEF vars, LinkInv, Markable
    <2> QED
      BY <2>1, <2>2, <2>3
  <1> QED
    BY <1>1, <1>2, <1>3 DEF Next

\* The inductive invariant of sessions and links, for any number of concurrent
\* requests and deliveries.
THEOREM IInvHolds == Spec => []IInv
  BY InitInv, StepInv, PTL DEF Spec

\* No session outlives a change of the password or a deactivation, except one
\* issued by a call that overlapped such a call (reset_password,
\* accept_invitation, update_user against create_auth_tokens).
THEOREM SessionsAlwaysEnd == Spec => []SessionsEnd
  <1>1. IInv => SessionsEnd
    BY DEF IInv, SessionInv
  <1> QED
    BY <1>1, IInvHolds, PTL

\* One usable refresh token per login, unless two calls with one token
\* overlapped (rotate_refresh_token, logout).
THEOREM RotationIsSingleUse == Spec => []OneTokenPerLogin
  <1>1. IInv => OneTokenPerLogin
    BY DEF IInv, SessionInv
  <1> QED
    BY <1>1, IInvHolds, PTL

-----------------------------------------------------------------------------
(* The refinement.                                                         *)

LEMMA AbstractIs ==
  ASSUME NEW s
  PROVE  /\ s \in {"live", "expired"} => Abstract(s) = "issued"
         /\ s = "deleted" => Abstract(s) = "withdrawn"
         /\ s = "none" => Abstract(s) = "none"
         /\ s = "used" => Abstract(s) = "used"
  BY DEF Abstract

\* A step that changes no password and no permit stutters.
LEMMA LinksStutter ==
  ASSUME user'.password = user.password, UNCHANGED permit
  PROVE  UNCHANGED Links!vars
  BY DEF Links!vars

LEMMA InitRefines == Init => Links!Init
  <1> SUFFICES ASSUME Init PROVE Links!Init
    OBVIOUS
  <1>1. PICK kind \in {"reset", "invite"},
             P \in {{}, {p \in Permits : \A q \in Permits : p <= q}} :
            permit = [p \in Permits |-> [kind |-> kind, state |-> IF p \in P THEN "live" ELSE "none"]]
    BY DEF Init
  <1>2. \A p \in Permits : permit[p].state \in {"live", "none"}
    BY <1>1
  <1>3. \A p \in Permits : Abstract(permit[p].state) \in {"none", "issued"}
    BY <1>2, AbstractIs
  <1> QED
    BY <1>3 DEF Init, Links!Init

\* A commit uses a permit, a webhook issues one, a new invitation withdraws all
\* that are pending, and nothing else changes a permit or the password.
LEMMA StepRefines == IInv /\ [Next]_vars => [Links!Next]_(Links!vars)
  <1> SUFFICES ASSUME IInv, Next PROVE Links!Next \/ UNCHANGED Links!vars
    BY LinksStutter DEF vars
  <1> USE DEF IInv
  <1> DEFINE state == [p \in Permits |-> Abstract(permit[p].state)]
  <1>1. ASSUME NEW h \in Handlers, ChangePassword(h) PROVE Links!Next
    <2>1. handler[h].permit \in Permits /\ Markable(handler[h].permit)
      BY <1>1, HandlerShape DEF ChangePassword, ChangerState, LinkInv
    <2> DEFINE p == handler[h].permit
    <2>2. user'.password = p
      BY <1>1 DEF ChangePassword, TypeOK, User
    <2>3. \A q \in Permits : permit'[q].state = IF q = p THEN "used" ELSE permit[q].state
      BY <1>1, <2>1 DEF ChangePassword, TypeOK, Permit
    <2>4. state[p] = "issued"
      BY <2>1, AbstractIs DEF Markable
    <2>5. state' = [state EXCEPT ![p] = "used"]
      BY <2>1, <2>3, AbstractIs
    <2>6. Links!Use(p)
      BY <2>2, <2>4, <2>5 DEF Links!Use
    <2> QED
      BY <2>1, <2>6 DEF Links!Next
  <1>2. ASSUME NEW h \in Handlers, RevokePending(h) PROVE Links!Next
    <2> DEFINE S == {p \in Permits : Unused(p)}
    <2>1. \A p \in Permits : permit'[p].state = IF p \in S THEN "deleted" ELSE permit[p].state
      BY <1>2 DEF RevokePending, TypeOK, Permit
    <2>2. \A p \in S : state[p] = "issued"
      BY AbstractIs DEF Unused, Markable
    <2>3. state' = [p \in Permits |-> IF p \in S THEN "withdrawn" ELSE state[p]]
      BY <2>1, AbstractIs
    <2>4. UNCHANGED user
      BY <1>2 DEF RevokePending
    <2>5. Links!Withdraw(S)
      BY <2>2, <2>3, <2>4 DEF Links!Withdraw
    <2>6. S \in SUBSET Permits
      OBVIOUS
    <2> HIDE DEF S
    <2> QED
      BY <2>5, <2>6 DEF Links!Next
  <1>3. ASSUME NEW k \in Hooks, NEW m \in Messages, NEW p \in Permits, Issue(k, m, p) PROVE Links!Next
    <2>1. \A q \in Permits : permit'[q].state = IF q = p THEN "live" ELSE permit[q].state
      BY <1>3 DEF Issue, TypeOK, Permit
    <2>2. permit[p].state = "none" /\ UNCHANGED user
      BY <1>3 DEF Issue
    <2>3. state[p] = "none"
      BY <2>2, AbstractIs
    <2>4. state' = [state EXCEPT ![p] = "issued"]
      BY <2>1, AbstractIs
    <2>5. Links!Issue(p)
      BY <2>2, <2>3, <2>4 DEF Links!Issue
    <2> QED
      BY <2>5 DEF Links!Next
  <1>4. ASSUME NEW p \in Permits, PermitExpires(p) PROVE UNCHANGED Links!vars
    <2>1. \A q \in Permits : permit'[q].state = IF q = p THEN "expired" ELSE permit[q].state
      BY <1>4 DEF PermitExpires, TypeOK, Permit
    <2>2. permit[p].state = "live" /\ UNCHANGED user
      BY <1>4 DEF PermitExpires
    <2>3. \A q \in Permits : Abstract(permit'[q].state) = Abstract(permit[q].state)
      BY <2>1, <2>2, AbstractIs
    <2> QED
      BY <2>2, <2>3 DEF Links!vars
  <1>5. ASSUME NEW h \in Handlers, Deactivate(h) \/ Reactivate(h) PROVE UNCHANGED Links!vars
    BY <1>5, LinksStutter DEF Deactivate, Reactivate, TypeOK, User
  <1>6. ASSUME UNCHANGED <<user, permit>> PROVE UNCHANGED Links!vars
    BY <1>6, LinksStutter
  <1>7. ASSUME NEW h \in Handlers, HandlerStep(h) PROVE Links!Next \/ UNCHANGED Links!vars
    BY <1>1, <1>2, <1>5, <1>6, <1>7
       DEF HandlerStep, Authenticate, RotateChecksUser, MarkUsed, ResendReads, DeactivateRevokes,
           Abort, RotateReads, Mint, Logout, ResetReads, AcceptReads, Forgot, PublishInvitation
  <1> QED
    BY <1>3, <1>4, <1>6, <1>7 DEF Next, TokenExpires, HookDelivers, Ignore, Mail, MailFails

\* The links of reset_password and accept_invitation implement single-use permits.
THEOREM LinksRefine == Spec => ImplementsSingleUse
  BY InitRefines, StepRefines, IInvHolds, PTL DEF Spec, ImplementsSingleUse, Links!Spec
=============================================================================
