--------------------------- MODULE RefreshSessions ---------------------------
(***************************************************************************)
(* Refresh sessions: login, rotation, logout, a seller's password change   *)
(* and a customer's withdrawal, as TokenService, AuthService,              *)
(* SellerCredentialService and softDeleteAccount run them.                 *)
(*                                                                         *)
(* A session row is found by the hash of the token in the refresh cookie,  *)
(* so a token is identified with its row.  Every handler first reads, then *)
(* writes in another database round trip without looking again; each read, *)
(* single statement or transaction is one step here, and handlers of       *)
(* different requests interleave between them.  A handler may die after    *)
(* any step (RequestDies); what it committed stays.                        *)
(***************************************************************************)
EXTENDS Naturals

CONSTANTS
    Handlers,      \* slots for requests in flight
    Accounts,
    Sellers,       \* accounts with a seller credential; the others are users
    Suspended,     \* accounts whose status is not ACTIVE
    Ids,           \* auth_refresh_session rows that may be created
    Null,
    MaxVersion     \* model bound on the password changes of one seller

ASSUME SessionConstants ==
    /\ Sellers \subseteq Accounts
    /\ Suspended \subseteq Accounts
    /\ Null \notin Accounts \cup Ids
    /\ MaxVersion \in Nat

VARIABLES
    issued,      \* rows that exist
    owner,       \* account_id
    revoked,     \* rows with revoked_at
    removed,     \* rows with deleted_at
    expired,     \* rows whose expires_at has passed
    replacedBy,  \* replaced_by_session_id, or Null
    known,       \* tokens that reached a client in a Set-Cookie header
    access,      \* accounts that hold an access token
    deleted,     \* accounts with deleted_at
    version,     \* which password of the seller password_hash is the hash of
    request,     \* what each handler is doing
    (* History variables: they remember what no column stores. *)
    cred,        \* the password that vouches for the session (kept on rotation)
    rotatedFrom, \* the session this one was rotated from, or Null if a login
    cut          \* the password set by the last change that revoked everything

tables == <<issued, owner, revoked, removed, expired, replacedBy, cred, rotatedFrom>>
accountRows == <<deleted, version, cut>>
atClients == <<known, access>>
sessionVars == <<tables, accountRows, atClients, request>>

Users == Accounts \ Sellers

Pcs == {"idle", "rotating", "loggingIn", "responding", "loggingOut",
        "changing", "hashed", "withdrawing"}

Requests == [pc: Pcs, acct: Accounts \cup {Null}, sess: Ids \cup {Null},
         ver: Nat, via: {"user", "seller"}]

NoRequest == [pc |-> "idle", acct |-> Null, sess |-> Null, ver |-> 0, via |-> "user"]

SessionsTypeOK ==
    /\ issued \subseteq Ids
    /\ owner \in [Ids -> Accounts \cup {Null}]
    /\ revoked \subseteq issued
    /\ removed \subseteq issued
    /\ expired \subseteq issued
    /\ replacedBy \in [Ids -> Ids \cup {Null}]
    /\ known \subseteq issued
    /\ access \subseteq Accounts
    /\ deleted \subseteq Users
    /\ version \in [Accounts -> Nat]
    /\ request \in [Handlers -> Requests]
    /\ cred \in [Ids -> Nat]
    /\ rotatedFrom \in [Ids -> Ids \cup {Null}]
    /\ cut \in [Accounts -> Nat]

SessionsInit ==
    /\ issued = {}
    /\ owner = [s \in Ids |-> Null]
    /\ revoked = {}
    /\ removed = {}
    /\ expired = {}
    /\ replacedBy = [s \in Ids |-> Null]
    /\ known = {}
    /\ access = {}
    /\ deleted = {}
    /\ version = [a \in Accounts |-> 0]
    /\ request = [w \in Handlers |-> NoRequest]
    /\ cred = [s \in Ids |-> 0]
    /\ rotatedFrom = [s \in Ids |-> Null]
    /\ cut = [a \in Accounts |-> 0]

-----------------------------------------------------------------------------
(* findActiveRefreshSessionByHash; the soft-delete extension adds the last. *)
Active(s) == s \in issued \ (revoked \cup removed \cup expired)

(* JwtBearerStrategy.validate: the account exists, is live and ACTIVE. *)
Authenticates(a) == a \in access /\ a \notin deleted /\ a \notin Suspended

StartRequest(w, pc, a, s, v, via) ==
    /\ request[w] = NoRequest
    /\ request' = [request EXCEPT ![w] =
                  [pc |-> pc, acct |-> a, sess |-> s, ver |-> v, via |-> via]]

Goto(w, pc, s) ==
    request' = [request EXCEPT ![w] =
               [pc |-> pc, acct |-> request[w].acct, sess |-> s,
                ver |-> request[w].ver, via |-> request[w].via]]

(* createRefreshSession: a fresh random token, so a fresh row. *)
CreateRow(n, a, v, from) ==
    /\ n \in Ids \ issued
    /\ issued' = issued \cup {n}
    /\ owner' = [owner EXCEPT ![n] = a]
    /\ cred' = [cred EXCEPT ![n] = v]
    /\ rotatedFrom' = [rotatedFrom EXCEPT ![n] = from]

-----------------------------------------------------------------------------
(* Login *)

SellerLoginOldHash(w, a) ==        \* mutated form: verifies a cached hash
    /\ a \in Sellers
    /\ \E v \in 0..version[a] : StartRequest(w, "loggingIn", a, Null, v, "seller")
    /\ UNCHANGED <<tables, accountRows, atClients>>

(* sellerLogin up to argon2.verify: the caller knows the password of the   *)
(* hash just read.  The status of the account is not looked at.            *)
SellerLogin(w, a) ==
    /\ a \in Sellers
    /\ StartRequest(w, "loggingIn", a, Null, version[a], "seller")
    /\ UNCHANGED <<tables, accountRows, atClients>>

OidcLoginOfAnyone(w, a) ==         \* mutated form: matches a retired identity
    /\ a \in Users
    /\ StartRequest(w, "loggingIn", a, Null, version[a], "user")
    /\ UNCHANGED <<tables, accountRows, atClients>>

(* handleOidcCallback once upsertUserByOidcIdentity has committed. *)
OidcLogin(w, a) ==
    /\ a \in Users \ deleted
    /\ StartRequest(w, "loggingIn", a, Null, version[a], "user")
    /\ UNCHANGED <<tables, accountRows, atClients>>

(* issueAuthTokens: createRefreshSession, one INSERT. *)
IssueTokens(w, n) ==
    /\ request[w].pc = "loggingIn"
    /\ CreateRow(n, request[w].acct, request[w].ver, Null)
    /\ Goto(w, "responding", n)
    /\ UNCHANGED <<revoked, removed, expired, replacedBy, accountRows, atClients>>

-----------------------------------------------------------------------------
(* Rotation *)

(* rotateRefresh up to findActiveRefreshSessionByHash, from /auth/refresh  *)
(* or /auth/seller/refresh.  Any token a client ever received may come     *)
(* back.  The account's status and deletion are not looked at.             *)
FindForRotation(w, s, via) ==
    /\ s \in known
    /\ Active(s)
    /\ StartRequest(w, "rotating", owner[s], s, cred[s], via)
    /\ UNCHANGED <<tables, accountRows, atClients>>

(* The rows rotateRefreshSession's UPDATE writes: WHERE id = currentSessionId. *)
RotatedAllOfAccount(s) == {t \in issued : owner[t] = owner[s]}    \* mutated form

RotatedNothing(s) == {}                                           \* mutated form

RotatedRows(s) == {s}

(* rotateRefreshSession: INSERT, then UPDATE of the old row by id.  The    *)
(* transaction does not look whether the old row is still active.          *)
RotateTx(w, n) ==
    /\ request[w].pc = "rotating"
    /\ LET s == request[w].sess
       IN  /\ CreateRow(n, request[w].acct, cred[s], s)
           /\ revoked' = revoked \cup RotatedRows(s)
           /\ replacedBy' = [t \in Ids |->
                                IF t \in RotatedRows(s) THEN n ELSE replacedBy[t]]
    /\ Goto(w, "responding", n)
    /\ UNCHANGED <<removed, expired, accountRows, atClients>>

(* The response of a login or a rotation.  The cookie header is set before *)
(* refreshSeller looks for the seller credential, so it goes out even when *)
(* the caller is then refused an access token.                             *)
Respond(w) ==
    /\ request[w].pc = "responding"
    /\ known' = known \cup {request[w].sess}
    /\ access' = IF request[w].via = "user" \/ request[w].acct \in Sellers
                 THEN access \cup {request[w].acct} ELSE access
    /\ request' = [request EXCEPT ![w] = NoRequest]
    /\ UNCHANGED <<tables, accountRows>>

-----------------------------------------------------------------------------
(* Logout *)

(* AuthService.logout and logoutSeller up to the session lookup; the       *)
(* latter also wants the owner to be a seller, and throws otherwise.       *)
FindForLogout(w, s, via) ==
    /\ s \in known
    /\ Active(s)
    /\ via = "seller" => owner[s] \in Sellers
    /\ StartRequest(w, "loggingOut", owner[s], s, cred[s], via)
    /\ UNCHANGED <<tables, accountRows, atClients>>

(* revokeRefreshSession: UPDATE by id. *)
Revoke(w) ==
    /\ request[w].pc = "loggingOut"
    /\ revoked' = revoked \cup {request[w].sess}
    /\ request' = [request EXCEPT ![w] = NoRequest]
    /\ UNCHANGED <<issued, owner, removed, expired, replacedBy, cred,
                   rotatedFrom, accountRows, atClients>>

-----------------------------------------------------------------------------
(* A seller's password change: three statements, no transaction *)

(* JwtAuthGuard, the credential, both argon2.verify calls. *)
VerifyPassword(w, a) ==
    /\ a \in Sellers
    /\ Authenticates(a)
    /\ version[a] < MaxVersion
    /\ StartRequest(w, "changing", a, Null, version[a], "seller")
    /\ UNCHANGED <<tables, accountRows, atClients>>

(* updateSellerPasswordHash: a new hash, whatever is there by now. *)
UpdateHash(w) ==
    /\ request[w].pc = "changing"
    /\ version' = [version EXCEPT ![request[w].acct] = @ + 1]
    /\ request' = [request EXCEPT ![w] =
                  [pc |-> "hashed", acct |-> request[w].acct, sess |-> Null,
                   ver |-> version[request[w].acct] + 1, via |-> "seller"]]
    /\ UNCHANGED <<tables, deleted, cut, atClients>>

(* The rows revokeAllRefreshSessions and softDeleteAccount write. *)
SessionsOf(a) == {s \in issued \ revoked : owner[s] = a}

(* revokeAllRefreshSessions; the audit row and the response follow. *)
RevokeAll(w) ==
    /\ request[w].pc = "hashed"
    /\ revoked' = revoked \cup SessionsOf(request[w].acct)
    /\ cut' = [cut EXCEPT ![request[w].acct] = IF request[w].ver > @ THEN request[w].ver ELSE @]
    /\ request' = [request EXCEPT ![w] = NoRequest]
    /\ UNCHANGED <<issued, owner, removed, expired, replacedBy, cred,
                   rotatedFrom, deleted, version, atClients>>

-----------------------------------------------------------------------------
(* A customer's withdrawal *)

(* JwtAuthGuard and requireActiveUser. *)
AskWithdrawal(w, a) ==
    /\ a \in Users
    /\ Authenticates(a)
    /\ StartRequest(w, "withdrawing", a, Null, version[a], "user")
    /\ UNCHANGED <<tables, accountRows, atClients>>

(* softDeleteAccount, one transaction: the account and its sessions. *)
WithdrawTx(w) ==
    /\ request[w].pc = "withdrawing"
    /\ deleted' = deleted \cup {request[w].acct}
    /\ LET rows == SessionsOf(request[w].acct) \ removed
       IN  /\ revoked' = revoked \cup rows
           /\ removed' = removed \cup rows
    /\ request' = [request EXCEPT ![w] = NoRequest]
    /\ UNCHANGED <<issued, owner, expired, replacedBy, cred, rotatedFrom,
                   version, cut, atClients>>

-----------------------------------------------------------------------------
(* The process or the connection dies: the request is forgotten. *)
RequestDies(w) ==
    /\ request[w] # NoRequest
    /\ request' = [request EXCEPT ![w] = NoRequest]
    /\ UNCHANGED <<tables, accountRows, atClients>>

(* expires_at passes. *)
Expire(s) ==
    /\ s \in issued \ expired
    /\ expired' = expired \cup {s}
    /\ UNCHANGED <<issued, owner, revoked, removed, replacedBy, cred,
                   rotatedFrom, accountRows, atClients, request>>

Handle(w) ==
    \/ \E a \in Accounts : \/ SellerLogin(w, a) \/ OidcLogin(w, a)
                           \/ VerifyPassword(w, a) \/ AskWithdrawal(w, a)
    \/ \E s \in Ids, via \in {"user", "seller"} :
          FindForRotation(w, s, via) \/ FindForLogout(w, s, via)
    \/ \E n \in Ids : IssueTokens(w, n) \/ RotateTx(w, n)
    \/ Respond(w) \/ Revoke(w) \/ UpdateHash(w) \/ RevokeAll(w) \/ WithdrawTx(w)
    \/ RequestDies(w)

SessionsNext ==
    \/ \E w \in Handlers : Handle(w)
    \/ \E s \in Ids : Expire(s)

SessionsSpec == SessionsInit /\ [][SessionsNext]_sessionVars

-----------------------------------------------------------------------------
(* Properties *)

(* A rotation uses its token up for good, whoever else uses it at the same *)
(* time: the parent of a rotated session is revoked and links to a child   *)
(* of its own; a link never crosses accounts, nor joins two parents, nor   *)
(* upgrades an old password's session to a newer password.                 *)
RotationLinks ==
    /\ \A s \in Ids : replacedBy[s] # Null =>
          /\ s \in revoked
          /\ replacedBy[s] \in issued \ {s}
          /\ rotatedFrom[replacedBy[s]] = s
    /\ \A n \in issued : rotatedFrom[n] # Null =>
          /\ rotatedFrom[n] \in revoked
          /\ replacedBy[rotatedFrom[n]] # Null
          /\ owner[n] = owner[rotatedFrom[n]]
          /\ cred[n] = cred[rotatedFrom[n]]

(* rotateRefreshSession links the old session to THE new one: a session    *)
(* born of a rotation is the one its parent names.  Two rotations of one   *)
(* token leave a live session no row points to.                            *)
EveryRotationIsLinked ==
    \A n \in issued : rotatedFrom[n] # Null => replacedBy[rotatedFrom[n]] = n

(* changeSellerPassword revokes every session: once it has, no session     *)
(* vouched for by an earlier password is active.                           *)
PasswordChangeCutsAll ==
    \A s \in Ids : Active(s) => cred[s] >= cut[owner[s]]

(* The withdrawn account a has no active session and no request. *)
Gone(a) ==
    /\ a \in deleted
    /\ \A s \in Ids : Active(s) => owner[s] # a
    /\ \A w \in Handlers : request[w].acct # a

(* Once a withdrawn account has no request in flight and no session, no    *)
(* cookie and no access token that is still out there brings one back.     *)
WithdrawnStaysOut == [][\A a \in Users : Gone(a) => Gone(a)']_sessionVars

(* Everything active or in flight for a is vouched for by its current      *)
(* password.                                                               *)
OnlyCurrentPassword(a) ==
    /\ \A s \in Ids : Active(s) /\ owner[s] = a => cred[s] = version[a]
    /\ \A w \in Handlers : request[w].acct = a => request[w].ver = version[a]

(* An old password that no active session and no request rests on any more *)
(* stays without effect until the next change, whatever tokens are sent.   *)
OldPasswordStaysOut ==
    [][\A a \in Accounts :
          OnlyCurrentPassword(a) /\ version'[a] = version[a]
              => OnlyCurrentPassword(a)']_sessionVars

(* What a request in flight knows of the session it found, whatever has    *)
(* been committed since; the inductive part of the theorems.               *)
RequestsRemember ==
    \A w \in Handlers :
        /\ request[w] # NoRequest => request[w].acct \in Accounts
        /\ request[w].pc \in {"rotating", "loggingOut", "responding"} =>
              /\ request[w].sess \in issued
              /\ owner[request[w].sess] = request[w].acct
              /\ cred[request[w].sess] = request[w].ver
        /\ request[w].pc \in {"changing", "hashed"} => request[w].acct \in Sellers
        /\ request[w].pc = "withdrawing" => request[w].acct \in Users

(* Every session row belongs to an account. *)
OwnersKnown == \A s \in issued : owner[s] \in Accounts

SessionInv ==
    /\ SessionsTypeOK
    /\ RotationLinks
    /\ RequestsRemember
    /\ OwnersKnown
=============================================================================
