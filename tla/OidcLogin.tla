------------------------------ MODULE OidcLogin ------------------------------
(***************************************************************************)
(* Signing in through Google or Kakao: the start and callback routes of    *)
(* AuthController, OidcLoginService, OidcClientService and AuthCookie.     *)
(*                                                                         *)
(* The server remembers nothing of a login between start and callback:     *)
(* state, nonce, code verifier and returnTo travel in four temporary       *)
(* cookies, of which a browser has one set however many tabs it opens.     *)
(* Responses set or clear all four.  What the server does keep, a map of   *)
(* discovered provider clients, is lost when it restarts.  The provider    *)
(* itself, the person in front of it and the browser are external: people  *)
(* start several logins, open callback addresses twice or in another       *)
(* browser, refuse consent; browsers drop cookies (they expire after ten   *)
(* minutes); requests fail between any two awaits.                         *)
(***************************************************************************)
EXTENDS Naturals, FiniteSets

CONSTANTS
    Workers,    \* slots for requests in flight
    Browsers,
    Providers,  \* google and kakao, what parseOidcProvider accepts
    Logins,     \* fresh triples of state, nonce and verifier, one per start
    Subjects,   \* people at the provider
    Targets,    \* values of the returnTo parameter
    Allowed,    \* those that begin with one of the allowed prefixes
    Frontend,   \* FRONTEND_BASE_URL
    None

ASSUME ConstantsAssumption ==
    /\ Logins \subseteq Nat
    /\ Allowed \subseteq Targets
    /\ Frontend \in Allowed
    /\ None \notin Logins /\ None \notin Providers
    /\ None \notin Targets \cup Subjects \cup Browsers

VARIABLES
    jar,       \* the cookies of each browser
    clients,   \* providers whose client is cached (OidcClientService.clients)
    accounts,  \* the (provider, subject) pairs with an account
    sessions,  \* refresh sessions that callbacks created
    landed,    \* redirects a browser followed at the end of a login
    job,       \* what each worker is doing
    begun,     \* per login: the browser, provider and returnTo of its start
    grant,     \* per login: the provider's answer and whether its code is used
    harmed     \* logins that lost a request or a cookie (history)

server == <<clients, accounts, sessions, job>>
outside == <<jar, landed, begun, grant, harmed>>
vars == <<server, outside>>

(* The temporary cookies: OIDC_STATE, OIDC_NONCE, OIDC_CODE_VERIFIER, OIDC_RETURN_TO. *)
Temp == {"state", "nonce", "verifier", "returnTo"}

Jar == [state: Logins \cup {None}, nonce: Logins \cup {None},
        verifier: Logins \cup {None}, returnTo: Allowed \cup {None}]

Begun == [by: Browsers \cup {None}, provider: Providers \cup {None}, wanted: Allowed]

(* "asked": the person is at the provider; "granted"/"refused": sent back. *)
Grants == [stage: {"none", "asked", "granted", "refused"},
           subject: Subjects \cup {None}, used: BOOLEAN]

Session == [login: Logins, browser: Browsers, subject: Subjects]

Landing == [login: Logins, browser: Browsers, to: Allowed]

(* A start carries its normalised target, a callback the cookies of its    *)
(* request and the login whose address it was called with.                 *)
Jobs == [pc: {"idle", "starting", "redirecting", "exchanging", "upserting",
              "issuing", "landing"},
         browser: Browsers \cup {None}, provider: Providers \cup {None},
         login: Logins \cup {None}, cookies: Jar, target: Allowed,
         subject: Subjects \cup {None}]

NoCookies == [state |-> None, nonce |-> None, verifier |-> None, returnTo |-> None]

Idle == [pc |-> "idle", browser |-> None, provider |-> None, login |-> None,
         cookies |-> NoCookies, target |-> Frontend, subject |-> None]

TypeOK ==
    /\ jar \in [Browsers -> Jar]
    /\ clients \subseteq Providers
    /\ accounts \subseteq Providers \X Subjects
    /\ sessions \subseteq Session
    /\ landed \subseteq Landing
    /\ job \in [Workers -> Jobs]
    /\ begun \in [Logins -> Begun]
    /\ grant \in [Logins -> Grants]
    /\ harmed \subseteq Logins

Init ==
    /\ jar = [b \in Browsers |-> NoCookies]
    /\ clients = {}
    /\ accounts = {}
    /\ sessions = {}
    /\ landed = {}
    /\ job = [w \in Workers |-> Idle]
    /\ begun = [l \in Logins |-> [by |-> None, provider |-> None, wanted |-> Frontend]]
    /\ grant = [l \in Logins |-> [stage |-> "none", subject |-> None, used |-> FALSE]]
    /\ harmed = {}

-----------------------------------------------------------------------------
(* Provider clients *)

DiscoverForStart(w) ==          \* mutated form: callbacks rely on an earlier start
    /\ job[w].pc = "starting"
    /\ job[w].provider \notin clients
    /\ clients' = clients \cup {job[w].provider}
    /\ UNCHANGED <<accounts, sessions, job, outside>>

(* getClient without a cached client: Issuer.discover, then remember it.   *)
(* Two requests may both discover; the second overwrites an equal client.  *)
Discover(w) ==
    /\ job[w].pc \in {"starting", "exchanging"}
    /\ job[w].provider \notin clients
    /\ clients' = clients \cup {job[w].provider}
    /\ UNCHANGED <<accounts, sessions, job, outside>>

(* getClient with a cached client. *)
HasClient(w) == job[w].provider \in clients

-----------------------------------------------------------------------------
(* Start *)

(* Fresh triples are used in the order of their numbers. *)
Unused == {l \in Logins : begun[l].by = None}
NextLogin(l) == l \in Unused /\ \A k \in Unused : l <= k

(* normalizeReturnTo: an absent or foreign target becomes the front page. *)
NormalizeReturnTo(raw) == IF raw \in Allowed THEN raw ELSE Frontend

(* GET /auth/oidc/:provider/start, up to the first await. *)
Start(w, b, p, raw) ==
    /\ job[w] = Idle
    /\ Unused # {}
    /\ job' = [job EXCEPT ![w] = [Idle EXCEPT !.pc = "starting", !.browser = b,
                                     !.provider = p, !.target = NormalizeReturnTo(raw)]]
    /\ UNCHANGED <<clients, accounts, sessions, outside>>

(* buildAuthorizationUrl: fresh state, nonce and verifier. *)
BuildAuthorizationUrl(w, l) ==
    /\ job[w].pc = "starting"
    /\ HasClient(w)
    /\ NextLogin(l)
    /\ begun' = [begun EXCEPT ![l] = [by |-> job[w].browser, provider |-> job[w].provider,
                                      wanted |-> job[w].target]]
    /\ job' = [job EXCEPT ![w].pc = "redirecting", ![w].login = l]
    /\ UNCHANGED <<clients, accounts, sessions, jar, landed, grant, harmed>>

(* setOidcTempCookies: all four are written over, whoever set them. *)
SetOidcTempCookies(old, l, target) ==
    [state |-> l, nonce |-> l, verifier |-> l, returnTo |-> target]

(* The login whose cookies a browser holds. *)
Held(b) == {jar[b][c] : c \in Temp \ {"returnTo"}} \ {None}

(* The response of a start: the browser stores the cookies and goes to the *)
(* provider.                                                               *)
Redirect(w) ==
    /\ job[w].pc = "redirecting"
    /\ jar' = [jar EXCEPT ![job[w].browser] =
                  SetOidcTempCookies(@, job[w].login, job[w].target)]
    /\ grant' = [grant EXCEPT ![job[w].login].stage = "asked"]
    /\ harmed' = harmed \cup (Held(job[w].browser) \ {job[w].login})
    /\ job' = [job EXCEPT ![w] = Idle]
    /\ UNCHANGED <<clients, accounts, sessions, landed, begun>>

-----------------------------------------------------------------------------
(* The provider and the browsers (external) *)

(* The person signs in and consents: the provider sends the browser back   *)
(* with the state it was given and a code bound to nonce and challenge.    *)
Grant(l, s) ==
    /\ grant[l].stage = "asked"
    /\ grant' = [grant EXCEPT ![l].stage = "granted", ![l].subject = s]
    /\ UNCHANGED <<server, jar, landed, begun, harmed>>

(* The person declines: sent back with an error and the state. *)
Decline(l) ==
    /\ grant[l].stage = "asked"
    /\ grant' = [grant EXCEPT ![l].stage = "refused"]
    /\ UNCHANGED <<server, jar, landed, begun, harmed>>

(* Ten minutes are over (the four expire together), or the browser drops   *)
(* its cookies.                                                            *)
Forget(b) ==
    /\ jar[b] # NoCookies
    /\ jar' = [jar EXCEPT ![b] = NoCookies]
    /\ harmed' = harmed \cup Held(b)
    /\ UNCHANGED <<server, landed, begun, grant>>

-----------------------------------------------------------------------------
(* Callback *)

(* handleOidcCallback up to the exchange, in the browser that opened the   *)
(* address of login l: extractOidcTempCookies wants the first three        *)
(* cookies (401 otherwise) and puts the front page for a missing fourth.   *)
Callback(w, b, l) ==
    /\ job[w] = Idle
    /\ grant[l].stage \in {"granted", "refused"}
    /\ \A c \in Temp \ {"returnTo"} : jar[b][c] # None
    /\ job' = [job EXCEPT ![w] =
                  [Idle EXCEPT !.pc = "exchanging", !.browser = b,
                      !.provider = begun[l].provider, !.login = l, !.cookies = jar[b],
                      !.target = IF jar[b].returnTo = None THEN NormalizeReturnTo(None)
                                 ELSE jar[b].returnTo]]
    /\ UNCHANGED <<clients, accounts, sessions, outside>>

ChecksNothing(w) ==             \* mutated form: gives the library nothing to compare
    grant[job[w].login].stage = "granted"

(* client.callback compares the state of the address with that of the      *)
(* cookie, and takes an error for an answer.                               *)
StateMatches(w) ==
    /\ grant[job[w].login].stage = "granted"
    /\ job[w].cookies.state = job[w].login

(* The provider wants the verifier of the challenge, the library the nonce. *)
ProofMatches(w) ==
    /\ job[w].cookies.verifier = job[w].login
    /\ job[w].cookies.nonce = job[w].login

ExchangeUnchecked(w) ==         \* mutated form
    /\ job[w].pc = "exchanging"
    /\ HasClient(w)
    /\ ChecksNothing(w)
    /\ ~grant[job[w].login].used
    /\ grant' = [grant EXCEPT ![job[w].login].used = TRUE]
    /\ job' = [job EXCEPT ![w].pc = "upserting",
                          ![w].subject = grant[job[w].login].subject]
    /\ UNCHANGED <<clients, accounts, sessions, jar, landed, begun, harmed>>

(* The subject the claims of a login name; claims without one are a Fail.   *)
ExtractUserInfoFromClaims(l) == grant[l].subject

(* exchangeOidcCode: a code is good for one exchange; the claims name the  *)
(* subject.                                                                *)
Exchange(w) ==
    /\ job[w].pc = "exchanging"
    /\ HasClient(w)
    /\ StateMatches(w)
    /\ ProofMatches(w)
    /\ ~grant[job[w].login].used
    /\ grant' = [grant EXCEPT ![job[w].login].used = TRUE]
    /\ job' = [job EXCEPT ![w].pc = "upserting",
                          ![w].subject = ExtractUserInfoFromClaims(job[w].login)]
    /\ UNCHANGED <<clients, accounts, sessions, jar, landed, begun, harmed>>

(* client.callback throws: 401, and the temporary cookies stay. *)
ExchangeRefused(w) ==
    /\ job[w].pc = "exchanging"
    /\ HasClient(w)
    /\ ~(StateMatches(w) /\ ProofMatches(w)) \/ grant[job[w].login].used
    /\ job' = [job EXCEPT ![w] = Idle]
    /\ UNCHANGED <<clients, accounts, sessions, outside>>

(* upsertAccountFromOidc: one transaction finds or creates the account     *)
(* (AccountLifecycle has its inside).                                      *)
UpsertAccount(w) ==
    /\ job[w].pc = "upserting"
    /\ accounts' = accounts \cup {<<job[w].provider, job[w].subject>>}
    /\ job' = [job EXCEPT ![w].pc = "issuing"]
    /\ UNCHANGED <<clients, sessions, outside>>

(* issueAuthTokens: the refresh session of a new token. *)
IssueAuthTokens(w) ==
    /\ job[w].pc = "issuing"
    /\ sessions' = sessions \cup {[login |-> job[w].login, browser |-> job[w].browser,
                                   subject |-> job[w].subject]}
    /\ job' = [job EXCEPT ![w].pc = "landing"]
    /\ UNCHANGED <<clients, accounts, outside>>

(* The response of a callback: clearOidcTempCookies (all four, even those  *)
(* a later start has set meanwhile) and the redirect to returnTo.          *)
Land(w) ==
    /\ job[w].pc = "landing"
    /\ jar' = [jar EXCEPT ![job[w].browser] = NoCookies]
    /\ landed' = landed \cup {[login |-> job[w].login, browser |-> job[w].browser,
                               to |-> job[w].target]}
    /\ harmed' = harmed \cup (Held(job[w].browser) \ {job[w].login})
    /\ job' = [job EXCEPT ![w] = Idle]
    /\ UNCHANGED <<clients, accounts, sessions, begun, grant>>

-----------------------------------------------------------------------------
(* Failures *)

LoginsOf(ws) == {job[w].login : w \in ws} \ {None}

(* A request dies at an await: discovery, the provider, the database, the  *)
(* response.                                                               *)
Fail(w) ==
    /\ job[w] # Idle
    /\ job' = [job EXCEPT ![w] = Idle]
    /\ harmed' = harmed \cup LoginsOf({w})
    /\ UNCHANGED <<clients, accounts, sessions, jar, landed, begun, grant>>

(* The server restarts: requests in flight and the map of clients are gone. *)
Restart ==
    /\ clients # {}
    /\ clients' = {}
    /\ job' = [w \in Workers |-> Idle]
    /\ harmed' = harmed \cup LoginsOf(Workers)
    /\ UNCHANGED <<accounts, sessions, jar, landed, begun, grant>>

-----------------------------------------------------------------------------
(* What the server does by itself once a request has come in. *)
Progress(w) ==
    \/ Discover(w)
    \/ \E l \in Logins : BuildAuthorizationUrl(w, l)
    \/ Redirect(w)
    \/ Exchange(w)
    \/ ExchangeRefused(w)
    \/ UpsertAccount(w)
    \/ IssueAuthTokens(w)
    \/ Land(w)

Next ==
    \/ \E w \in Workers :
          \/ Progress(w)
          \/ Fail(w)
          \/ \E b \in Browsers, p \in Providers, raw \in Targets : Start(w, b, p, raw)
          \/ \E b \in Browsers, l \in Logins : Callback(w, b, l)
    \/ \E l \in Logins : Decline(l) \/ \E s \in Subjects : Grant(l, s)
    \/ \E b \in Browsers : Forget(b)
    \/ Restart

Spec == Init /\ [][Next]_vars

(* The browser that was sent back for the first time opens the address. *)
FollowRedirect(l) ==
    /\ begun[l].by # None
    /\ ~grant[l].used
    /\ l \notin harmed
    /\ \E w \in Workers : Callback(w, begun[l].by, l)

(* The event loop runs every request on.  A browser follows a redirect by  *)
(* itself; strongly, as the two slots of Workers may be taken again and    *)
(* again, while a server accepts any number of requests.                   *)
Fairness ==
    /\ \A w \in Workers : WF_vars(Progress(w))
    /\ \A l \in Logins : SF_vars(FollowRedirect(l))

FairSpec == Spec /\ Fairness

-----------------------------------------------------------------------------
(* Properties *)

(* A session comes out of a login that the same browser started, for the   *)
(* person who signed in at the provider in that very login, and a login    *)
(* gives one session at most: whatever tabs, addresses opened twice or in  *)
(* another browser, and cookies overwritten by a later start.              *)
OwnLoginOnly ==
    /\ \A s \in sessions :
          /\ begun[s.login].by = s.browser
          /\ grant[s.login].subject = s.subject
          /\ <<begun[s.login].provider, s.subject>> \in accounts
    /\ \A s, t \in sessions : s.login = t.login => s = t

(* Who lands after a login lands where that very login's start asked for   *)
(* (the front page if that was nowhere allowed), never where another tab,  *)
(* an earlier or a later one, wanted to go, and has a session by then.     *)
LandsWhereStarted ==
    \A x \in landed :
        /\ begun[x.login].by = x.browser
        /\ x.to = begun[x.login].wanted
        /\ \E s \in sessions : s.login = x.login

(* A login that the provider granted ends in a landing unless a request of *)
(* its own failed or its cookies were dropped or overwritten: restarts of  *)
(* the server while the person is away, the other browser, and addresses   *)
(* opened twice do not stop it.                                            *)
CodeLeadsToSession ==
    \A l \in Logins :
        grant[l].stage = "granted" ~> (l \in harmed \/ \E x \in landed : x.login = l)
=============================================================================
