------------------------------ MODULE LoginProofs ------------------------------
(***************************************************************************)
(* Proofs about signing in and staying signed in: OidcLogin, for any       *)
(* number of browsers, tabs, providers, people and overlapping requests,   *)
(* and RefreshSessions, for any number of accounts, tokens, requests in    *)
(* flight and password changes.                                            *)
(*                                                                         *)
(* LoginInv is inductive for the first: it says of the cookies, the        *)
(* redirects and the requests of which login they are.  SessionInv is for  *)
(* the second.  SessionsTypeOK and RotationLinks alone are not: a rotation *)
(* writes the account and the password of the session a request found some *)
(* steps ago, and only RequestsRemember says that what the request         *)
(* remembers still describes that row.                                     *)
(***************************************************************************)
EXTENDS OidcLogin, RefreshSessions, TLAPS

(* OidcLogin *)

(* Cookies of one browser are all of one login which it started itself.    *)
OwnCookies(c, b) ==
    \/ c = NoCookies
    \/ \E l \in Logins : /\ begun[l].by = b
                         /\ c.state = l /\ c.nonce = l /\ c.verifier = l
                         /\ c.returnTo = begun[l].wanted

JarsOwn == \A b \in Browsers : OwnCookies(jar[b], b)

Exchanged == {"upserting", "issuing", "landing"}

(* What a request in flight knows still holds.                             *)
Remembers(j) ==
    /\ j.pc # "idle" => j.browser \in Browsers /\ j.provider \in Providers
    /\ j.pc \notin {"idle", "starting"} =>
          j.login \in Logins /\ begun[j.login].by # None
          /\ j.provider = begun[j.login].provider
    /\ j.pc \in Exchanged \cup {"redirecting"} =>
          j.browser = begun[j.login].by /\ j.target = begun[j.login].wanted
    /\ j.pc = "redirecting" => grant[j.login].stage = "none"
    /\ j.pc = "exchanging" =>
          /\ OwnCookies(j.cookies, j.browser)
          /\ j.cookies.state # None
          /\ j.target = j.cookies.returnTo
    /\ j.pc \in Exchanged =>
          grant[j.login].used /\ j.subject = grant[j.login].subject /\ j.subject \in Subjects
    /\ j.pc \in {"issuing", "landing"} => <<j.provider, j.subject>> \in accounts
    /\ j.pc \in {"upserting", "issuing"} => \A s \in sessions : s.login # j.login
    /\ j.pc = "landing" => \E s \in sessions : s.login = j.login

JobsRemember == \A w \in Workers : Remembers(job[w])

(* A login is answered once, and its code exchanged once.                  *)
OneRequestEach ==
    \A u, v \in Workers :
        /\ job[u].pc \in Exchanged /\ job[v].pc \in Exchanged
           /\ job[u].login = job[v].login => u = v
        /\ job[u].pc = "redirecting" /\ job[v].pc = "redirecting"
           /\ job[u].login = job[v].login => u = v

GrantsInOrder ==
    \A l \in Logins : /\ grant[l].used => grant[l].stage = "granted"
                      /\ grant[l].stage = "granted" => grant[l].subject \in Subjects
                      /\ grant[l].stage # "none" => begun[l].by # None
                      /\ begun[l].by # None => begun[l].provider \in Providers

SessionsUsed == \A s \in sessions : grant[s.login].used

LoginInv ==
    /\ TypeOK /\ JarsOwn /\ JobsRemember /\ OneRequestEach /\ GrantsInOrder
    /\ SessionsUsed /\ OwnLoginOnly /\ LandsWhereStarted

-----------------------------------------------------------------------------
(* What most steps leave alone.                                            *)
Kept ==
    /\ \A l \in Logins : begun[l].by # None => begun'[l] = begun[l]
    /\ \A l \in Logins : grant[l].used => grant'[l] = grant[l]
    /\ accounts \subseteq accounts'

LEMMA CookiesKept ==
    ASSUME TypeOK, NEW b \in Browsers, NEW c, OwnCookies(c, b), Kept
    PROVE  OwnCookies(c, b)'
<1>1. CASE c = NoCookies
      BY <1>1 DEF OwnCookies
<1>2. CASE c # NoCookies
  <2>1. PICK l \in Logins : /\ begun[l].by = b
                            /\ c.state = l /\ c.nonce = l /\ c.verifier = l
                            /\ c.returnTo = begun[l].wanted
        BY <1>2 DEF OwnCookies
  <2>2. begun'[l] = begun[l]
        BY <2>1, ConstantsAssumption DEF Kept
  <2> QED
      BY <2>1, <2>2 DEF OwnCookies
<1> QED
    BY <1>1, <1>2

LEMMA StillRemembers ==
    ASSUME TypeOK, NEW j \in Jobs, Remembers(j), Kept,
           j.pc = "redirecting" => grant'[j.login].stage = "none",
           \A s \in sessions' \ sessions : s.login # j.login,
           sessions \subseteq sessions'
    PROVE  Remembers(j)'
<1>1. j.pc \notin {"idle", "starting"} => begun'[j.login] = begun[j.login]
      BY DEF Remembers, Kept
<1>2. j.pc \in Exchanged => grant'[j.login] = grant[j.login]
      BY DEF Remembers, Kept, Exchanged
<1>9. j.pc # "idle" => j.browser \in Browsers /\ j.provider \in Providers
      BY DEF Remembers
<1>3. j.pc = "exchanging" => OwnCookies(j.cookies, j.browser)'
      BY CookiesKept DEF Remembers
<1>4. j.pc \in Exchanged => j.login \in Logins
      BY DEF Remembers, Exchanged
<1>5. /\ j.pc \notin {"idle", "starting"} =>
             j.login \in Logins /\ begun'[j.login].by # None
             /\ j.provider = begun'[j.login].provider
      /\ j.pc \in Exchanged \cup {"redirecting"} =>
             j.browser = begun'[j.login].by /\ j.target = begun'[j.login].wanted
      BY <1>1 DEF Remembers, Exchanged
<1>6. j.pc \in Exchanged => /\ grant'[j.login].used
                            /\ j.subject = grant'[j.login].subject /\ j.subject \in Subjects
      BY <1>2 DEF Remembers
<1>7. /\ j.pc \in {"issuing", "landing"} => <<j.provider, j.subject>> \in accounts'
      /\ j.pc \in {"upserting", "issuing"} => \A s \in sessions' : s.login # j.login
      /\ j.pc = "landing" => \E s \in sessions' : s.login = j.login
      BY DEF Remembers, Kept
<1>8. j.pc = "exchanging" => /\ j.cookies.state # None
                             /\ j.target = j.cookies.returnTo
      BY DEF Remembers
<1> QED
    BY <1>3, <1>5, <1>6, <1>7, <1>8, <1>9 DEF Remembers

(* A step of one worker that opens no session keeps what the others know.  *)
LEMMA OthersRemember ==
    ASSUME TypeOK, JobsRemember, Kept, NEW w \in Workers, NEW r,
           job' = [job EXCEPT ![w] = r], Remembers(r)',
           sessions' = sessions,
           \A u \in Workers \ {w} :
               job[u].pc = "redirecting" => grant'[job[u].login].stage = "none"
    PROVE  JobsRemember'
<1> SUFFICES ASSUME NEW u \in Workers
             PROVE  Remembers(job[u])'
    BY DEF JobsRemember
<1>1. CASE u = w
  <2>1. job'[u] = r
        BY <1>1 DEF TypeOK
  <2> QED
      BY <2>1
<1>2. CASE u # w
  <2>1. job'[u] = job[u] /\ job[u] \in Jobs
        BY <1>2 DEF TypeOK
  <2>2. Remembers(job[u])
        BY DEF JobsRemember
  <2>3. \A s \in sessions' \ sessions : s.login # job[u].login
        OBVIOUS
  <2> HIDE DEF Remembers, Kept
  <2>4. (job[u].pc = "redirecting" => grant'[job[u].login].stage = "none")
        BY <1>2
  <2> QED
      BY <2>1, <2>2, <2>3, <2>4, StillRemembers
<1> QED
    BY <1>1, <1>2


(* Landings, sessions and jars are as good as before when begun logins and *)
(* used codes stay and nothing else of them changes.                       *)
LEMMA OutcomesKept ==
    ASSUME LoginInv, Kept, sessions' = sessions, landed' = landed
    PROVE  SessionsUsed' /\ OwnLoginOnly' /\ LandsWhereStarted'
<1>1. \A s \in sessions : /\ s.login \in Logins /\ s.browser \in Browsers
                          /\ begun[s.login].by = s.browser
                          /\ grant[s.login].used
      BY DEF LoginInv, TypeOK, Session, OwnLoginOnly, SessionsUsed
<1>2. \A s \in sessions : begun'[s.login] = begun[s.login]
  <2>1. ASSUME NEW s \in sessions PROVE begun[s.login].by # None
        BY <1>1, <2>1, ConstantsAssumption
  <2> QED
      BY <1>1, <2>1 DEF Kept
<1>7. \A s \in sessions : grant'[s.login] = grant[s.login]
      BY <1>1 DEF Kept
<1>3. SessionsUsed' /\ OwnLoginOnly'
      BY <1>1, <1>2, <1>7 DEF LoginInv, SessionsUsed, OwnLoginOnly, Kept
<1>4. \A x \in landed : /\ x.login \in Logins /\ x.browser \in Browsers
                        /\ begun[x.login].by = x.browser
      BY DEF LoginInv, TypeOK, Landing, LandsWhereStarted
<1>5. \A x \in landed : begun'[x.login] = begun[x.login]
      BY <1>4, ConstantsAssumption DEF Kept
<1>6. LandsWhereStarted'
      BY <1>4, <1>5 DEF LoginInv, LandsWhereStarted
<1> QED
    BY <1>3, <1>6

LEMMA JarsKept ==
    ASSUME LoginInv, Kept, jar' = jar
    PROVE  JarsOwn'
BY CookiesKept DEF LoginInv, JarsOwn

(* A step that leaves the world outside alone and moves one worker.        *)
LEMMA ServerStep ==
    ASSUME LoginInv, NEW w \in Workers, NEW r \in Jobs, job' = [job EXCEPT ![w] = r],
           Remembers(r)', clients' \subseteq Providers, accounts \subseteq accounts',
           accounts' \subseteq Providers \X Subjects, sessions' = sessions,
           jar' = jar, landed' = landed, begun' = begun, grant' = grant,
           harmed' \subseteq Logins,
           r.pc \in Exchanged => job[w].pc \in Exchanged /\ r.login = job[w].login,
           r.pc # "redirecting"
    PROVE  LoginInv'
<1>1. Kept
      BY DEF Kept
<1>2. TypeOK'
      BY DEF LoginInv, TypeOK
<1>3. \A u \in Workers \ {w} :
          job[u].pc = "redirecting" => grant'[job[u].login].stage = "none"
      BY DEF LoginInv, JobsRemember, Remembers
<1>4. JobsRemember'
      BY <1>1, <1>3, OthersRemember DEF LoginInv
<1>5. OneRequestEach'
      BY DEF LoginInv, TypeOK, OneRequestEach
<1>6. GrantsInOrder'
      BY DEF LoginInv, GrantsInOrder
<1> QED
    BY <1>1, <1>2, <1>4, <1>5, <1>6, OutcomesKept, JarsKept DEF LoginInv

LEMMA InitHolds == Init => LoginInv
<1> SUFFICES ASSUME Init
             PROVE  LoginInv
    OBVIOUS
<1>1. TypeOK
  <2>1. NoCookies \in Jar
        BY DEF NoCookies, Jar
  <2>2. Idle \in Jobs
        BY <2>1, ConstantsAssumption DEF Idle, Jobs
  <2> QED
      BY <2>1, <2>2, ConstantsAssumption DEF Init, TypeOK, Begun, Grants
<1>2. JarsOwn
      BY DEF Init, JarsOwn, OwnCookies
<1>3. JobsRemember
      BY DEF Init, JobsRemember, Remembers, Idle, Exchanged
<1>4. OneRequestEach
      BY DEF Init, OneRequestEach, Idle, Exchanged
<1>5. GrantsInOrder
      BY DEF Init, GrantsInOrder
<1> QED
    BY <1>1, <1>2, <1>3, <1>4, <1>5
    DEF Init, LoginInv, SessionsUsed, OwnLoginOnly, LandsWhereStarted

-----------------------------------------------------------------------------
(* One lemma per action                                                    *)

LEMMA IdleRemembers == Idle \in Jobs /\ Remembers(Idle)'
<1>1. NoCookies \in Jar
      BY DEF NoCookies, Jar
<1>2. Idle \in Jobs
      BY <1>1, ConstantsAssumption DEF Idle, Jobs
<1> QED
    BY <1>2 DEF Remembers, Idle, Exchanged

LEMMA DiscoverKeeps ==
    ASSUME LoginInv, NEW w \in Workers, Discover(w)
    PROVE  LoginInv'
<1>1. Kept /\ sessions' = sessions /\ landed' = landed /\ jar' = jar
      BY DEF Discover, Kept, outside
<1>2. clients' \subseteq Providers
      BY DEF Discover, LoginInv, TypeOK, JobsRemember, Remembers
<1>3. TypeOK'
      BY <1>2 DEF Discover, LoginInv, TypeOK, outside
<1>4. JobsRemember'
  <2> SUFFICES ASSUME NEW u \in Workers
               PROVE  Remembers(job[u])'
      BY DEF JobsRemember
  <2>1. job[u] \in Jobs /\ Remembers(job[u]) /\ job'[u] = job[u]
        BY DEF LoginInv, TypeOK, JobsRemember, Discover
  <2>2. job[u].pc = "redirecting" => grant'[job[u].login].stage = "none"
        BY <2>1 DEF Remembers, Discover, outside
  <2> QED
      BY <1>1, <2>1, <2>2, StillRemembers DEF LoginInv
<1>5. OneRequestEach' /\ GrantsInOrder'
      BY DEF Discover, LoginInv, OneRequestEach, GrantsInOrder, outside
<1> QED
    BY <1>1, <1>3, <1>4, <1>5, OutcomesKept, JarsKept DEF LoginInv

LEMMA StartKeeps ==
    ASSUME LoginInv, NEW w \in Workers, NEW b \in Browsers, NEW p \in Providers,
           NEW raw \in Targets, Start(w, b, p, raw)
    PROVE  LoginInv'
<1> DEFINE r == [Idle EXCEPT !.pc = "starting", !.browser = b, !.provider = p,
                             !.target = NormalizeReturnTo(raw)]
<1>1. NormalizeReturnTo(raw) \in Allowed
      BY ConstantsAssumption DEF NormalizeReturnTo
<1>2. r \in Jobs
      BY <1>1, IdleRemembers DEF Jobs, Idle
<1>3. r.pc = "starting" /\ r.browser = b /\ r.provider = p
      BY DEF Idle
<1>4. Remembers(r)'
      BY <1>3 DEF Remembers, Exchanged
<1>5. r.pc \notin Exchanged /\ r.pc # "redirecting"
      BY <1>3 DEF Exchanged
<1>6. job' = [job EXCEPT ![w] = r]
      BY DEF Start
<1> HIDE DEF r
<1> QED
    BY <1>2, <1>4, <1>5, <1>6, ServerStep DEF Start, LoginInv, TypeOK, outside

LEMMA CallbackKeeps ==
    ASSUME LoginInv, NEW w \in Workers, NEW b \in Browsers, NEW l \in Logins,
           Callback(w, b, l)
    PROVE  LoginInv'
<1> DEFINE t == IF jar[b].returnTo = None THEN NormalizeReturnTo(None) ELSE jar[b].returnTo
<1>1. begun[l].by # None /\ begun[l] \in Begun /\ jar[b] \in Jar
      BY DEF LoginInv, GrantsInOrder, TypeOK, Callback
<1>2. PICK k \in Logins : /\ begun[k].by = b
                          /\ jar[b].state = k /\ jar[b].nonce = k /\ jar[b].verifier = k
                          /\ jar[b].returnTo = begun[k].wanted
  <2>1. jar[b].state # None
        BY DEF Callback, Temp
  <2>2. jar[b] # NoCookies
        BY <2>1 DEF NoCookies
  <2> QED
      BY <2>2 DEF LoginInv, JarsOwn, OwnCookies
<1>3. jar[b].returnTo \in Allowed /\ jar[b].returnTo # None
      BY <1>2, ConstantsAssumption DEF LoginInv, TypeOK, Begun
<1>4. t = jar[b].returnTo
      BY <1>3
<1>5. begun[l].provider \in Providers \cup {None}
      BY <1>1 DEF Begun
<1>14. PICK r : r = [Idle EXCEPT !.pc = "exchanging", !.browser = b,
                      !.provider = begun[l].provider, !.login = l, !.cookies = jar[b],
                      !.target = t]
      OBVIOUS
<1>6. r \in Jobs
      BY <1>1, <1>3, <1>4, <1>5, <1>14, IdleRemembers DEF Jobs, Idle
<1>7. /\ r.pc = "exchanging" /\ r.browser = b /\ r.provider = begun[l].provider
      /\ r.login = l /\ r.cookies = jar[b] /\ r.target = t
      BY <1>14 DEF Idle
<1>8. begun[l].provider \in Providers
      BY <1>1 DEF LoginInv, GrantsInOrder
<1>9. OwnCookies(jar[b], b)'
      BY <1>2 DEF OwnCookies, Callback, outside
<1>10. Remembers(r)'
       BY <1>1, <1>2, <1>4, <1>7, <1>8, <1>9, ConstantsAssumption
       DEF Remembers, Exchanged, Callback, outside
<1>11. r.pc \notin Exchanged /\ r.pc # "redirecting"
       BY <1>7 DEF Exchanged
<1>12. job' = [job EXCEPT ![w] = r]
       BY <1>14 DEF Callback
<1>13. /\ clients' \subseteq Providers /\ accounts' = accounts /\ sessions' = sessions
       /\ accounts \subseteq Providers \X Subjects /\ harmed' \subseteq Logins
       /\ jar' = jar /\ landed' = landed /\ begun' = begun /\ grant' = grant
       BY DEF Callback, LoginInv, TypeOK, outside
<1> HIDE DEF t
<1> QED
    BY <1>6, <1>10, <1>11, <1>12, <1>13, ServerStep

(* A worker that is done, or whose request died, with the world unchanged  *)
(* but for what was harmed.                                                *)
LEMMA EndKeeps ==
    ASSUME LoginInv, NEW w \in Workers, job' = [job EXCEPT ![w] = Idle],
           clients' = clients, accounts' = accounts, sessions' = sessions,
           jar' = jar, landed' = landed, begun' = begun, grant' = grant,
           harmed' \subseteq Logins
    PROVE  LoginInv'
<1>1. Idle.pc = "idle"
      BY DEF Idle
<1>2. clients' \subseteq Providers /\ accounts' \subseteq Providers \X Subjects
      BY DEF LoginInv, TypeOK
<1>3. Idle.pc \notin Exchanged /\ Idle.pc # "redirecting"
      BY <1>1 DEF Exchanged
<1> QED
    BY <1>2, <1>3, IdleRemembers, ServerStep

LEMMA ExchangeRefusedKeeps ==
    ASSUME LoginInv, NEW w \in Workers, ExchangeRefused(w)
    PROVE  LoginInv'
<1>1. harmed' \subseteq Logins
      BY DEF LoginInv, TypeOK, ExchangeRefused, outside
<1> QED
    BY <1>1, EndKeeps DEF ExchangeRefused, outside

LEMMA FailKeeps ==
    ASSUME LoginInv, NEW w \in Workers, Fail(w)
    PROVE  LoginInv'
<1>1. LoginsOf({w}) \subseteq Logins
      BY DEF LoginInv, TypeOK, Jobs, LoginsOf
<1>2. harmed' \subseteq Logins
      BY <1>1 DEF LoginInv, TypeOK, Fail
<1> QED
    BY <1>2, EndKeeps DEF Fail

LEMMA UpsertAccountKeeps ==
    ASSUME LoginInv, NEW w \in Workers, UpsertAccount(w)
    PROVE  LoginInv'
<1>1. job[w] \in Jobs /\ Remembers(job[w]) /\ job[w].pc = "upserting"
      BY DEF LoginInv, TypeOK, JobsRemember, UpsertAccount
<1>8. PICK r : r = [job[w] EXCEPT !.pc = "issuing"]
      OBVIOUS
<1>2. r \in Jobs /\ r.pc = "issuing" /\ job' = [job EXCEPT ![w] = r]
      BY <1>1, <1>8 DEF LoginInv, TypeOK, Jobs, UpsertAccount
<1>3. /\ r.browser = job[w].browser /\ r.provider = job[w].provider
      /\ r.login = job[w].login /\ r.target = job[w].target /\ r.subject = job[w].subject
      BY <1>1, <1>8 DEF Jobs
<1>4. /\ <<r.provider, r.subject>> \in accounts' /\ accounts \subseteq accounts'
      /\ accounts' \subseteq Providers \X Subjects
      BY <1>1, <1>3 DEF UpsertAccount, LoginInv, TypeOK, Remembers, Exchanged
<1>5. /\ clients' \subseteq Providers /\ sessions' = sessions /\ harmed' \subseteq Logins
      /\ jar' = jar /\ landed' = landed /\ begun' = begun /\ grant' = grant
      BY DEF UpsertAccount, LoginInv, TypeOK, outside
<1>6. Remembers(r)'
      BY <1>1, <1>2, <1>3, <1>4, <1>5 DEF Remembers, Exchanged
<1>7. job[w].pc \in Exchanged /\ r.pc # "redirecting"
      BY <1>1, <1>2 DEF Exchanged
<1> QED
    BY <1>2, <1>3, <1>4, <1>5, <1>6, <1>7, ServerStep

(* The provider's answer: no code of the login is used yet.                *)
LEMMA AnswerKeeps ==
    ASSUME LoginInv, NEW l \in Logins, NEW g \in Grants, grant[l].stage = "asked",
           grant' = [grant EXCEPT ![l] = g], g.used = grant[l].used,
           g.stage \in {"granted", "refused"}, g.stage = "granted" => g.subject \in Subjects,
           UNCHANGED <<server, jar, landed, begun, harmed>>
    PROVE  LoginInv'
<1>1. grant[l].used = FALSE
      BY DEF LoginInv, GrantsInOrder, TypeOK, Grants
<1>2. /\ grant'[l] = g
      /\ \A k \in Logins \ {l} : grant'[k] = grant[k]
      BY DEF LoginInv, TypeOK
<1>3. Kept
      BY <1>1, <1>2 DEF Kept, server
<1>4. TypeOK'
      BY DEF LoginInv, TypeOK, server
<1>5. JobsRemember'
  <2> SUFFICES ASSUME NEW u \in Workers
               PROVE  Remembers(job[u])'
      BY DEF JobsRemember
  <2>1. job[u] \in Jobs /\ Remembers(job[u]) /\ job'[u] = job[u]
        BY DEF LoginInv, TypeOK, JobsRemember, server
  <2>2. job[u].pc = "redirecting" => grant'[job[u].login].stage = "none"
        BY <2>1, <1>2 DEF Remembers
  <2>3. sessions' = sessions
        BY DEF server
  <2> QED
      BY <1>3, <2>1, <2>2, <2>3, StillRemembers DEF LoginInv
<1>6. OneRequestEach'
      BY DEF LoginInv, OneRequestEach, server
<1>7. GrantsInOrder'
      BY <1>1, <1>2 DEF LoginInv, GrantsInOrder, server
<1> QED
    BY <1>3, <1>4, <1>5, <1>6, <1>7, OutcomesKept, JarsKept DEF LoginInv, server

LEMMA GrantKeeps ==
    ASSUME LoginInv, NEW l \in Logins, NEW s \in Subjects, Grant(l, s)
    PROVE  LoginInv'
<1> DEFINE g == [grant[l] EXCEPT !.stage = "granted", !.subject = s]
<1>1. grant[l] \in Grants /\ grant \in [Logins -> Grants]
      BY DEF LoginInv, TypeOK
<1>2. g \in Grants /\ g.used = grant[l].used /\ g.stage = "granted" /\ g.subject = s
      BY <1>1 DEF Grants
<1>3. grant' = [grant EXCEPT ![l] = g]
      BY <1>1 DEF Grant
<1> HIDE DEF g
<1> QED
    BY <1>2, <1>3, AnswerKeeps DEF Grant

LEMMA DeclineKeeps ==
    ASSUME LoginInv, NEW l \in Logins, Decline(l)
    PROVE  LoginInv'
<1> DEFINE g == [grant[l] EXCEPT !.stage = "refused"]
<1>1. grant[l] \in Grants /\ grant \in [Logins -> Grants]
      BY DEF LoginInv, TypeOK
<1>2. g \in Grants /\ g.used = grant[l].used /\ g.stage = "refused"
      BY <1>1 DEF Grants
<1>3. grant' = [grant EXCEPT ![l] = g]
      BY <1>1 DEF Decline
<1> HIDE DEF g
<1> QED
    BY <1>2, <1>3, AnswerKeeps DEF Decline

LEMMA BuildKeeps ==
    ASSUME LoginInv, NEW w \in Workers, NEW l \in Logins, BuildAuthorizationUrl(w, l)
    PROVE  LoginInv'
<1>1. /\ job[w] \in Jobs /\ Remembers(job[w]) /\ job[w].pc = "starting"
      /\ begun[l].by = None
      BY DEF LoginInv, TypeOK, JobsRemember, BuildAuthorizationUrl, NextLogin, Unused
<1>2. PICK r : r = [job[w] EXCEPT !.pc = "redirecting", !.login = l]
      OBVIOUS
<1>3. r \in Jobs /\ r.pc = "redirecting" /\ r.login = l
      BY <1>1, <1>2 DEF Jobs
<1>4. /\ r.browser = job[w].browser /\ r.provider = job[w].provider
      /\ r.target = job[w].target
      BY <1>1, <1>2 DEF Jobs
<1>5. job' = [job EXCEPT ![w] = r]
      BY <1>2 DEF BuildAuthorizationUrl, LoginInv, TypeOK
<1>6. r.browser \in Browsers /\ r.provider \in Providers /\ r.browser # None
      BY <1>1, <1>4, ConstantsAssumption DEF Remembers
<1>7. PICK g : g = [by |-> job[w].browser, provider |-> job[w].provider,
                    wanted |-> job[w].target]
      OBVIOUS
<1>8. /\ g \in Begun /\ g.by = r.browser /\ g.provider = r.provider /\ g.wanted = r.target
      /\ begun' = [begun EXCEPT ![l] = g]
      BY <1>3, <1>4, <1>6, <1>7 DEF Begun, Jobs, BuildAuthorizationUrl
<1>9. begun'[l] = g /\ \A k \in Logins \ {l} : begun'[k] = begun[k]
      BY <1>8 DEF LoginInv, TypeOK
<1>10. /\ accounts' = accounts /\ sessions' = sessions /\ clients' = clients
       /\ jar' = jar /\ landed' = landed /\ grant' = grant /\ harmed' = harmed
       BY DEF BuildAuthorizationUrl
<1>11. Kept
       BY <1>1, <1>9, <1>10 DEF Kept
<1>12. TypeOK'
       BY <1>3, <1>5, <1>8, <1>10 DEF LoginInv, TypeOK
<1>13. grant[l].stage = "none" /\ ~grant[l].used
       BY <1>1 DEF LoginInv, GrantsInOrder, TypeOK, Grants
<1>14. Remembers(r)'
       BY <1>3, <1>6, <1>8, <1>9, <1>10, <1>13 DEF Remembers, Exchanged
<1>15. \A u \in Workers \ {w} :
           job[u].pc = "redirecting" => grant'[job[u].login].stage = "none"
       BY <1>10 DEF LoginInv, JobsRemember, Remembers
<1>16. JobsRemember'
       BY <1>5, <1>10, <1>11, <1>14, <1>15, OthersRemember DEF LoginInv
<1>17. OneRequestEach'
  <2>1. \A u \in Workers : job[u].pc = "redirecting" => job[u].login # l
        BY <1>1 DEF LoginInv, JobsRemember, Remembers
  <2>2. job'[w] = r /\ \A u \in Workers \ {w} : job'[u] = job[u]
        BY <1>5 DEF LoginInv, TypeOK
  <2>3. r.pc \notin Exchanged
        BY <1>3 DEF Exchanged
  <2> QED
      BY <1>3, <2>1, <2>2, <2>3 DEF LoginInv, OneRequestEach
<1>18. GrantsInOrder'
       BY <1>6, <1>8, <1>9, <1>10 DEF LoginInv, GrantsInOrder
<1> QED
    BY <1>10, <1>11, <1>12, <1>16, <1>17, <1>18, OutcomesKept, JarsKept DEF LoginInv

LEMMA HeldLogins == ASSUME TypeOK, NEW b \in Browsers PROVE Held(b) \subseteq Logins
BY DEF TypeOK, Jar, Held, Temp

LEMMA RedirectKeeps ==
    ASSUME LoginInv, NEW w \in Workers, Redirect(w)
    PROVE  LoginInv'
<1>1. job[w] \in Jobs /\ Remembers(job[w]) /\ job[w].pc = "redirecting"
      BY DEF LoginInv, TypeOK, JobsRemember, Redirect
<1>2. PICK l \in Logins, b \in Browsers, t \in Allowed :
          /\ l = job[w].login /\ b = job[w].browser /\ t = job[w].target
          /\ begun[l].by = b /\ begun[l].wanted = t /\ grant[l].stage = "none"
      BY <1>1 DEF Remembers, Jobs
<1>3. PICK c : c = SetOidcTempCookies(jar[b], l, t)
      OBVIOUS
<1>4. c \in Jar /\ c.state = l /\ c.nonce = l /\ c.verifier = l /\ c.returnTo = t
      BY <1>3 DEF SetOidcTempCookies, Jar
<1>5. jar' = [jar EXCEPT ![b] = c]
      BY <1>2, <1>3 DEF Redirect, LoginInv, TypeOK
<1>6. PICK g : g = [grant[l] EXCEPT !.stage = "asked"]
      OBVIOUS
<1>7. /\ g \in Grants /\ g.stage = "asked" /\ g.used = grant[l].used
      /\ grant' = [grant EXCEPT ![l] = g]
      BY <1>2, <1>6 DEF Redirect, LoginInv, TypeOK, Grants
<1>8. grant'[l] = g /\ \A k \in Logins \ {l} : grant'[k] = grant[k]
      BY <1>7 DEF LoginInv, TypeOK
<1>9. ~grant[l].used
      BY <1>2 DEF LoginInv, GrantsInOrder
<1>10. /\ clients' = clients /\ accounts' = accounts /\ sessions' = sessions
       /\ landed' = landed /\ begun' = begun /\ job' = [job EXCEPT ![w] = Idle]
       BY DEF Redirect
<1>11. harmed' \subseteq Logins
       BY <1>2, HeldLogins DEF Redirect, LoginInv, TypeOK
<1>12. Kept
       BY <1>8, <1>9, <1>10 DEF Kept
<1>13. TypeOK'
       BY <1>4, <1>5, <1>7, <1>10, <1>11, IdleRemembers DEF LoginInv, TypeOK
<1>14. JarsOwn'
  <2> SUFFICES ASSUME NEW a \in Browsers
               PROVE  OwnCookies(jar[a], a)'
      BY DEF JarsOwn
  <2>1. CASE a = b
    <3>1. jar'[a] = c /\ begun'[l] = begun[l]
          BY <2>1, <1>5, <1>10 DEF LoginInv, TypeOK
    <3> QED
        BY <1>2, <1>4, <2>1, <3>1 DEF OwnCookies
  <2>2. CASE a # b
    <3>1. jar'[a] = jar[a]
          BY <2>2, <1>5 DEF LoginInv, TypeOK
    <3> QED
        BY <3>1, <1>12, CookiesKept DEF LoginInv, JarsOwn
  <2> QED
      BY <2>1, <2>2
<1>15. \A u \in Workers \ {w} :
           job[u].pc = "redirecting" => grant'[job[u].login].stage = "none"
  <2> SUFFICES ASSUME NEW u \in Workers \ {w}, job[u].pc = "redirecting"
               PROVE  grant'[job[u].login].stage = "none"
      OBVIOUS
  <2>1. job[u].login # l
        BY <1>1, <1>2 DEF LoginInv, OneRequestEach
  <2>2. job[u].login \in Logins /\ grant[job[u].login].stage = "none"
        BY DEF LoginInv, JobsRemember, Remembers
  <2> QED
      BY <1>8, <2>1, <2>2
<1>16. JobsRemember'
       BY <1>10, <1>12, <1>15, IdleRemembers, OthersRemember DEF LoginInv
<1>17. OneRequestEach'
  <2>1. \A u \in Workers : job'[u] = Idle \/ job'[u] = job[u]
        BY <1>10 DEF LoginInv, TypeOK
  <2> QED
      BY <2>1 DEF LoginInv, OneRequestEach, Idle, Exchanged
<1>18. GrantsInOrder'
  <2>1. begun[l].by # None
        BY <1>2, ConstantsAssumption
  <2> QED
      BY <1>7, <1>8, <1>9, <1>10, <2>1 DEF LoginInv, GrantsInOrder
<1> QED
    BY <1>10, <1>12, <1>13, <1>14, <1>16, <1>17, <1>18, OutcomesKept DEF LoginInv

LEMMA ExchangeKeeps ==
    ASSUME LoginInv, NEW w \in Workers, Exchange(w)
    PROVE  LoginInv'
<1>1. job[w] \in Jobs /\ Remembers(job[w]) /\ job[w].pc = "exchanging"
      BY DEF LoginInv, TypeOK, JobsRemember, Exchange, ExtractUserInfoFromClaims
<1>2. PICK l \in Logins : l = job[w].login
      BY <1>1 DEF Remembers
<1>3. /\ job[w].cookies.state = l /\ ~grant[l].used /\ grant[l].stage = "granted"
      /\ grant[l].subject \in Subjects
      BY <1>2 DEF Exchange, ExtractUserInfoFromClaims, StateMatches, LoginInv, GrantsInOrder
<1>4. begun[l].by = job[w].browser /\ begun[l].wanted = job[w].target
  <2>1. job[w].cookies # NoCookies
        BY <1>1, <1>2, <1>3, ConstantsAssumption DEF NoCookies
  <2>2. OwnCookies(job[w].cookies, job[w].browser) /\ job[w].target = job[w].cookies.returnTo
        BY <1>1 DEF Remembers
  <2> QED
      BY <1>3, <2>1, <2>2 DEF OwnCookies
<1>5. PICK r : r = [job[w] EXCEPT !.pc = "upserting", !.subject = grant[l].subject]
      OBVIOUS
<1>6. /\ r \in Jobs /\ r.pc = "upserting" /\ r.subject = grant[l].subject
      /\ r.browser = job[w].browser /\ r.provider = job[w].provider
      /\ r.login = l /\ r.target = job[w].target
      BY <1>1, <1>2, <1>3, <1>5 DEF Jobs
<1>7. job' = [job EXCEPT ![w] = r]
      BY <1>2, <1>5 DEF Exchange, ExtractUserInfoFromClaims, LoginInv, TypeOK
<1>8. PICK g : g = [grant[l] EXCEPT !.used = TRUE]
      OBVIOUS
<1>9. /\ g \in Grants /\ g.used /\ g.stage = "granted" /\ g.subject = grant[l].subject
      /\ grant' = [grant EXCEPT ![l] = g]
      BY <1>2, <1>3, <1>8 DEF Exchange, ExtractUserInfoFromClaims, LoginInv, TypeOK, Grants
<1>10. grant'[l] = g /\ \A k \in Logins \ {l} : grant'[k] = grant[k]
       BY <1>9 DEF LoginInv, TypeOK
<1>11. /\ clients' = clients /\ accounts' = accounts /\ sessions' = sessions
       /\ jar' = jar /\ landed' = landed /\ begun' = begun /\ harmed' = harmed
       BY DEF Exchange, ExtractUserInfoFromClaims
<1>12. Kept
       BY <1>3, <1>10, <1>11 DEF Kept
<1>13. TypeOK'
       BY <1>6, <1>7, <1>9, <1>11 DEF LoginInv, TypeOK
<1>14. \A s \in sessions : s.login # l
       BY <1>3 DEF LoginInv, SessionsUsed
<1>15. Remembers(r)'
  <2>1. r.browser \in Browsers /\ r.provider \in Providers
        BY <1>1, <1>6 DEF Remembers
  <2>2. begun[l].by # None /\ r.provider = begun[l].provider
        BY <1>1, <1>2, <1>6 DEF Remembers
  <2> QED
      BY <1>3, <1>4, <1>6, <1>9, <1>10, <1>11, <1>14, <2>1, <2>2 DEF Remembers, Exchanged
<1>16. \A u \in Workers \ {w} :
           job[u].pc = "redirecting" => grant'[job[u].login].stage = "none"
  <2> SUFFICES ASSUME NEW u \in Workers \ {w}, job[u].pc = "redirecting"
               PROVE  grant'[job[u].login].stage = "none"
      OBVIOUS
  <2>1. job[u].login \in Logins /\ grant[job[u].login].stage = "none"
        BY DEF LoginInv, JobsRemember, Remembers
  <2> QED
      BY <1>3, <1>10, <2>1
<1>17. JobsRemember'
       BY <1>7, <1>11, <1>12, <1>15, <1>16, OthersRemember DEF LoginInv
<1>18. OneRequestEach'
  <2>1. \A u \in Workers : job[u].pc \in Exchanged => job[u].login # l
        BY <1>3 DEF LoginInv, JobsRemember, Remembers
  <2>2. job'[w] = r /\ \A u \in Workers \ {w} : job'[u] = job[u]
        BY <1>7 DEF LoginInv, TypeOK
  <2> QED
      BY <1>6, <2>1, <2>2 DEF LoginInv, OneRequestEach
<1>19. GrantsInOrder'
       BY <1>3, <1>9, <1>10, <1>11 DEF LoginInv, GrantsInOrder
<1> QED
    BY <1>11, <1>12, <1>13, <1>17, <1>18, <1>19, OutcomesKept, JarsKept DEF LoginInv

LEMMA IssueKeeps ==
    ASSUME LoginInv, NEW w \in Workers, IssueAuthTokens(w)
    PROVE  LoginInv'
<1>1. job[w] \in Jobs /\ Remembers(job[w]) /\ job[w].pc = "issuing"
      BY DEF LoginInv, TypeOK, JobsRemember, IssueAuthTokens
<1>2. PICK x : x = [login |-> job[w].login, browser |-> job[w].browser,
                    subject |-> job[w].subject]
      OBVIOUS
<1>3. /\ x \in Session /\ x.login = job[w].login /\ x.browser = begun[x.login].by
      /\ x.subject = grant[x.login].subject /\ grant[x.login].used
      /\ <<begun[x.login].provider, x.subject>> \in accounts
      BY <1>1, <1>2 DEF Remembers, Session, Exchanged
<1>4. /\ sessions' = sessions \cup {x}
      /\ clients' = clients /\ accounts' = accounts /\ harmed' = harmed
      /\ jar' = jar /\ landed' = landed /\ begun' = begun /\ grant' = grant
      BY <1>2 DEF IssueAuthTokens, outside
<1>5. \A s \in sessions : s.login # x.login
      BY <1>1, <1>3 DEF Remembers
<1>6. PICK r : r = [job[w] EXCEPT !.pc = "landing"]
      OBVIOUS
<1>7. /\ r \in Jobs /\ r.pc = "landing" /\ r.subject = job[w].subject
      /\ r.browser = job[w].browser /\ r.provider = job[w].provider
      /\ r.login = x.login /\ r.target = job[w].target
      BY <1>1, <1>3, <1>6 DEF Jobs
<1>8. job' = [job EXCEPT ![w] = r]
      BY <1>6 DEF IssueAuthTokens, LoginInv, TypeOK
<1>9. Kept
      BY <1>4 DEF Kept
<1>10. TypeOK'
       BY <1>3, <1>4, <1>7, <1>8 DEF LoginInv, TypeOK
<1>11. Remembers(r)'
       BY <1>1, <1>3, <1>4, <1>7 DEF Remembers, Exchanged
<1>12. \A u \in Workers \ {w} : job[u].pc \in Exchanged => job[u].login # x.login
       BY <1>1, <1>3 DEF LoginInv, OneRequestEach, Exchanged
<1>13. JobsRemember'
  <2> SUFFICES ASSUME NEW u \in Workers
               PROVE  Remembers(job[u])'
      BY DEF JobsRemember
  <2>1. CASE u = w
        BY <1>8, <1>11, <2>1 DEF LoginInv, TypeOK
  <2>2. CASE u # w
    <3>1. job'[u] = job[u] /\ job[u] \in Jobs /\ Remembers(job[u])
          BY <2>2, <1>8 DEF LoginInv, TypeOK, JobsRemember
    <3>2. PICK j \in Jobs : j = job[u]
          BY <3>1
    <3>3. Remembers(j)
          BY <3>1, <3>2
    <3>4. j.pc \in Exchanged => j.login # x.login
          BY <1>12, <2>2, <3>2
    <3>5. Remembers(j)'
      <4>1. j.pc \in {"upserting", "issuing"} => \A s \in sessions' : s.login # j.login
            BY <1>4, <3>3, <3>4 DEF Remembers, Exchanged
      <4>2. j.pc = "landing" => \E s \in sessions' : s.login = j.login
            BY <1>4, <3>3 DEF Remembers
      <4>3. OwnCookies(j.cookies, j.browser)' <=> OwnCookies(j.cookies, j.browser)
            BY <1>4 DEF OwnCookies
      <4> QED
          BY <1>4, <3>3, <4>1, <4>2, <4>3 DEF Remembers
    <3> QED
        BY <3>1, <3>2, <3>5
  <2> QED
      BY <2>1, <2>2
<1>14. OneRequestEach'
  <2>1. job'[w] = r /\ \A u \in Workers \ {w} : job'[u] = job[u]
        BY <1>8 DEF LoginInv, TypeOK
  <2> QED
      BY <1>7, <1>12, <2>1 DEF LoginInv, OneRequestEach, Exchanged
<1>15. GrantsInOrder' /\ SessionsUsed' /\ LandsWhereStarted'
       BY <1>3, <1>4 DEF LoginInv, GrantsInOrder, SessionsUsed, LandsWhereStarted
<1>16. OwnLoginOnly'
       BY <1>3, <1>4, <1>5 DEF LoginInv, OwnLoginOnly
<1> QED
    BY <1>4, <1>9, <1>10, <1>13, <1>14, <1>15, <1>16, JarsKept DEF LoginInv

(* A step that only ends requests and empties jars.                        *)
LEMMA EndingKeeps ==
    ASSUME LoginInv, job' \in [Workers -> Jobs],
           \A u \in Workers : job'[u] = Idle \/ job'[u] = job[u],
           jar' \in [Browsers -> Jar],
           \A b \in Browsers : jar'[b] = NoCookies \/ jar'[b] = jar[b],
           clients' \subseteq Providers, accounts' = accounts, sessions' = sessions,
           begun' = begun, grant' = grant, harmed' \subseteq Logins, landed' \subseteq Landing
    PROVE  /\ TypeOK' /\ JarsOwn' /\ JobsRemember' /\ OneRequestEach' /\ GrantsInOrder'
           /\ SessionsUsed' /\ OwnLoginOnly'
<1>1. Kept
      BY DEF Kept
<1>2. TypeOK'
      BY DEF LoginInv, TypeOK
<1>3. JarsOwn'
  <2> SUFFICES ASSUME NEW b \in Browsers
               PROVE  OwnCookies(jar[b], b)'
      BY DEF JarsOwn
  <2> QED
      BY DEF LoginInv, JarsOwn, OwnCookies
<1>4. JobsRemember'
  <2> SUFFICES ASSUME NEW u \in Workers
               PROVE  Remembers(job[u])'
      BY DEF JobsRemember
  <2>1. CASE job'[u] = Idle
        BY <2>1, IdleRemembers
  <2>2. CASE job'[u] = job[u]
    <3>1. job[u] \in Jobs /\ Remembers(job[u])
          BY DEF LoginInv, TypeOK, JobsRemember
    <3>2. job[u].pc = "redirecting" => grant'[job[u].login].stage = "none"
          BY <3>1 DEF Remembers
    <3> QED
        BY <1>1, <2>2, <3>1, <3>2, StillRemembers DEF LoginInv
  <2> QED
      BY <2>1, <2>2
<1>5. OneRequestEach'
      BY DEF LoginInv, OneRequestEach, Idle, Exchanged
<1>6. GrantsInOrder' /\ SessionsUsed' /\ OwnLoginOnly'
      BY DEF LoginInv, GrantsInOrder, SessionsUsed, OwnLoginOnly
<1> QED
    BY <1>2, <1>3, <1>4, <1>5, <1>6

LEMMA NoCookiesJar == NoCookies \in Jar
BY DEF NoCookies, Jar

LEMMA LandKeeps ==
    ASSUME LoginInv, NEW w \in Workers, Land(w)
    PROVE  LoginInv'
<1>1. job[w] \in Jobs /\ Remembers(job[w]) /\ job[w].pc = "landing"
      BY DEF LoginInv, TypeOK, JobsRemember, Land
<1>2. PICK x : x = [login |-> job[w].login, browser |-> job[w].browser, to |-> job[w].target]
      OBVIOUS
<1>3. /\ x \in Landing /\ begun[x.login].by = x.browser /\ x.to = begun[x.login].wanted
      /\ \E s \in sessions : s.login = x.login
      BY <1>1, <1>2 DEF Remembers, Landing, Jobs, Exchanged
<1>4. /\ landed' = landed \cup {x} /\ job' = [job EXCEPT ![w] = Idle]
      /\ jar' = [jar EXCEPT ![job[w].browser] = NoCookies]
      /\ clients' = clients /\ accounts' = accounts /\ sessions' = sessions
      /\ begun' = begun /\ grant' = grant
      BY <1>2 DEF Land
<1>5. harmed' \subseteq Logins
      BY <1>1, HeldLogins DEF Land, LoginInv, TypeOK, Remembers
<1>6. LandsWhereStarted'
      BY <1>3, <1>4 DEF LoginInv, LandsWhereStarted
<1>7. /\ job' \in [Workers -> Jobs] /\ jar' \in [Browsers -> Jar]
      /\ \A u \in Workers : job'[u] = Idle \/ job'[u] = job[u]
      /\ \A b \in Browsers : jar'[b] = NoCookies \/ jar'[b] = jar[b]
      BY <1>4, IdleRemembers, NoCookiesJar DEF LoginInv, TypeOK
<1>8. clients' \subseteq Providers /\ landed' \subseteq Landing
      BY <1>3, <1>4 DEF LoginInv, TypeOK
<1> QED
    BY <1>4, <1>5, <1>6, <1>7, <1>8, EndingKeeps DEF LoginInv

LEMMA ForgetKeeps ==
    ASSUME LoginInv, NEW b \in Browsers, Forget(b)
    PROVE  LoginInv'
<1>1. harmed' \subseteq Logins
      BY HeldLogins DEF Forget, LoginInv, TypeOK
<1>2. /\ job' = job /\ landed' = landed /\ clients' = clients /\ accounts' = accounts
      /\ sessions' = sessions /\ begun' = begun /\ grant' = grant
      /\ jar' = [jar EXCEPT ![b] = NoCookies]
      BY DEF Forget, server
<1>3. /\ job' \in [Workers -> Jobs] /\ jar' \in [Browsers -> Jar]
      /\ \A a \in Browsers : jar'[a] = NoCookies \/ jar'[a] = jar[a]
      /\ clients' \subseteq Providers /\ landed' \subseteq Landing
      BY <1>2, NoCookiesJar DEF LoginInv, TypeOK
<1>4. LandsWhereStarted'
      BY <1>2 DEF LoginInv, LandsWhereStarted
<1> QED
    BY <1>1, <1>2, <1>3, <1>4, EndingKeeps DEF LoginInv

LEMMA RestartKeeps ==
    ASSUME LoginInv, Restart
    PROVE  LoginInv'
<1>1. LoginsOf(Workers) \subseteq Logins
      BY DEF LoginInv, TypeOK, Jobs, LoginsOf
<1>2. /\ job' = [w \in Workers |-> Idle] /\ landed' = landed /\ clients' = {}
      /\ accounts' = accounts /\ jar' = jar
      /\ sessions' = sessions /\ begun' = begun /\ grant' = grant
      BY DEF Restart
<1>3. /\ job' \in [Workers -> Jobs] /\ jar' \in [Browsers -> Jar]
      /\ harmed' \subseteq Logins /\ landed' \subseteq Landing
      BY <1>1, <1>2, IdleRemembers DEF LoginInv, TypeOK, Restart
<1>4. LandsWhereStarted'
      BY <1>2 DEF LoginInv, LandsWhereStarted
<1> QED
    BY <1>2, <1>3, <1>4, EndingKeeps DEF LoginInv

LEMMA StepKeeps == LoginInv /\ [Next]_vars => LoginInv'
<1> SUFFICES ASSUME LoginInv, [Next]_vars
             PROVE  LoginInv'
    OBVIOUS
<1>1. ASSUME NEW w \in Workers, Progress(w) PROVE LoginInv'
      BY <1>1, DiscoverKeeps, BuildKeeps, RedirectKeeps, ExchangeKeeps,
         ExchangeRefusedKeeps, UpsertAccountKeeps, IssueKeeps, LandKeeps DEF Progress
<1>2. ASSUME NEW w \in Workers, Fail(w) PROVE LoginInv'
      BY <1>2, FailKeeps
<1>3. ASSUME NEW w \in Workers, NEW b \in Browsers, NEW p \in Providers, NEW raw \in Targets,
             Start(w, b, p, raw)
      PROVE  LoginInv'
      BY <1>3, StartKeeps
<1>4. ASSUME NEW w \in Workers, NEW b \in Browsers, NEW l \in Logins, Callback(w, b, l)
      PROVE  LoginInv'
      BY <1>4, CallbackKeeps
<1>5. ASSUME NEW l \in Logins, Decline(l) \/ \E s \in Subjects : Grant(l, s)
      PROVE  LoginInv'
      BY <1>5, DeclineKeeps, GrantKeeps
<1>6. ASSUME NEW b \in Browsers, Forget(b) PROVE LoginInv'
      BY <1>6, ForgetKeeps
<1>7. CASE Restart
      BY <1>7, RestartKeeps
<1>8. CASE UNCHANGED vars
  <2>1. /\ job' \in [Workers -> Jobs] /\ jar' \in [Browsers -> Jar]
        /\ harmed' \subseteq Logins /\ landed' \subseteq Landing /\ clients' \subseteq Providers
        BY <1>8 DEF vars, server, outside, LoginInv, TypeOK
  <2>2. /\ job' = job /\ landed' = landed /\ accounts' = accounts /\ jar' = jar
        /\ sessions' = sessions /\ begun' = begun /\ grant' = grant
        BY <1>8 DEF vars, server, outside
  <2>3. LandsWhereStarted'
        BY <2>2 DEF LoginInv, LandsWhereStarted
  <2> QED
      BY <2>1, <2>2, <2>3, EndingKeeps DEF LoginInv
<1> QED
    BY <1>1, <1>2, <1>3, <1>4, <1>5, <1>6, <1>7, <1>8 DEF Next

-----------------------------------------------------------------------------
(* Cookies, redirects and requests are each of one login in every          *)
(* reachable state of OidcLogin.                                           *)
THEOREM LoginInvariant == Spec => []LoginInv
BY InitHolds, StepKeeps, PTL DEF Spec

(* Nobody is ever sent, and no cookie ever holds a target, outside the     *)
(* allowed prefixes (normalizeReturnTo), and requests have their types.    *)
THEOREM LoginTypeCorrect == Spec => []TypeOK
BY LoginInvariant, PTL DEF LoginInv

(* handleOidcCallback gives sessions only to the browser whose start it    *)
(* answers, for the person the provider vouched for in that login, once.   *)
THEOREM SessionsOfOwnLogins == Spec => []OwnLoginOnly
BY LoginInvariant, PTL DEF LoginInv

(* The redirect at the end of handleOidcCallback goes where the start of   *)
(* the same login asked, whatever other tabs did to the cookies.           *)
THEOREM LandingsAsAsked == Spec => []LandsWhereStarted
BY LoginInvariant, PTL DEF LoginInv

-----------------------------------------------------------------------------
(* RefreshSessions *)

(* A fresh database and no request in flight satisfy the invariant. *)
LEMMA InitSessionInv == SessionsInit => SessionInv
<1> SUFFICES ASSUME SessionsInit PROVE SessionInv
    OBVIOUS
<1> USE SessionConstants DEF SessionsInit, NoRequest
<1>1. SessionsTypeOK
      BY DEF SessionsTypeOK, Requests, Pcs, Users
<1>2. RotationLinks
      BY DEF RotationLinks
<1>3. RequestsRemember
      BY DEF RequestsRemember
<1>4. OwnersKnown
      BY DEF OwnersKnown
<1> QED
    BY <1>1, <1>2, <1>3, <1>4 DEF SessionInv

(* A request that starts by reading, and remembers the truth about the     *)
(* session it found, keeps the invariant.                                  *)
LEMMA StartKeepsInv ==
    ASSUME NEW w \in Handlers, NEW pc \in Pcs, NEW a \in Accounts,
           NEW s \in Ids \cup {Null}, NEW v \in Nat, NEW via \in {"user", "seller"},
           SessionInv,
           StartRequest(w, pc, a, s, v, via),
           UNCHANGED <<tables, accountRows, atClients>>,
           pc \in {"rotating", "loggingOut", "responding"} =>
               s \in issued /\ owner[s] = a /\ cred[s] = v,
           pc \in {"changing", "hashed"} => a \in Sellers,
           pc = "withdrawing" => a \in Users
    PROVE  SessionInv'
<1> USE DEF SessionInv, tables, accountRows, atClients
<1>1. SessionsTypeOK'
      BY DEF SessionsTypeOK, StartRequest, Requests
<1>2. RotationLinks'
      BY DEF RotationLinks
<1>3. RequestsRemember'
      BY DEF RequestsRemember, StartRequest, SessionsTypeOK
<1>4. OwnersKnown'
      BY DEF OwnersKnown
<1> QED
    BY <1>1, <1>2, <1>3, <1>4

(* A request that ends leaves the others what they remember, if the rows   *)
(* it wrote keep their owner and their password.                           *)
LEMMA EndKeepsRequests ==
    ASSUME NEW w \in Handlers, SessionInv,
           request' = [request EXCEPT ![w] = NoRequest],
           UNCHANGED <<issued, owner, cred>>
    PROVE  RequestsRemember'
BY DEF SessionInv, SessionsTypeOK, RequestsRemember, NoRequest

(* A new row for the account of request w, which w then answers with,      *)
(* leaves every request's memory true.                                     *)
LEMMA CreateKeepsRequests ==
    ASSUME NEW w \in Handlers, NEW n \in Ids, NEW from \in Ids \cup {Null}, NEW v \in Nat,
           SessionInv,
           request[w] # NoRequest, v = request[w].ver,
           CreateRow(n, request[w].acct, v, from),
           Goto(w, "responding", n)
    PROVE  RequestsRemember' /\ OwnersKnown'
<1> USE DEF SessionInv, SessionsTypeOK
<1>1. request' = [request EXCEPT ![w] = [pc |-> "responding", acct |-> request[w].acct, sess |-> n,
                                 ver |-> request[w].ver, via |-> request[w].via]]
      BY DEF Goto
<1>2. request[w].acct \in Accounts
      BY DEF RequestsRemember
<1>3. RequestsRemember'
  <2> SUFFICES ASSUME NEW x \in Handlers
               PROVE  (request[x] # NoRequest => request[x].acct \in Accounts)' 
                      /\ (request[x].pc \in {"rotating", "loggingOut", "responding"} =>
                            /\ request[x].sess \in issued
                            /\ owner[request[x].sess] = request[x].acct
                            /\ cred[request[x].sess] = request[x].ver)'
                      /\ (request[x].pc \in {"changing", "hashed"} => request[x].acct \in Sellers)'
                      /\ (request[x].pc = "withdrawing" => request[x].acct \in Users)'
      BY DEF RequestsRemember
  <2>1. CASE x = w
        BY <2>1, <1>1, <1>2 DEF CreateRow
  <2>2. CASE x # w
        BY <2>2, <1>1 DEF CreateRow, RequestsRemember
  <2> QED
      BY <2>1, <2>2
<1>4. OwnersKnown'
      BY <1>2 DEF OwnersKnown, CreateRow
<1> QED
    BY <1>3, <1>4

(* issueAuthTokens and rotateRefreshSession insert one row and keep the    *)
(* invariant; the rotation also revokes and links the row it found.        *)
LEMMA NewRowKeepsInv ==
    ASSUME NEW w \in Handlers, NEW n \in Ids, SessionInv,
           IssueTokens(w, n) \/ RotateTx(w, n)
    PROVE  SessionInv'
<1> USE DEF SessionInv
<1>a. request[w] # NoRequest /\ request[w].acct \in Accounts /\ request[w].ver \in Nat
      BY DEF RequestsRemember, IssueTokens, RotateTx, NoRequest, SessionsTypeOK, Requests
<1>1. CASE IssueTokens(w, n)
  <2> USE DEF IssueTokens, CreateRow, accountRows, atClients
  <2>1. SessionsTypeOK'
        BY <1>1, <1>a DEF SessionsTypeOK, Goto, Requests, Pcs
  <2>2. RotationLinks'
        BY <1>1, SessionConstants DEF RotationLinks, SessionsTypeOK
  <2>3. RequestsRemember' /\ OwnersKnown'
    <3>1. PICK v \in Nat : v = request[w].ver
          BY <1>a
    <3> QED
        BY <1>1, <1>a, <3>1, CreateKeepsRequests
  <2> QED
      BY <2>1, <2>2, <2>3
<1>2. CASE RotateTx(w, n)
  <2> USE DEF RotateTx, CreateRow, RotatedRows, accountRows, atClients
  <2>1. PICK s \in Ids : s = request[w].sess /\ s \in issued
        BY <1>2 DEF RequestsRemember, SessionsTypeOK
  <2>2. owner[s] = request[w].acct /\ cred[s] = request[w].ver
        BY <1>2, <2>1 DEF RequestsRemember
  <2>3. SessionsTypeOK'
        BY <1>2, <1>a, <2>1 DEF SessionsTypeOK, Goto, Requests, Pcs
  <2>4. RotationLinks'
        BY <1>2, <2>1, <2>2, SessionConstants DEF RotationLinks, SessionsTypeOK
  <2>5. RequestsRemember' /\ OwnersKnown'
    <3>1. PICK v \in Nat : v = request[w].ver
          BY <1>a
    <3> QED
        BY <1>2, <1>a, <2>1, <2>2, <3>1, CreateKeepsRequests
  <2> QED
      BY <2>3, <2>4, <2>5
<1> QED
    BY <1>1, <1>2

(* Every step keeps the invariant. *)
LEMMA NextSessionInv == SessionInv /\ [SessionsNext]_sessionVars => SessionInv'
<1> SUFFICES ASSUME SessionInv, [SessionsNext]_sessionVars PROVE SessionInv'
    OBVIOUS
<1> USE DEF SessionInv
<1>u. UNCHANGED sessionVars => SessionInv'
      BY DEF SessionsTypeOK, RotationLinks, RequestsRemember, OwnersKnown, sessionVars, tables, accountRows, atClients
<1>e. ASSUME NEW s \in Ids, Expire(s) PROVE SessionInv'
      BY <1>e DEF Expire, SessionsTypeOK, RotationLinks, RequestsRemember, OwnersKnown,
                  accountRows, atClients
<1>h. ASSUME NEW w \in Handlers, Handle(w) PROVE SessionInv'
  <2>1. ASSUME NEW a \in Accounts, SellerLogin(w, a) \/ VerifyPassword(w, a)
        PROVE  SessionInv'
    <3>1. PICK v \in Nat : v = version[a]
          BY DEF SessionsTypeOK
    <3>2. \E pc \in {"loggingIn", "changing"} : StartRequest(w, pc, a, Null, v, "seller")
          BY <2>1, <3>1 DEF SellerLogin, VerifyPassword
    <3>3. a \in Sellers /\ UNCHANGED <<tables, accountRows, atClients>>
          BY <2>1 DEF SellerLogin, VerifyPassword
    <3> QED
        BY <3>2, <3>3, StartKeepsInv DEF Pcs
  <2>2. ASSUME NEW a \in Accounts, OidcLogin(w, a) \/ AskWithdrawal(w, a)
        PROVE  SessionInv'
    <3>1. PICK v \in Nat : v = version[a]
          BY DEF SessionsTypeOK
    <3>2. \E pc \in {"loggingIn", "withdrawing"} : StartRequest(w, pc, a, Null, v, "user")
          BY <2>2, <3>1 DEF OidcLogin, AskWithdrawal
    <3>3. a \in Users /\ UNCHANGED <<tables, accountRows, atClients>>
          BY <2>2 DEF OidcLogin, AskWithdrawal
    <3> QED
        BY <3>2, <3>3, StartKeepsInv DEF Pcs
  <2>3. ASSUME NEW s \in Ids, NEW via \in {"user", "seller"},
               FindForRotation(w, s, via) \/ FindForLogout(w, s, via)
        PROVE  SessionInv'
    <3>1. s \in issued
          BY <2>3 DEF FindForRotation, FindForLogout, Active
    <3>2. PICK a \in Accounts, v \in Nat : a = owner[s] /\ v = cred[s]
          BY <3>1 DEF OwnersKnown, SessionsTypeOK
    <3>3. \E pc \in {"rotating", "loggingOut"} : StartRequest(w, pc, a, s, v, via)
          BY <2>3, <3>2 DEF FindForRotation, FindForLogout
    <3>4. UNCHANGED <<tables, accountRows, atClients>>
          BY <2>3 DEF FindForRotation, FindForLogout
    <3> QED
        BY <3>1, <3>2, <3>3, <3>4, StartKeepsInv DEF Pcs
  <2>4. ASSUME NEW n \in Ids, IssueTokens(w, n) \/ RotateTx(w, n)
        PROVE  SessionInv'
        BY <2>4, NewRowKeepsInv
  <2>5. CASE Respond(w)
    <3> USE DEF Respond, tables, accountRows
    <3>1. SessionsTypeOK'
          BY <2>5 DEF SessionsTypeOK, Requests, Pcs, NoRequest, RequestsRemember
    <3>2. RotationLinks' /\ OwnersKnown'
          BY <2>5 DEF RotationLinks, OwnersKnown
    <3>3. RequestsRemember'
          BY <2>5, EndKeepsRequests
    <3> QED
        BY <3>1, <3>2, <3>3
  <2>6. CASE Revoke(w)
    <3> USE DEF Revoke, accountRows, atClients
    <3>1. SessionsTypeOK'
          BY <2>6 DEF SessionsTypeOK, Requests, Pcs, NoRequest, RequestsRemember
    <3>2. RotationLinks' /\ OwnersKnown'
          BY <2>6 DEF RotationLinks, OwnersKnown
    <3>3. RequestsRemember'
          BY <2>6, EndKeepsRequests
    <3> QED
        BY <3>1, <3>2, <3>3
  <2>7. CASE UpdateHash(w)
    <3> USE DEF UpdateHash, tables, atClients
    <3>0. request[w].acct \in Accounts /\ version[request[w].acct] \in Nat /\ request[w] \in Requests
          BY <2>7, SessionConstants DEF RequestsRemember, SessionsTypeOK
    <3>1. SessionsTypeOK'
      <4>1. version' \in [Accounts -> Nat]
            BY <2>7, <3>0 DEF SessionsTypeOK
      <4>2. request' \in [Handlers -> Requests]
            BY <2>7, <3>0 DEF SessionsTypeOK, Requests, Pcs
      <4> QED
          BY <2>7, <4>1, <4>2 DEF SessionsTypeOK, accountRows
    <3>2. RotationLinks' /\ OwnersKnown'
          BY <2>7 DEF RotationLinks, OwnersKnown
    <3>3. RequestsRemember'
          BY <2>7 DEF RequestsRemember, SessionsTypeOK, Requests, NoRequest
    <3> QED
        BY <3>1, <3>2, <3>3
  <2>8. CASE RevokeAll(w)
    <3> USE DEF RevokeAll, SessionsOf, atClients
    <3>1. SessionsTypeOK'
          BY <2>8 DEF SessionsTypeOK, Requests, Pcs, NoRequest, RequestsRemember
    <3>2. RotationLinks' /\ OwnersKnown'
          BY <2>8 DEF RotationLinks, OwnersKnown
    <3>3. RequestsRemember'
          BY <2>8, EndKeepsRequests
    <3> QED
        BY <3>1, <3>2, <3>3
  <2>9. CASE WithdrawTx(w)
    <3> USE DEF WithdrawTx, SessionsOf, atClients
    <3>1. SessionsTypeOK'
          BY <2>9 DEF SessionsTypeOK, Requests, Pcs, NoRequest, RequestsRemember
    <3>2. RotationLinks' /\ OwnersKnown'
          BY <2>9 DEF RotationLinks, OwnersKnown
    <3>3. RequestsRemember'
          BY <2>9, EndKeepsRequests
    <3> QED
        BY <3>1, <3>2, <3>3
  <2>10. CASE RequestDies(w)
    <3> USE DEF RequestDies, tables, accountRows, atClients
    <3>1. SessionsTypeOK'
          BY <2>10 DEF SessionsTypeOK, Requests, Pcs, NoRequest
    <3>2. RotationLinks' /\ OwnersKnown'
          BY <2>10 DEF RotationLinks, OwnersKnown
    <3>3. RequestsRemember'
          BY <2>10, EndKeepsRequests
    <3> QED
        BY <3>1, <3>2, <3>3
  <2> QED
      BY <1>h, <2>1, <2>2, <2>3, <2>4, <2>5, <2>6, <2>7, <2>8, <2>9, <2>10 DEF Handle
<1> QED
    BY <1>u, <1>e, <1>h DEF SessionsNext

(* The inductive invariant holds in every reachable state of               *)
(* RefreshSessions.                                                        *)
THEOREM SessionInvHolds == SessionsSpec => []SessionInv
BY InitSessionInv, NextSessionInv, PTL DEF SessionsSpec

(* Every session row and every request in flight has its type.             *)
THEOREM SessionTypeCorrect == SessionsSpec => []SessionsTypeOK
<1>1. SessionInv => SessionsTypeOK
      BY DEF SessionInv
<1> QED
    BY SessionInvHolds, <1>1, PTL

(* rotateRefreshSession, however its rotations race, revokes and links the *)
(* row it found, and the new row has that row's account and password.      *)
THEOREM RotationLinksHold == SessionsSpec => []RotationLinks
<1>1. SessionInv => RotationLinks
      BY DEF SessionInv
<1> QED
    BY SessionInvHolds, <1>1, PTL

-----------------------------------------------------------------------------
(* A step cannot give a withdrawn account with nothing left a session or a *)
(* request.                                                                *)
LEMMA GoneStays ==
    ASSUME NEW a \in Users, SessionInv, [SessionsNext]_sessionVars, Gone(a)
    PROVE  Gone(a)'
<1> USE DEF SessionInv, Gone
<1>u. CASE UNCHANGED sessionVars
      BY <1>u DEF Active, sessionVars, tables, accountRows
<1>e. ASSUME NEW s \in Ids, Expire(s) PROVE Gone(a)'
      BY <1>e DEF Expire, Active, accountRows
<1>h. ASSUME NEW w \in Handlers, Handle(w) PROVE Gone(a)'
  <2>a. request \in [Handlers -> Requests] /\ Null # a
        BY SessionConstants DEF SessionsTypeOK, Users
  <2>1. ASSUME NEW b \in Accounts,
               SellerLogin(w, b) \/ OidcLogin(w, b) \/ VerifyPassword(w, b) \/ AskWithdrawal(w, b)
        PROVE  Gone(a)'
    <3>1. a # b
          BY <2>1 DEF SellerLogin, OidcLogin, VerifyPassword, AskWithdrawal, Authenticates, Users
    <3>2. /\ UNCHANGED <<tables, accountRows, atClients>>
          /\ \E pc \in Pcs : \E v, via : StartRequest(w, pc, b, Null, v, via)
          BY <2>1 DEF SellerLogin, OidcLogin, VerifyPassword, AskWithdrawal, Pcs
    <3> QED
        BY <2>a, <3>1, <3>2 DEF StartRequest, Active, tables, accountRows
  <2>2. ASSUME NEW s \in Ids, NEW via \in {"user", "seller"},
               FindForRotation(w, s, via) \/ FindForLogout(w, s, via)
        PROVE  Gone(a)'
    <3>1. PICK b : b = owner[s]
          OBVIOUS
    <3>2. a # b
          BY <2>2, <3>1 DEF FindForRotation, FindForLogout
    <3>3. /\ UNCHANGED <<tables, accountRows, atClients>>
          /\ \E pc \in Pcs : \E v : StartRequest(w, pc, b, s, v, via)
          BY <2>2, <3>1 DEF FindForRotation, FindForLogout, Pcs
    <3> QED
        BY <2>a, <3>2, <3>3 DEF StartRequest, Active, tables, accountRows
  <2>3. ASSUME NEW n \in Ids, IssueTokens(w, n) \/ RotateTx(w, n)
        PROVE  Gone(a)'
    <3>1. /\ issued' = issued \cup {n}
          /\ owner' = [owner EXCEPT ![n] = request[w].acct]
          /\ revoked \subseteq revoked'
          /\ UNCHANGED <<removed, expired, accountRows>>
          BY <2>3 DEF IssueTokens, RotateTx, CreateRow
    <3>2. \A x \in Handlers : request'[x].acct = request[x].acct
          BY <2>3, <2>a DEF IssueTokens, RotateTx, Goto
    <3> QED
        BY <3>1, <3>2 DEF Active, SessionsTypeOK, accountRows
  <2>4. CASE Respond(w) \/ RequestDies(w)
        BY <2>4, <2>a DEF Respond, RequestDies, NoRequest, Active, tables, accountRows
  <2>5. CASE Revoke(w)
        BY <2>5, <2>a DEF Revoke, NoRequest, Active, accountRows
  <2>6. CASE UpdateHash(w)
        BY <2>6, <2>a DEF UpdateHash, Active, tables
  <2>7. CASE RevokeAll(w)
        BY <2>7, <2>a DEF RevokeAll, NoRequest, Active
  <2>8. CASE WithdrawTx(w)
        BY <2>8, <2>a DEF WithdrawTx, NoRequest, Active
  <2> QED
      BY <1>h, <2>1, <2>2, <2>3, <2>4, <2>5, <2>6, <2>7, <2>8 DEF Handle
<1> QED
    BY <1>u, <1>e, <1>h DEF SessionsNext

(* Once a withdrawn account has no request in flight and no session, none  *)
(* of the handlers, started with any token, brings one back.               *)
THEOREM WithdrawnAccountsStayOut == SessionsSpec => WithdrawnStaysOut
<1>1. SessionInv /\ [SessionsNext]_sessionVars => [\A a \in Users : Gone(a) => Gone(a)']_sessionVars
      BY GoneStays
<1> QED
    BY SessionInvHolds, <1>1, PTL DEF SessionsSpec, WithdrawnStaysOut

-----------------------------------------------------------------------------
(* A request that starts on a's behalf starts from the current password, if *)
(* everything before did.                                                  *)
LEMMA CurrentOnlyStays ==
    ASSUME NEW a \in Accounts, SessionInv, [SessionsNext]_sessionVars,
           OnlyCurrentPassword(a), version'[a] = version[a]
    PROVE  OnlyCurrentPassword(a)'
<1> USE DEF SessionInv, OnlyCurrentPassword
<1>u. CASE UNCHANGED sessionVars
      BY <1>u DEF Active, sessionVars, tables, accountRows
<1>e. ASSUME NEW s \in Ids, Expire(s) PROVE OnlyCurrentPassword(a)'
      BY <1>e DEF Expire, Active, accountRows
<1>h. ASSUME NEW w \in Handlers, Handle(w) PROVE OnlyCurrentPassword(a)'
  <2>a. request \in [Handlers -> Requests] /\ Null # a
        BY SessionConstants DEF SessionsTypeOK
  <2>1. ASSUME NEW b \in Accounts,
               SellerLogin(w, b) \/ OidcLogin(w, b) \/ VerifyPassword(w, b) \/ AskWithdrawal(w, b)
        PROVE  OnlyCurrentPassword(a)'
    <3>1. PICK v : v = version[b]
          OBVIOUS
    <3>2. /\ UNCHANGED <<tables, accountRows, atClients>>
          /\ \E pc \in Pcs : \E via : StartRequest(w, pc, b, Null, v, via)
          BY <2>1, <3>1 DEF SellerLogin, OidcLogin, VerifyPassword, AskWithdrawal, Pcs
    <3> QED
        BY <2>a, <3>1, <3>2 DEF StartRequest, Active, tables, accountRows
  <2>2. ASSUME NEW s \in Ids, NEW via \in {"user", "seller"},
               FindForRotation(w, s, via) \/ FindForLogout(w, s, via)
        PROVE  OnlyCurrentPassword(a)'
    <3>1. PICK b, v : b = owner[s] /\ v = cred[s]
          OBVIOUS
    <3>2. b = a => v = version[a]
          BY <2>2, <3>1 DEF FindForRotation, FindForLogout
    <3>3. /\ UNCHANGED <<tables, accountRows, atClients>>
          /\ \E pc \in Pcs : StartRequest(w, pc, b, s, v, via)
          BY <2>2, <3>1 DEF FindForRotation, FindForLogout, Pcs
    <3> QED
        BY <2>a, <3>2, <3>3 DEF StartRequest, Active, tables, accountRows
  <2>3. ASSUME NEW n \in Ids, IssueTokens(w, n) \/ RotateTx(w, n)
        PROVE  OnlyCurrentPassword(a)'
    <3>1. /\ n \notin issued
          /\ issued' = issued \cup {n}
          /\ owner' = [owner EXCEPT ![n] = request[w].acct]
          /\ cred' = [cred EXCEPT ![n] = request[w].ver]
          /\ revoked \subseteq revoked'
          /\ UNCHANGED <<removed, expired, accountRows>>
          BY <2>3 DEF IssueTokens, RotateTx, CreateRow, RequestsRemember
    <3>2. \A x \in Handlers : request'[x].acct = request[x].acct /\ request'[x].ver = request[x].ver
          BY <2>3, <2>a DEF IssueTokens, RotateTx, Goto
    <3> QED
        BY <3>1, <3>2 DEF Active, SessionsTypeOK, accountRows
  <2>4. CASE Respond(w) \/ RequestDies(w)
        BY <2>4, <2>a DEF Respond, RequestDies, NoRequest, Active, tables, accountRows
  <2>5. CASE Revoke(w)
        BY <2>5, <2>a DEF Revoke, NoRequest, Active, accountRows
  <2>6. CASE UpdateHash(w)
    <3>1. request[w].acct # a
          BY <2>6 DEF UpdateHash, SessionsTypeOK
    <3> QED
        BY <2>6, <2>a, <3>1 DEF UpdateHash, Active, tables
  <2>7. CASE RevokeAll(w)
        BY <2>7, <2>a DEF RevokeAll, NoRequest, Active
  <2>8. CASE WithdrawTx(w)
        BY <2>8, <2>a DEF WithdrawTx, NoRequest, Active
  <2> QED
      BY <1>h, <2>1, <2>2, <2>3, <2>4, <2>5, <2>6, <2>7, <2>8 DEF Handle
<1> QED
    BY <1>u, <1>e, <1>h DEF SessionsNext

(* A password that no active session and no request rests on any more      *)
(* stays without effect until the next password change.                    *)
THEOREM OldPasswordsStayOut == SessionsSpec => OldPasswordStaysOut
<1>1. SessionInv /\ [SessionsNext]_sessionVars
        => [\A a \in Accounts :
               OnlyCurrentPassword(a) /\ version'[a] = version[a]
                   => OnlyCurrentPassword(a)']_sessionVars
      BY CurrentOnlyStays
<1> QED
    BY SessionInvHolds, <1>1, PTL DEF SessionsSpec, OldPasswordStaysOut

-----------------------------------------------------------------------------
(* Sessions, one request at a time. *)

(* What a lone request found still holds when it writes.                   *)
FoundStill(w) ==
    /\ request[w].pc = "rotating" => request[w].sess \notin revoked
    /\ request[w].pc = "hashed" => request[w].ver = version[request[w].acct]
    /\ request[w].pc \in {"loggingIn", "rotating"} => request[w].ver >= cut[request[w].acct]

AloneSessions ==
    /\ \A w \in Handlers : FoundStill(w)
    /\ \A a \in Accounts : cut[a] <= version[a]
    /\ EveryRotationIsLinked
    /\ PasswordChangeCutsAll

LEMMA AloneStartKeeps ==
    ASSUME NEW w, Handlers = {w}, SessionInv, AloneSessions, NEW r, request' = [request EXCEPT ![w] = r],
           r.pc = "rotating" => r.sess \notin revoked,
           r.pc = "hashed" => r.ver = version[r.acct],
           r.pc \in {"loggingIn", "rotating"} => r.ver >= cut[r.acct],
           UNCHANGED <<tables, accountRows>>
    PROVE  AloneSessions'
<1>1. request'[w] = r
      BY DEF SessionInv, SessionsTypeOK
<1>2. (\A x \in Handlers : FoundStill(x))'
      BY <1>1 DEF FoundStill, tables, accountRows
<1>3. EveryRotationIsLinked' /\ PasswordChangeCutsAll' /\ (\A a \in Accounts : cut[a] <= version[a])'
      BY DEF AloneSessions, EveryRotationIsLinked, PasswordChangeCutsAll, Active, tables, accountRows
<1> QED
    BY <1>2, <1>3 DEF AloneSessions

LEMMA AloneHandleKeeps ==
    ASSUME NEW w, Handlers = {w}, SessionInv, AloneSessions, Handle(w)
    PROVE  AloneSessions'
<1> USE DEF SessionInv
<1>0. PICK r : r = request[w] /\ r \in Requests
      BY DEF SessionsTypeOK
<1>1. ASSUME NEW a \in Accounts, SellerLogin(w, a) \/ OidcLogin(w, a) \/ VerifyPassword(w, a) \/ AskWithdrawal(w, a)
      PROVE  AloneSessions'
  <2>1. PICK q \in {"loggingIn", "changing", "withdrawing"}, via \in {"user", "seller"} :
          request' = [request EXCEPT ![w] = [pc |-> q, acct |-> a, sess |-> Null, ver |-> version[a], via |-> via]]
        BY <1>1 DEF SellerLogin, OidcLogin, VerifyPassword, AskWithdrawal, StartRequest
  <2>2. UNCHANGED <<tables, accountRows>>
        BY <1>1 DEF SellerLogin, OidcLogin, VerifyPassword, AskWithdrawal
  <2>3. version[a] >= cut[a]
        BY DEF AloneSessions, SessionsTypeOK
  <2>4. PICK i : i = [pc |-> q, acct |-> a, sess |-> Null, ver |-> version[a], via |-> via]
        OBVIOUS
  <2> QED
      BY <2>1, <2>2, <2>3, <2>4, AloneStartKeeps
<1>2. ASSUME NEW s \in Ids, NEW via \in {"user", "seller"}, FindForRotation(w, s, via) \/ FindForLogout(w, s, via)
      PROVE  AloneSessions'
  <2>1. PICK q \in {"rotating", "loggingOut"} :
          request' = [request EXCEPT ![w] = [pc |-> q, acct |-> owner[s], sess |-> s, ver |-> cred[s], via |-> via]]
        BY <1>2 DEF FindForRotation, FindForLogout, StartRequest
  <2>2. Active(s) /\ UNCHANGED <<tables, accountRows>>
        BY <1>2 DEF FindForRotation, FindForLogout
  <2>3. s \notin revoked /\ cred[s] >= cut[owner[s]]
        BY <2>2 DEF AloneSessions, PasswordChangeCutsAll, Active
  <2>4. PICK i : i = [pc |-> q, acct |-> owner[s], sess |-> s, ver |-> cred[s], via |-> via]
        OBVIOUS
  <2> QED
      BY <2>1, <2>2, <2>3, <2>4, AloneStartKeeps
<1>3. CASE Respond(w) \/ RequestDies(w)
  <2>1. PICK i : i = NoRequest
        OBVIOUS
  <2>2. request' = [request EXCEPT ![w] = i] /\ i.pc = "idle" /\ UNCHANGED <<tables, accountRows>>
        BY <1>3, <2>1 DEF Respond, RequestDies, NoRequest
  <2> QED
      BY <2>2, AloneStartKeeps
<1>4. ASSUME NEW n \in Ids, IssueTokens(w, n) \/ RotateTx(w, n)
      PROVE  AloneSessions'
  <2>1. n \notin issued /\ issued' = issued \cup {n} /\ r.acct \in Accounts /\ r.ver \in Nat
        /\ owner' = [owner EXCEPT ![n] = r.acct] /\ r.ver >= cut[r.acct]
        BY <1>0, <1>4 DEF IssueTokens, RotateTx, CreateRow, RequestsRemember, AloneSessions, FoundStill,
             NoRequest, Requests
  <2>2. UNCHANGED <<removed, expired, accountRows>> /\ request'[w].pc = "responding"
        BY <1>4 DEF IssueTokens, RotateTx, Goto, SessionsTypeOK
  <2>3. CASE IssueTokens(w, n)
    <3>1. /\ cred' = [cred EXCEPT ![n] = r.ver] /\ rotatedFrom' = [rotatedFrom EXCEPT ![n] = Null]
          /\ UNCHANGED <<revoked, replacedBy>>
          BY <1>0, <2>3 DEF IssueTokens, CreateRow
    <3>2. EveryRotationIsLinked'
          BY <2>1, <3>1 DEF AloneSessions, EveryRotationIsLinked, SessionsTypeOK, RotationLinks
    <3>3. PasswordChangeCutsAll'
          BY <2>1, <2>2, <3>1 DEF AloneSessions, PasswordChangeCutsAll, Active, SessionsTypeOK, accountRows
    <3>4. FoundStill(w)' /\ (\A a \in Accounts : cut[a] <= version[a])'
          BY <2>2 DEF AloneSessions, FoundStill, accountRows
    <3> QED
        BY <3>2, <3>3, <3>4 DEF AloneSessions
  <2>4. CASE RotateTx(w, n)
    <3>1. PICK s \in issued : s = r.sess /\ s \notin revoked /\ cred[s] = r.ver
          BY <1>0, <2>4 DEF RotateTx, RequestsRemember, AloneSessions, FoundStill
    <3>2. /\ cred' = [cred EXCEPT ![n] = r.ver] /\ rotatedFrom' = [rotatedFrom EXCEPT ![n] = s]
          /\ revoked' = revoked \cup {s}
          /\ replacedBy' = [t \in Ids |-> IF t = s THEN n ELSE replacedBy[t]]
          BY <1>0, <2>4, <3>1 DEF RotateTx, CreateRow, RotatedRows
    <3>3. EveryRotationIsLinked'
          BY <2>1, <3>1, <3>2, SessionConstants
          DEF AloneSessions, EveryRotationIsLinked, SessionsTypeOK, RotationLinks
    <3>4. PasswordChangeCutsAll'
          BY <2>1, <2>2, <3>2 DEF AloneSessions, PasswordChangeCutsAll, Active, SessionsTypeOK, accountRows
    <3>5. FoundStill(w)' /\ (\A a \in Accounts : cut[a] <= version[a])'
          BY <2>2 DEF AloneSessions, FoundStill, accountRows
    <3> QED
        BY <3>3, <3>4, <3>5 DEF AloneSessions
  <2> QED
      BY <1>4, <2>3, <2>4
<1>5. CASE Revoke(w) \/ WithdrawTx(w)
  <2>1. /\ revoked \subseteq revoked' /\ removed \subseteq removed' /\ request'[w] = NoRequest
        /\ UNCHANGED <<issued, owner, expired, replacedBy, cred, rotatedFrom, version, cut>>
        BY <1>5 DEF Revoke, WithdrawTx, accountRows, SessionsTypeOK
  <2> QED
      BY <2>1 DEF AloneSessions, FoundStill, NoRequest, EveryRotationIsLinked, PasswordChangeCutsAll, Active
<1>6. CASE UpdateHash(w)
  <2>1. PICK a \in Accounts, v \in Nat : a = r.acct /\ v = version[a]
        BY <1>0, <1>6, SessionConstants DEF UpdateHash, RequestsRemember, SessionsTypeOK
  <2>2. /\ version' = [version EXCEPT ![a] = v + 1] /\ cut' = cut /\ UNCHANGED tables
        /\ request'[w].pc = "hashed" /\ request'[w].ver = v + 1 /\ request'[w].acct = a
        BY <1>0, <1>6, <2>1 DEF UpdateHash, SessionsTypeOK
  <2>3. FoundStill(w)'
        BY <2>1, <2>2 DEF FoundStill, SessionsTypeOK
  <2>4. (\A b \in Accounts : cut[b] <= version[b])'
        BY <2>1, <2>2 DEF AloneSessions, SessionsTypeOK
  <2>5. EveryRotationIsLinked' /\ PasswordChangeCutsAll'
        BY <2>2 DEF AloneSessions, EveryRotationIsLinked, PasswordChangeCutsAll, Active, tables
  <2> QED
      BY <2>3, <2>4, <2>5 DEF AloneSessions
<1>7. CASE RevokeAll(w)
  <2>1. PICK a \in Accounts, v \in Nat : a = r.acct /\ v = version[a] /\ r.ver = v
        BY <1>0, <1>7, SessionConstants
        DEF RevokeAll, RequestsRemember, SessionsTypeOK, AloneSessions, FoundStill
  <2>2. cut' = [cut EXCEPT ![a] = v]
    <3>1. cut[a] \in Nat /\ cut[a] <= v
          BY <2>1 DEF AloneSessions, SessionsTypeOK
    <3>2. cut' = [cut EXCEPT ![a] = IF v > cut[a] THEN v ELSE cut[a]]
          BY <1>0, <1>7, <2>1 DEF RevokeAll
    <3>3. (IF v > cut[a] THEN v ELSE cut[a]) = v
          BY <3>1
    <3> QED
        BY <3>2, <3>3
  <2>3. /\ revoked' = revoked \cup {s \in issued : owner[s] = a} /\ request'[w] = NoRequest
        /\ UNCHANGED <<issued, owner, removed, expired, replacedBy, cred, rotatedFrom, version>>
        BY <1>0, <1>7, <2>1 DEF RevokeAll, SessionsOf, SessionsTypeOK
  <2>4. PasswordChangeCutsAll'
        BY <2>2, <2>3 DEF AloneSessions, PasswordChangeCutsAll, Active, SessionsTypeOK
  <2>5. EveryRotationIsLinked' /\ (\A b \in Accounts : cut[b] <= version[b])'
        BY <2>1, <2>2, <2>3 DEF AloneSessions, EveryRotationIsLinked, SessionsTypeOK
  <2> QED
      BY <2>3, <2>4, <2>5 DEF AloneSessions, FoundStill, NoRequest
<1> QED
    BY <1>1, <1>2, <1>3, <1>4, <1>5, <1>6, <1>7 DEF Handle

LEMMA AloneSessionsHold ==
    ASSUME NEW w, Handlers = {w}
    PROVE  SessionsSpec => []AloneSessions
<1>1. SessionsInit => AloneSessions
      BY DEF SessionsInit, NoRequest, AloneSessions, FoundStill, EveryRotationIsLinked, PasswordChangeCutsAll, Active
<1>2. SessionInv /\ AloneSessions /\ [SessionsNext]_sessionVars => AloneSessions'
  <2> SUFFICES ASSUME SessionInv, AloneSessions, [SessionsNext]_sessionVars PROVE AloneSessions'
      OBVIOUS
  <2>1. ASSUME NEW s \in Ids, Expire(s) PROVE AloneSessions'
        BY <2>1 DEF Expire, AloneSessions, FoundStill, EveryRotationIsLinked, PasswordChangeCutsAll, Active, accountRows
  <2>2. CASE UNCHANGED sessionVars
        BY <2>2 DEF sessionVars, tables, accountRows, AloneSessions, FoundStill, EveryRotationIsLinked,
             PasswordChangeCutsAll, Active
  <2> QED
      BY <2>1, <2>2, AloneHandleKeeps DEF SessionsNext
<1> QED
    BY <1>1, <1>2, SessionInvHolds, PTL DEF SessionsSpec

(* Of requests one after the other, dying or not: rotateRefreshSession     *)
(* links a session to the one it became, and no other.                     *)
THEOREM AloneRotationsAreLinked ==
    ASSUME NEW w, Handlers = {w}
    PROVE  SessionsSpec => []EveryRotationIsLinked
BY AloneSessionsHold, PTL DEF AloneSessions

(* Of requests one after the other, dying or not: once                     *)
(* changeSellerPassword has revoked the sessions, no session of an         *)
(* earlier password is active.                                             *)
THEOREM AlonePasswordChangesCut ==
    ASSUME NEW w, Handlers = {w}
    PROVE  SessionsSpec => []PasswordChangeCutsAll
BY AloneSessionsHold, PTL DEF AloneSessions
=============================================================================
