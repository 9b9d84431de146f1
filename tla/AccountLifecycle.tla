--------------------------- MODULE AccountLifecycle ---------------------------
(***************************************************************************)
(* Customer accounts: OIDC sign-up and sign-in, onboarding, profile        *)
(* updates, withdrawal and re-joining, as AccountRepository and            *)
(* UserRepository run them.                                                *)
(*                                                                         *)
(* An account is created together with one profile and one identity and    *)
(* never gets another, so the three rows are columns of one id here.       *)
(* account_identity (provider, provider_subject) and user_profile.nickname *)
(* are UNIQUE over live and deleted rows alike; a statement that would     *)
(* break one fails and rolls its transaction back.                         *)
(***************************************************************************)
EXTENDS Naturals

CONSTANTS
    Workers,       \* slots for requests in flight
    Subjects,      \* (provider, provider_subject) pairs of the OIDC providers
    RealNames,     \* what account.name holds
    Wanted,        \* nicknames customers ask for
    None,
    MaxAccounts    \* model bound on the accounts created

(* user_profile.nickname: one a customer chose, or one of the two that are *)
(* built from the account id.  Its letters, digits and underscores let a   *)
(* customer choose a nickname of the last two forms too.                   *)
InitialNickname(a) == <<"initial", a>>
DeletedNickname(a) == <<"deleted", a>>

Retired == "retired"     \* provider_subject replaced by buildWithdrawnProviderSubject

Ids == 1..MaxAccounts

BuiltNicknames == {InitialNickname(a) : a \in Ids} \cup {DeletedNickname(a) : a \in Ids}

ASSUME AccountConstants ==
    /\ None \notin Subjects \cup RealNames
    /\ None \notin Wanted \cup BuiltNicknames
    /\ None \notin Ids
    /\ Retired \notin Subjects \cup {None}
    /\ MaxAccounts \in Nat

VARIABLES
    nextId,      \* AUTO_INCREMENT of account: burnt ids are not used again
    account,     \* the state of each account row (and of its profile)
    identity,    \* provider_subject of the account's identity
    email,       \* whose e-mail address account.email is
    name,        \* account.name
    nick,        \* user_profile.nickname
    onboarded,   \* profiles with onboarding_completed_at
    job,         \* what each worker is doing
    (* History variables *)
    legacy,      \* accounts withdrawn before identities were retired
    landed       \* <<subject, account>> of the sign-ins that succeeded, until
                 \* the account is withdrawn

rows == <<account, identity, email, name, nick, onboarded>>
vars == <<nextId, rows, job, legacy, landed>>

Nicknames == Wanted \cup BuiltNicknames \cup {None}

Pcs == {"idle", "signingUp", "signingIn", "withdrawing",
        "onboarding?", "onboarding", "updating?", "updating"}

Jobs == [pc : Pcs, acct : Ids \cup {None}, subject : Subjects \cup {None},
         email : Subjects \cup {None}, name : RealNames \cup {None}, nick : Nicknames]

Idle == [pc |-> "idle", acct |-> None, subject |-> None, email |-> None,
         name |-> None, nick |-> None]

TypeOK ==
    /\ nextId \in 1..(MaxAccounts + 1)
    /\ account \in [Ids -> {"none", "live", "deleted"}]
    /\ identity \in [Ids -> Subjects \cup {Retired, None}]
    /\ email \in [Ids -> Subjects \cup {None}]
    /\ name \in [Ids -> RealNames \cup {None}]
    /\ nick \in [Ids -> Nicknames]
    /\ \A a \in Ids : account[a] # "none" => nick[a] # None
    /\ onboarded \subseteq Ids
    /\ job \in [Workers -> Jobs]
    /\ legacy \subseteq Ids
    /\ landed \subseteq Subjects \X Ids

EmptyRows ==
    /\ account = [a \in Ids |-> "none"]
    /\ identity = [a \in Ids |-> None]
    /\ nick = [a \in Ids |-> None]
    /\ nextId = 1
    /\ legacy = {}

(* One account was withdrawn when its identity was only left as it was. *)
LegacyRows ==
    /\ 1 \in Ids
    /\ account = [a \in Ids |-> IF a = 1 THEN "deleted" ELSE "none"]
    /\ \E s \in Subjects : identity = [a \in Ids |-> IF a = 1 THEN s ELSE None]
    /\ nick = [a \in Ids |-> IF a = 1 THEN DeletedNickname(1) ELSE None]
    /\ nextId = 2
    /\ legacy = {1}

Init ==
    /\ EmptyRows \/ LegacyRows
    /\ email = [a \in Ids |-> None]
    /\ name = [a \in Ids |-> None]
    /\ onboarded = {}
    /\ job = [w \in Workers |-> Idle]
    /\ landed = {}

-----------------------------------------------------------------------------
Start(w, j) == job[w] = Idle /\ job' = [job EXCEPT ![w] = j]

End(w) == job' = [job EXCEPT ![w] = Idle]

(* requireActiveUser, after JwtAuthGuard *)
Active(a) == account[a] = "live"

(* A UNIQUE index sees deleted rows too. *)
NickFree(n, a) == \A b \in Ids \ {a} : nick[b] # n

SubjectFreeIgnored(s, a) == TRUE                            \* mutated form

SubjectFree(s, a) == \A b \in Ids \ {a} : identity[b] # s

-----------------------------------------------------------------------------
(* Sign-in *)

SignInJob(a, s, mail, display) ==
    [pc |-> "signingIn", acct |-> a, subject |-> s, nick |-> None,
     email |-> IF email[a] # None THEN email[a] ELSE mail,
     name |-> IF name[a] # None THEN name[a] ELSE display]

(* acct is the withdrawn account whose identity is to be retired, or None. *)
SignUpJob(a, s, mail, display) ==
    [pc |-> "signingUp", acct |-> a, subject |-> s, nick |-> None,
     email |-> mail, name |-> display]

(* upsertUserByOidcIdentity: the lookup of its transaction, and what it    *)
(* will write.  mail is the e-mail if the provider vouches for it          *)
(* (resolveVerifiedEmail), display the provider's name, if any.            *)
FindIdentity(w, s, mail, display) ==
    /\ \/ \E a \in Ids : /\ identity[a] = s
                        /\ Active(a)
                        /\ Start(w, SignInJob(a, s, mail, display))
       \/ \E a \in Ids : /\ identity[a] = s
                        /\ ~Active(a)
                        /\ Start(w, SignUpJob(a, s, mail, display))
       \/ SubjectFree(s, None) /\ Start(w, SignUpJob(None, s, mail, display))
    /\ UNCHANGED <<nextId, rows, legacy, landed>>

(* updateExistingIdentity: writes back the e-mail and name it read, or the *)
(* provider's.  Its last read hides an account deleted meanwhile: the      *)
(* caller gets an error, but the transaction commits.                      *)
SignIn(w) ==
    /\ job[w].pc = "signingIn"
    /\ LET a == job[w].acct
       IN  /\ email' = [email EXCEPT ![a] = job[w].email]
           /\ name' = [name EXCEPT ![a] = job[w].name]
           /\ landed' = IF Active(a) THEN landed \cup {<<job[w].subject, a>>} ELSE landed
    /\ End(w)
    /\ UNCHANGED <<nextId, account, identity, nick, onboarded, legacy>>

IdentityWithoutRetirement(a) == identity                    \* mutated form

(* retireWithdrawnIdentity, if there is one to retire. *)
IdentityRetired(a) == [b \in Ids |-> IF b = a THEN Retired ELSE identity[b]]

(* createNewIdentity, after the retirement: account, profile, identity.    *)
(* Either UNIQUE index may refuse, which rolls everything back but the id. *)
SignUp(w) ==
    /\ job[w].pc = "signingUp"
    /\ nextId <= MaxAccounts
    /\ nextId' = nextId + 1
    /\ IF /\ NickFree(InitialNickname(nextId), nextId)
          /\ SubjectFree(job[w].subject, job[w].acct)
       THEN /\ account' = [account EXCEPT ![nextId] = "live"]
            /\ identity' = [IdentityRetired(job[w].acct) EXCEPT ![nextId] = job[w].subject]
            /\ email' = [email EXCEPT ![nextId] = job[w].email]
            /\ name' = [name EXCEPT ![nextId] = job[w].name]
            /\ nick' = [nick EXCEPT ![nextId] = InitialNickname(nextId)]
            /\ landed' = landed \cup {<<job[w].subject, nextId>>}
       ELSE UNCHANGED <<account, identity, email, name, nick, landed>>
    /\ End(w)
    /\ UNCHANGED <<onboarded, legacy>>

-----------------------------------------------------------------------------
(* Withdrawal *)

AskWithdrawal(w, a) ==
    /\ Active(a)
    /\ Start(w, [pc |-> "withdrawing", acct |-> a, subject |-> None, email |-> None,
                 name |-> None, nick |-> None])
    /\ UNCHANGED <<nextId, rows, legacy, landed>>

(* softDeleteAccount: fails if another profile has the nickname it wants.  *)
(* RefreshSessions models what it does to the account's sessions.          *)
WithdrawTx(w) ==
    /\ job[w].pc = "withdrawing"
    /\ LET a == job[w].acct
       IN  IF NickFree(DeletedNickname(a), a)
           THEN /\ nick' = [nick EXCEPT ![a] = DeletedNickname(a)]
                /\ account' = [account EXCEPT ![a] = "deleted"]
                /\ email' = [email EXCEPT ![a] = None]
                /\ identity' = IdentityRetired(a)
                /\ landed' = {p \in landed : p[2] # a}
           ELSE UNCHANGED <<nick, account, email, identity, landed>>
    /\ End(w)
    /\ UNCHANGED <<nextId, name, onboarded, legacy>>

-----------------------------------------------------------------------------
(* Onboarding and profile updates *)

(* completeOnboarding up to the nickname lookup; the name is only sent on  *)
(* if the account has none.                                                *)
AskOnboarding(w, a, n, nm) ==
    /\ Active(a)
    /\ name[a] # None \/ nm # None
    /\ Start(w, [pc |-> "onboarding?", acct |-> a, subject |-> None, email |-> None,
                 name |-> IF name[a] # None THEN None ELSE nm, nick |-> n])
    /\ UNCHANGED <<nextId, rows, legacy, landed>>

AskUpdateOfAnyone(w, a, n, nm) ==  \* mutated form: no requireActiveUser
    /\ account[a] # "none"
    /\ n # None \/ nm # None
    /\ Start(w, [pc |-> IF n # None THEN "updating?" ELSE "updating", acct |-> a,
                 subject |-> None, email |-> None, name |-> nm, nick |-> n])
    /\ UNCHANGED <<nextId, rows, legacy, landed>>

(* updateMyProfile up to the nickname lookup, with a nickname, a name or   *)
(* both; None is a field that is not sent.                                 *)
AskUpdate(w, a, n, nm) ==
    /\ Active(a)
    /\ n # None \/ nm # None
    /\ Start(w, [pc |-> IF n # None THEN "updating?" ELSE "updating", acct |-> a,
                 subject |-> None, email |-> None, name |-> nm, nick |-> n])
    /\ UNCHANGED <<nextId, rows, legacy, landed>>

(* isNicknameTaken: deleted profiles are hidden from it, but not from the  *)
(* UNIQUE index.                                                           *)
CheckNickname(w) ==
    /\ job[w].pc \in {"onboarding?", "updating?"}
    /\ IF \E b \in Ids \ {job[w].acct} : Active(b) /\ nick[b] = job[w].nick
       THEN End(w)
       ELSE job' = [job EXCEPT ![w].pc =
                       IF @ = "onboarding?" THEN "onboarding" ELSE "updating"]
    /\ UNCHANGED <<nextId, rows, legacy, landed>>

(* completeOnboarding's transaction: the name only where name IS NULL. *)
OnboardTx(w) ==
    /\ job[w].pc = "onboarding"
    /\ LET a == job[w].acct
       IN  IF NickFree(job[w].nick, a)
           THEN /\ name' = [name EXCEPT ![a] = IF @ = None THEN job[w].name ELSE @]
                /\ nick' = [nick EXCEPT ![a] = job[w].nick]
                /\ onboarded' = onboarded \cup {a}
           ELSE UNCHANGED <<name, nick, onboarded>>
    /\ End(w)
    /\ UNCHANGED <<nextId, account, identity, email, legacy, landed>>

(* updateProfile's transaction: by id, whether or not the account is still *)
(* there.                                                                  *)
UpdateTx(w) ==
    /\ job[w].pc = "updating"
    /\ LET a == job[w].acct
       IN  IF job[w].nick = None \/ NickFree(job[w].nick, a)
           THEN /\ name' = IF job[w].name = None THEN name
                           ELSE [name EXCEPT ![a] = job[w].name]
                /\ nick' = IF job[w].nick = None THEN nick
                           ELSE [nick EXCEPT ![a] = job[w].nick]
           ELSE UNCHANGED <<name, nick>>
    /\ End(w)
    /\ UNCHANGED <<nextId, account, identity, email, onboarded, legacy, landed>>

(* A request dies, or its transaction is rolled back. *)
Fail(w) ==
    /\ job[w] # Idle
    /\ End(w)
    /\ UNCHANGED <<nextId, rows, legacy, landed>>

Handle(w) ==
    \/ \E s \in Subjects : \E mail \in {s, None}, display \in RealNames \cup {None} :
          FindIdentity(w, s, mail, display)
    \/ \E a \in Ids : AskWithdrawal(w, a)
    \/ \E a \in Ids, n \in Wanted, nm \in RealNames \cup {None} : AskOnboarding(w, a, n, nm)
    \/ \E a \in Ids, n \in Wanted \cup {None}, nm \in RealNames \cup {None} :
          AskUpdate(w, a, n, nm)
    \/ SignIn(w) \/ SignUp(w) \/ WithdrawTx(w)
    \/ CheckNickname(w) \/ OnboardTx(w) \/ UpdateTx(w)
    \/ Fail(w)

Next == \E w \in Workers : Handle(w)

Spec == Init /\ [][Next]_vars

-----------------------------------------------------------------------------
(* Properties *)

(* A live account has a provider identity of its own, which no other       *)
(* account has; an account that withdraws gives its identity up.           *)
IdentityFollowsAccount ==
    \A a \in Ids :
        /\ account[a] = "live" =>
              /\ identity[a] \in Subjects
              /\ \A b \in Ids \ {a} : identity[b] # identity[a]
        /\ account[a] = "deleted" /\ a \notin legacy => identity[a] = Retired

(* Two sign-ins with one identity of a provider, however they race, end in *)
(* one account, until that is withdrawn.                                   *)
OneHomePerSubject == \A p, q \in landed : p[1] = q[1] => p[2] = q[2]

(* No sign-in succeeds on a withdrawn account, not even one that was under *)
(* way when it was withdrawn: who comes back joins anew.                   *)
NeverLandsOnWithdrawn == \A p \in landed : account[p[2]] = "live"

Anonymous(a) == email[a] = None /\ nick[a] = DeletedNickname(a)

(* Withdrawal empties the e-mail and replaces the nickname.                *)
WithdrawnIsAnonymous == \A a \in Ids : account[a] = "deleted" => Anonymous(a)

(* The withdrawn account a is anonymous and has no request in flight.      *)
Gone(a) ==
    /\ account[a] = "deleted"
    /\ Anonymous(a)
    /\ \A w \in Workers : job[w].acct # a

(* Once nothing is in flight for a withdrawn, anonymous account, no new    *)
(* request touches it, and it keeps off the live ones for good.            *)
WithdrawnStaysGone == [][\A a \in Ids \ legacy : Gone(a) => Gone(a)']_vars

SignInFillsBlanks ==
    \A w \in Workers : job[w].pc = "signingIn" /\ job'[w].pc = "idle" =>
        \A a \in Ids : /\ email[a] # None => email'[a] = email[a]
                       /\ name[a] # None => name'[a] = name[a]

(* A sign-in only fills an e-mail or a name in where there is none.        *)
SignInOnlyFillsBlanks == [][SignInFillsBlanks]_vars

(* The nickname a new account is given is not taken: its id makes it       *)
(* unique.                                                                 *)
InitialNicknameIsFree == nextId \in Ids => NickFree(InitialNickname(nextId), nextId)

(* The parts of the inductive invariant that the theorems rest on. *)

(* Ids are given out in order, and a row that is not there has no identity. *)
IdsInOrder ==
    \A a \in Ids : /\ account[a] = "none" => identity[a] = None
                   /\ a >= nextId => account[a] = "none"

(* A request acts on an account that exists; a sign-up only retires the    *)
(* identity of a withdrawn one; a sign-in holds the identity it found, as  *)
(* long as its account lives.                                              *)
JobsKnowAccounts ==
    \A w \in Workers :
        /\ job[w].pc \in {"signingIn", "signingUp"} => job[w].subject \in Subjects
        /\ job[w].pc \notin {"idle", "signingUp"} =>
              job[w].acct \in Ids /\ account[job[w].acct] # "none"
        /\ job[w].pc = "signingUp" /\ job[w].acct # None => account[job[w].acct] = "deleted"
        /\ job[w].pc = "signingIn" /\ account[job[w].acct] = "live" =>
              identity[job[w].acct] = job[w].subject
        /\ job[w].pc = "onboarding?" \/ job[w].pc = "onboarding" \/ job[w].pc = "updating?"
              => job[w].nick # None

(* A subject's sign-ins landed on a live account that has its identity.    *)
LandedAtHome == \A p \in landed : account[p[2]] = "live" /\ identity[p[2]] = p[1]

AccountInv ==
    /\ TypeOK
    /\ IdentityFollowsAccount
    /\ IdsInOrder
    /\ JobsKnowAccounts
    /\ LandedAtHome
=============================================================================
