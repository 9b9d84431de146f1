----------------------- MODULE AccountLifecycleProofs -----------------------
(***************************************************************************)
(* Proofs about AccountLifecycle, for any subjects, requests in flight,    *)
(* names, nicknames and number of accounts.                                *)
(*                                                                         *)
(* IdentityFollowsAccount is not inductive alone: a sign-up in flight may  *)
(* retire an identity it found some steps ago, which must not be that of a *)
(* live account (JobsKnowAccounts), and it writes to the next id, which    *)
(* must not be in use (IdsInOrder).                                        *)
(***************************************************************************)
EXTENDS AccountLifecycle, TLAPS

others == <<nextId, rows, legacy, landed>>

(* Both kinds of initial database satisfy the invariant.                   *)
LEMMA InitAccountInv == Init => AccountInv
<1> SUFFICES ASSUME Init PROVE AccountInv
    OBVIOUS
<1> USE AccountConstants DEF Init, EmptyRows, LegacyRows, Ids, Idle
<1>1. Idle \in Jobs
      BY DEF Jobs, Pcs, Nicknames
<1>2. nick \in [Ids -> Nicknames] /\ \A a \in Ids : account[a] # "none" => nick[a] # None
      BY DEF Nicknames, BuiltNicknames
<1>3. TypeOK
      BY <1>1, <1>2 DEF TypeOK
<1>4. IdentityFollowsAccount /\ IdsInOrder
      BY DEF IdentityFollowsAccount, IdsInOrder
<1>5. JobsKnowAccounts /\ LandedAtHome
      BY DEF JobsKnowAccounts, LandedAtHome
<1> QED
    BY <1>3, <1>4, <1>5 DEF AccountInv

(* A request that only reads, and remembers what it is entitled to, keeps  *)
(* the invariant.                                                          *)
LEMMA ReadKeepsInv ==
    ASSUME NEW w \in Workers, NEW j \in Jobs, AccountInv,
           job' = [job EXCEPT ![w] = j],
           UNCHANGED others,
           j.pc \in {"signingIn", "signingUp"} => j.subject \in Subjects,
           j.pc \notin {"idle", "signingUp"} => j.acct \in Ids /\ account[j.acct] # "none",
           j.pc = "signingUp" /\ j.acct # None => account[j.acct] = "deleted",
           j.pc = "signingIn" => identity[j.acct] = j.subject,
           j.pc \in {"onboarding?", "onboarding", "updating?"} => j.nick # None
    PROVE  AccountInv'
<1> USE DEF AccountInv, others, rows
<1>1. TypeOK'
      BY DEF TypeOK
<1>2. IdentityFollowsAccount' /\ IdsInOrder' /\ LandedAtHome'
      BY DEF IdentityFollowsAccount, IdsInOrder, LandedAtHome
<1>3. JobsKnowAccounts'
      BY DEF JobsKnowAccounts, TypeOK
<1> QED
    BY <1>1, <1>2, <1>3

(* A write that neither revives nor removes an account, and leaves the     *)
(* identity of those that stay live, keeps what the requests in flight and *)
(* the sign-ins so far rely on.                                            *)
LEMMA WriteKeepsJobs ==
    ASSUME NEW w \in Workers, AccountInv, End(w),
           \A a \in Ids : account[a] # "none" => account'[a] # "none",
           \A a \in Ids : account[a] = "deleted" => account'[a] = "deleted",
           \A a \in Ids : account[a] = "live" /\ account'[a] = "live" => identity'[a] = identity[a]
    PROVE  JobsKnowAccounts' /\ job' \in [Workers -> Jobs]
<1> USE DEF AccountInv
<1>1. job' \in [Workers -> Jobs] /\ job'[w].pc = "idle"
      BY DEF TypeOK, End, Idle, Jobs, Pcs, Nicknames
<1>2. ASSUME NEW x \in Workers
      PROVE  (/\ job[x].pc \in {"signingIn", "signingUp"} => job[x].subject \in Subjects
              /\ job[x].pc \notin {"idle", "signingUp"} =>
                    job[x].acct \in Ids /\ account[job[x].acct] # "none"
              /\ job[x].pc = "signingUp" /\ job[x].acct # None => account[job[x].acct] = "deleted"
              /\ job[x].pc = "signingIn" /\ account[job[x].acct] = "live" =>
                    identity[job[x].acct] = job[x].subject
              /\ job[x].pc = "onboarding?" \/ job[x].pc = "onboarding" \/ job[x].pc = "updating?"
                    => job[x].nick # None)'
  <2>1. CASE x = w
        BY <2>1, <1>1
  <2>2. CASE x # w
    <3>1. job'[x] = job[x]
          BY <2>2 DEF End, TypeOK
    <3>2. PICK j \in Jobs : j = job[x]
          BY DEF TypeOK
    <3>3. /\ j.pc \in {"signingIn", "signingUp"} => j.subject \in Subjects
          /\ j.pc \notin {"idle", "signingUp"} => j.acct \in Ids /\ account[j.acct] # "none"
          /\ j.pc = "signingUp" /\ j.acct # None => account[j.acct] = "deleted"
          /\ j.pc = "signingIn" /\ account[j.acct] = "live" => identity[j.acct] = j.subject
          /\ j.pc = "onboarding?" \/ j.pc = "onboarding" \/ j.pc = "updating?" => j.nick # None
          BY <3>2 DEF JobsKnowAccounts
    <3>4. j.pc \notin {"idle", "signingUp"} => account'[j.acct] # "none"
          BY <3>3
    <3>5. j.pc = "signingUp" /\ j.acct # None => account'[j.acct] = "deleted"
          BY <3>3 DEF Jobs
    <3>6. j.pc = "signingIn" /\ account'[j.acct] = "live" => identity'[j.acct] = j.subject
      <4>1. j.acct \in Ids => account[j.acct] \in {"none", "live", "deleted"}
            BY DEF TypeOK
      <4> QED
          BY <3>3, <4>1
    <3> QED
        BY <3>1, <3>2, <3>3, <3>4, <3>5, <3>6
  <2> QED
      BY <2>1, <2>2
<1> QED
    BY <1>1, <1>2 DEF JobsKnowAccounts

(* The reads of the sign-in, and of the requests of a signed-in customer.  *)
LEMMA ReadsKeepInv ==
    ASSUME NEW w \in Workers, AccountInv,
           \/ \E s \in Subjects : \E mail \in {s, None}, display \in RealNames \cup {None} :
                FindIdentity(w, s, mail, display)
           \/ \E a \in Ids : AskWithdrawal(w, a)
           \/ \E a \in Ids, n \in Wanted, nm \in RealNames \cup {None} : AskOnboarding(w, a, n, nm)
           \/ \E a \in Ids, n \in Wanted \cup {None}, nm \in RealNames \cup {None} :
                AskUpdate(w, a, n, nm)
           \/ Fail(w)
    PROVE  AccountInv'
<1> USE DEF AccountInv
<1>1. ASSUME NEW s \in Subjects, NEW mail \in {s, None}, NEW display \in RealNames \cup {None},
             FindIdentity(w, s, mail, display)
      PROVE  AccountInv'
  <2>1. UNCHANGED others
        BY <1>1 DEF FindIdentity, others
  <2>2. CASE \E a \in Ids : identity[a] = s /\ Active(a) /\ Start(w, SignInJob(a, s, mail, display))
    <3>1. PICK a \in Ids : identity[a] = s /\ Active(a) /\ Start(w, SignInJob(a, s, mail, display))
          BY <2>2
    <3>2. PICK j : j = SignInJob(a, s, mail, display)
          OBVIOUS
    <3>3. j \in Jobs
          BY <3>2 DEF SignInJob, Jobs, Pcs, Nicknames, TypeOK
    <3> QED
        BY <2>1, <3>1, <3>2, <3>3, ReadKeepsInv DEF SignInJob, Start, Active
  <2>3. CASE \E a \in Ids : identity[a] = s /\ ~Active(a) /\ Start(w, SignUpJob(a, s, mail, display))
    <3>1. PICK a \in Ids : identity[a] = s /\ ~Active(a) /\ Start(w, SignUpJob(a, s, mail, display))
          BY <2>3
    <3>2. account[a] = "deleted"
          BY <3>1, AccountConstants DEF TypeOK, Active, IdsInOrder
    <3>3. PICK j \in Jobs : j = SignUpJob(a, s, mail, display)
          BY DEF SignUpJob, Jobs, Pcs, Nicknames
    <3> QED
        BY <2>1, <3>1, <3>2, <3>3, ReadKeepsInv DEF SignUpJob, Start
  <2>4. CASE Start(w, SignUpJob(None, s, mail, display))
    <3>1. PICK j \in Jobs : j = SignUpJob(None, s, mail, display)
          BY DEF SignUpJob, Jobs, Pcs, Nicknames
    <3> QED
        BY <2>1, <2>4, <3>1, ReadKeepsInv DEF SignUpJob, Start
  <2> QED
      BY <1>1, <2>2, <2>3, <2>4 DEF FindIdentity
<1>2. ASSUME NEW a \in Ids,
             \/ AskWithdrawal(w, a)
             \/ \E n \in Wanted, nm \in RealNames \cup {None} : AskOnboarding(w, a, n, nm)
             \/ \E n \in Wanted \cup {None}, nm \in RealNames \cup {None} : AskUpdate(w, a, n, nm)
      PROVE  AccountInv'
  <2>1. account[a] = "live" /\ UNCHANGED others
        BY <1>2 DEF AskWithdrawal, AskOnboarding, AskUpdate, Active, others
  <2>2. PICK j \in Jobs : /\ job' = [job EXCEPT ![w] = j]
                          /\ j.acct = a
                          /\ j.pc \in {"withdrawing", "onboarding?", "updating?", "updating"}
                          /\ j.pc \in {"onboarding?", "updating?"} => j.nick # None
    <3>1. CASE AskWithdrawal(w, a)
      <4> DEFINE r == [pc |-> "withdrawing", acct |-> a, subject |-> None, email |-> None,
                       name |-> None, nick |-> None]
      <4>1. r \in Jobs
            BY DEF Jobs, Pcs, Nicknames
      <4>2. job' = [job EXCEPT ![w] = r]
            BY <3>1 DEF AskWithdrawal, Start
      <4> QED
          BY <4>1, <4>2
    <3>2. CASE \E n \in Wanted, nm \in RealNames \cup {None} : AskOnboarding(w, a, n, nm)
      <4>1. PICK n \in Wanted, nm \in RealNames \cup {None} : AskOnboarding(w, a, n, nm)
            BY <3>2
      <4>2. PICK x \in RealNames \cup {None} : x = IF name[a] # None THEN None ELSE nm
            OBVIOUS
      <4> DEFINE r == [pc |-> "onboarding?", acct |-> a, subject |-> None, email |-> None,
                       name |-> x, nick |-> n]
      <4>3. r \in Jobs /\ n # None
            BY AccountConstants DEF Jobs, Pcs, Nicknames
      <4>4. job' = [job EXCEPT ![w] = r]
            BY <4>1, <4>2 DEF AskOnboarding, Start
      <4> QED
          BY <4>3, <4>4
    <3>3. CASE \E n \in Wanted \cup {None}, nm \in RealNames \cup {None} : AskUpdate(w, a, n, nm)
      <4>1. PICK n \in Wanted \cup {None}, nm \in RealNames \cup {None} : AskUpdate(w, a, n, nm)
            BY <3>3
      <4>2. PICK pc \in {"updating?", "updating"} :
                pc = IF n # None THEN "updating?" ELSE "updating"
            OBVIOUS
      <4> DEFINE r == [pc |-> pc, acct |-> a, subject |-> None, email |-> None,
                       name |-> nm, nick |-> n]
      <4>3. r \in Jobs
            BY DEF Jobs, Pcs, Nicknames
      <4>4. job' = [job EXCEPT ![w] = r]
            BY <4>1, <4>2 DEF AskUpdate, Start
      <4>5. pc = "updating?" => n # None
            BY <4>2
      <4> QED
          BY <4>3, <4>4, <4>5
    <3> QED
        BY <1>2, <3>1, <3>2, <3>3
  <2> QED
      BY <2>1, <2>2, ReadKeepsInv
<1>3. CASE Fail(w)
      BY <1>3, ReadKeepsInv DEF Fail, End, Idle, others, Jobs, Pcs, Nicknames
<1> QED
    BY <1>1, <1>2, <1>3

(* isNicknameTaken changes nothing but the request's place.                *)
LEMMA CheckKeepsInv ==
    ASSUME NEW w \in Workers, AccountInv, CheckNickname(w)
    PROVE  AccountInv'
<1> USE DEF AccountInv
<1>1. UNCHANGED others
      BY DEF CheckNickname, others
<1>2. CASE End(w)
      BY <1>1, <1>2, ReadKeepsInv DEF End, Idle, Jobs, Pcs, Nicknames
<1>3. CASE ~End(w)
  <2>1. PICK o \in Jobs : o = job[w]
        BY DEF TypeOK
  <2>2. /\ o.pc \in {"onboarding?", "updating?"}
        /\ o.acct \in Ids /\ account[o.acct] # "none" /\ o.nick # None
        BY <2>1 DEF CheckNickname, JobsKnowAccounts
  <2>3. PICK j : j = [o EXCEPT !.pc = IF o.pc = "onboarding?" THEN "onboarding" ELSE "updating"]
        OBVIOUS
  <2>4. /\ j.acct = o.acct /\ j.nick = o.nick /\ j.pc \in {"onboarding", "updating"}
        /\ j \in Jobs
        BY <2>3 DEF Jobs, Pcs
  <2>5. job' = [job EXCEPT ![w] = j]
        BY <1>3, <2>1, <2>3 DEF CheckNickname, TypeOK
  <2> QED
      BY <1>1, <2>2, <2>4, <2>5, ReadKeepsInv
<1> QED
    BY <1>2, <1>3

(* SignIn writes an e-mail and a name, and lands where its identity is.    *)
LEMMA SignInKeepsInv ==
    ASSUME NEW w \in Workers, AccountInv, SignIn(w)
    PROVE  AccountInv'
<1> USE DEF AccountInv
<1>1. PICK o \in Jobs : o = job[w]
      BY DEF TypeOK
<1>2. /\ o.acct \in Ids /\ account[o.acct] # "none" /\ o.subject \in Subjects
      /\ account[o.acct] = "live" => identity[o.acct] = o.subject
      BY <1>1 DEF SignIn, JobsKnowAccounts
<1>3. /\ email' = [email EXCEPT ![o.acct] = o.email]
      /\ name' = [name EXCEPT ![o.acct] = o.name]
      /\ landed' = IF account[o.acct] = "live" THEN landed \cup {<<o.subject, o.acct>>} ELSE landed
      /\ UNCHANGED <<nextId, account, identity, nick, onboarded, legacy>>
      BY <1>1 DEF SignIn, Active
<1>4. JobsKnowAccounts' /\ job' \in [Workers -> Jobs]
      BY <1>3, WriteKeepsJobs DEF SignIn
<1>5. TypeOK'
      BY <1>2, <1>3, <1>4 DEF TypeOK, Jobs
<1>6. IdentityFollowsAccount' /\ IdsInOrder'
      BY <1>3 DEF IdentityFollowsAccount, IdsInOrder
<1>7. LandedAtHome'
      BY <1>2, <1>3 DEF LandedAtHome
<1> QED
    BY <1>4, <1>5, <1>6, <1>7

(* SignUp fills in the row of an id no account has had, and retires at     *)
(* most the identity of an account already withdrawn.                      *)
LEMMA SignUpKeepsInv ==
    ASSUME NEW w \in Workers, AccountInv, SignUp(w)
    PROVE  AccountInv'
<1> USE DEF AccountInv
<1>1. PICK o \in Jobs : o = job[w]
      BY DEF TypeOK
<1>2. PICK n \in Ids : n = nextId
      BY AccountConstants DEF SignUp, TypeOK, Ids
<1>3. /\ o.subject \in Subjects
      /\ o.acct # None => o.acct \in Ids /\ account[o.acct] = "deleted"
      /\ account[n] = "none"
      BY <1>1, <1>2 DEF SignUp, JobsKnowAccounts, IdsInOrder, Jobs, Ids, TypeOK
<1>4. nextId' = n + 1 /\ UNCHANGED <<onboarded, legacy>> /\ End(w)
      BY <1>2 DEF SignUp
<1>5. CASE UNCHANGED <<account, identity, email, name, nick, landed>>
  <2>1. JobsKnowAccounts' /\ job' \in [Workers -> Jobs]
        BY <1>4, <1>5, WriteKeepsJobs
  <2>2. TypeOK'
        BY <1>2, <1>4, <1>5, <2>1, AccountConstants DEF TypeOK, Ids
  <2>3. IdentityFollowsAccount' /\ LandedAtHome'
        BY <1>4, <1>5 DEF IdentityFollowsAccount, LandedAtHome
  <2>4. IdsInOrder'
        BY <1>2, <1>4, <1>5, AccountConstants DEF IdsInOrder, Ids, TypeOK
  <2> QED
      BY <2>1, <2>2, <2>3, <2>4
<1>6. CASE /\ SubjectFree(o.subject, o.acct)
           /\ account' = [account EXCEPT ![n] = "live"]
           /\ identity' = [IdentityRetired(o.acct) EXCEPT ![n] = o.subject]
           /\ email' = [email EXCEPT ![n] = o.email]
           /\ name' = [name EXCEPT ![n] = o.name]
           /\ nick' = [nick EXCEPT ![n] = InitialNickname(n)]
           /\ landed' = landed \cup {<<o.subject, n>>}
  <2>1. \A a \in Ids : account'[a] = IF a = n THEN "live" ELSE account[a]
        BY <1>6 DEF TypeOK
  <2>2. \A a \in Ids : identity'[a] = IF a = n THEN o.subject
                                     ELSE IF a = o.acct THEN Retired ELSE identity[a]
        BY <1>6 DEF IdentityRetired
  <2>3. JobsKnowAccounts' /\ job' \in [Workers -> Jobs]
    <3>1. /\ \A a \in Ids : account[a] # "none" => account'[a] # "none"
          /\ \A a \in Ids : account[a] = "deleted" => account'[a] = "deleted"
          BY <1>3, <2>1
    <3>2. \A a \in Ids : account[a] = "live" /\ account'[a] = "live" => identity'[a] = identity[a]
          BY <1>3, <2>2, AccountConstants
    <3> QED
        BY <1>4, <3>1, <3>2, WriteKeepsJobs
  <2>4. /\ nextId' \in 1..(MaxAccounts + 1)
        /\ legacy' \subseteq Ids /\ onboarded' \subseteq Ids
        BY <1>2, <1>4, AccountConstants DEF TypeOK, Ids
  <2>5. /\ account' \in [Ids -> {"none", "live", "deleted"}]
        /\ email' \in [Ids -> Subjects \cup {None}]
        /\ name' \in [Ids -> RealNames \cup {None}]
        BY <1>6 DEF TypeOK, Jobs
  <2>6. identity' \in [Ids -> Subjects \cup {Retired, None}]
    <3>1. IdentityRetired(o.acct) \in [Ids -> Subjects \cup {Retired, None}]
          BY DEF IdentityRetired, TypeOK
    <3> QED
        BY <3>1, <1>3, <1>6
  <2>7. /\ nick' \in [Ids -> Nicknames]
        /\ \A a \in Ids : account'[a] # "none" => nick'[a] # None
    <3>1. PICK m \in Nicknames : m = InitialNickname(n) /\ m # None
          BY AccountConstants DEF Nicknames, BuiltNicknames
    <3> QED
        BY <3>1, <1>6, <2>1 DEF TypeOK
  <2>8. landed' \subseteq Subjects \X Ids
        BY <1>3, <1>6 DEF TypeOK
  <2>9. TypeOK'
        BY <2>3, <2>4, <2>5, <2>6, <2>7, <2>8 DEF TypeOK
  <2>10. IdentityFollowsAccount'
    <3>1. \A b \in Ids \ {o.acct} : identity[b] # o.subject
          BY <1>6 DEF SubjectFree
    <3>2. ASSUME NEW a \in Ids, account'[a] = "live"
          PROVE  identity'[a] \in Subjects /\ \A b \in Ids \ {a} : identity'[b] # identity'[a]
      <4>1. CASE a = n
            BY <4>1, <3>1, <1>3, <2>2, AccountConstants
      <4>2. CASE a # n
        <5>1. account[a] = "live" /\ a # o.acct
              BY <4>2, <3>2, <2>1, <1>3, AccountConstants
        <5>2. identity[a] \in Subjects /\ \A b \in Ids \ {a} : identity[b] # identity[a]
              BY <5>1 DEF IdentityFollowsAccount
        <5> QED
            BY <4>2, <5>1, <5>2, <3>1, <2>2, AccountConstants
      <4> QED
          BY <4>1, <4>2
    <3>3. ASSUME NEW a \in Ids, account'[a] = "deleted", a \notin legacy'
          PROVE  identity'[a] = Retired
      <4>1. account[a] = "deleted" /\ a # n /\ a \notin legacy
            BY <3>3, <2>1, <1>4
      <4>2. identity[a] = Retired
            BY <4>1 DEF IdentityFollowsAccount
      <4> QED
          BY <4>1, <4>2, <2>2
    <3> QED
        BY <3>2, <3>3 DEF IdentityFollowsAccount
  <2>11. IdsInOrder'
    <3>1. ASSUME NEW a \in Ids
          PROVE  /\ account'[a] = "none" => identity'[a] = None
                 /\ a >= nextId' => account'[a] = "none"
          BY <1>2, <1>3, <1>4, <2>1, <2>2, AccountConstants DEF IdsInOrder, Ids, TypeOK
    <3> QED
        BY <3>1 DEF IdsInOrder
  <2>12. LandedAtHome'
    <3>1. ASSUME NEW p \in landed'
          PROVE  account'[p[2]] = "live" /\ identity'[p[2]] = p[1]
      <4>1. CASE p = <<o.subject, n>>
            BY <4>1, <2>1, <2>2
      <4>2. CASE p \in landed
        <5>1. p[2] \in Ids /\ account[p[2]] = "live" /\ identity[p[2]] = p[1]
              BY <4>2 DEF LandedAtHome, TypeOK
        <5> QED
            BY <5>1, <2>1, <2>2, <1>3, AccountConstants
      <4> QED
          BY <3>1, <4>1, <4>2, <1>6
    <3> QED
        BY <3>1 DEF LandedAtHome
  <2> QED
      BY <2>3, <2>9, <2>10, <2>11, <2>12
<1> QED
    BY <1>1, <1>2, <1>5, <1>6 DEF SignUp

(* WithdrawTx takes the account's identity along.                          *)
LEMMA WithdrawKeepsInv ==
    ASSUME NEW w \in Workers, AccountInv, WithdrawTx(w)
    PROVE  AccountInv'
<1> USE DEF AccountInv
<1>1. PICK o \in Jobs : o = job[w]
      BY DEF TypeOK
<1>2. o.acct \in Ids /\ account[o.acct] # "none"
      BY <1>1 DEF WithdrawTx, JobsKnowAccounts
<1>3. End(w) /\ UNCHANGED <<nextId, name, onboarded, legacy>>
      BY DEF WithdrawTx
<1>4. CASE UNCHANGED <<nick, account, email, identity, landed>>
  <2>1. JobsKnowAccounts' /\ job' \in [Workers -> Jobs]
        BY <1>3, <1>4, WriteKeepsJobs
  <2> QED
      BY <2>1, <1>3, <1>4
      DEF TypeOK, IdentityFollowsAccount, IdsInOrder, LandedAtHome
<1>5. CASE /\ nick' = [nick EXCEPT ![o.acct] = DeletedNickname(o.acct)]
           /\ account' = [account EXCEPT ![o.acct] = "deleted"]
           /\ email' = [email EXCEPT ![o.acct] = None]
           /\ identity' = IdentityRetired(o.acct)
           /\ landed' = {p \in landed : p[2] # o.acct}
  <2>1. \A a \in Ids : account'[a] = IF a = o.acct THEN "deleted" ELSE account[a]
        BY <1>5 DEF TypeOK
  <2>2. \A a \in Ids : identity'[a] = IF a = o.acct THEN Retired ELSE identity[a]
        BY <1>5 DEF IdentityRetired
  <2>3. JobsKnowAccounts' /\ job' \in [Workers -> Jobs]
        BY <1>2, <1>3, <2>1, <2>2, WriteKeepsJobs
  <2>4. /\ account' \in [Ids -> {"none", "live", "deleted"}]
        /\ email' \in [Ids -> Subjects \cup {None}]
        /\ identity' \in [Ids -> Subjects \cup {Retired, None}]
        BY <1>5 DEF TypeOK, IdentityRetired
  <2>5. /\ nick' \in [Ids -> Nicknames]
        /\ \A a \in Ids : account'[a] # "none" => nick'[a] # None
    <3>1. PICK m \in Nicknames : m = DeletedNickname(o.acct) /\ m # None
          BY <1>2, AccountConstants DEF Nicknames, BuiltNicknames
    <3> QED
        BY <3>1, <1>2, <1>5, <2>1 DEF TypeOK
  <2>6. TypeOK'
        BY <1>3, <1>5, <2>3, <2>4, <2>5 DEF TypeOK
  <2>7. IdentityFollowsAccount'
        BY <1>3, <2>1, <2>2, AccountConstants DEF IdentityFollowsAccount
  <2>8. IdsInOrder'
        BY <1>2, <1>3, <2>1, <2>2 DEF IdsInOrder
  <2>9. LandedAtHome'
        BY <1>5, <2>1, <2>2 DEF LandedAtHome, TypeOK
  <2> QED
      BY <2>3, <2>6, <2>7, <2>8, <2>9
<1> QED
    BY <1>1, <1>4, <1>5 DEF WithdrawTx

(* Onboarding and updates write names and nicknames only.                  *)
LEMMA ProfileKeepsInv ==
    ASSUME NEW w \in Workers, AccountInv, OnboardTx(w) \/ UpdateTx(w)
    PROVE  AccountInv'
<1> USE DEF AccountInv
<1>1. PICK o \in Jobs : o = job[w]
      BY DEF TypeOK
<1>2. /\ o.acct \in Ids
      /\ OnboardTx(w) => o.nick # None
      BY <1>1 DEF OnboardTx, UpdateTx, JobsKnowAccounts
<1>3. End(w) /\ UNCHANGED <<nextId, account, identity, email, legacy, landed>>
      BY DEF OnboardTx, UpdateTx
<1>4. JobsKnowAccounts' /\ job' \in [Workers -> Jobs]
      BY <1>3, WriteKeepsJobs
<1>5. PICK n \in RealNames \cup {None} : name' = name \/ name' = [name EXCEPT ![o.acct] = n]
  <2>1. name[o.acct] \in RealNames \cup {None} /\ o.name \in RealNames \cup {None}
        BY <1>2 DEF TypeOK, Jobs
  <2>2. CASE OnboardTx(w)
        BY <1>1, <2>1, <2>2, <1>2 DEF OnboardTx
  <2>3. CASE UpdateTx(w)
        BY <1>1, <2>1, <2>3 DEF UpdateTx
  <2> QED
      BY <2>2, <2>3
<1>6. nick' = nick \/ (o.nick # None /\ nick' = [nick EXCEPT ![o.acct] = o.nick])
      BY <1>1, <1>2 DEF OnboardTx, UpdateTx
<1>7. onboarded' \subseteq Ids
      BY <1>1, <1>2 DEF OnboardTx, UpdateTx, TypeOK
<1>8. name' \in [Ids -> RealNames \cup {None}]
      BY <1>5 DEF TypeOK
<1>9. /\ nick' \in [Ids -> Nicknames]
      /\ \A a \in Ids : account'[a] # "none" => nick'[a] # None
      BY <1>2, <1>3, <1>6 DEF TypeOK, Jobs
<1>10. TypeOK'
      BY <1>3, <1>4, <1>7, <1>8, <1>9 DEF TypeOK
<1>11. IdentityFollowsAccount' /\ IdsInOrder' /\ LandedAtHome'
      BY <1>3 DEF IdentityFollowsAccount, IdsInOrder, LandedAtHome
<1> QED
    BY <1>4, <1>10, <1>11

(* The invariant is inductive.                                             *)
LEMMA NextAccountInv == AccountInv /\ [Next]_vars => AccountInv'
<1> SUFFICES ASSUME AccountInv, [Next]_vars PROVE AccountInv'
    OBVIOUS
<1>1. CASE UNCHANGED vars
      BY <1>1 DEF vars, rows, AccountInv, TypeOK, IdentityFollowsAccount, IdsInOrder,
                  JobsKnowAccounts, LandedAtHome
<1>2. CASE Next
  <2>1. PICK w \in Workers : Handle(w)
        BY <1>2 DEF Next
  <2>2. CASE SignIn(w)
        BY <2>2, SignInKeepsInv
  <2>3. CASE SignUp(w)
        BY <2>3, SignUpKeepsInv
  <2>4. CASE WithdrawTx(w)
        BY <2>4, WithdrawKeepsInv
  <2>5. CASE CheckNickname(w)
        BY <2>5, CheckKeepsInv
  <2>6. CASE OnboardTx(w) \/ UpdateTx(w)
        BY <2>6, ProfileKeepsInv
  <2> QED
      BY <2>1, <2>2, <2>3, <2>4, <2>5, <2>6, ReadsKeepInv DEF Handle
<1> QED
    BY <1>1, <1>2

(* In every reachable state the whole invariant holds.                     *)
THEOREM AccountInvHolds == Spec => []AccountInv
  BY InitAccountInv, NextAccountInv, PTL DEF Spec

(* Type correctness.                                                       *)
THEOREM AccountTypeCorrect == Spec => []TypeOK
<1>1. AccountInv => TypeOK
      BY DEF AccountInv
<1> QED
    BY <1>1, AccountInvHolds, PTL

(* However sign-ups, sign-ins and withdrawals interleave, a live account   *)
(* has an identity no other account has, and a withdrawn one none.         *)
THEOREM IdentityAlwaysFollows == Spec => []IdentityFollowsAccount
<1>1. AccountInv => IdentityFollowsAccount
      BY DEF AccountInv
<1> QED
    BY <1>1, AccountInvHolds, PTL

(* However the sign-ins of one subject race, they end in one account.      *)
THEOREM OneHome == Spec => []OneHomePerSubject
<1>1. ASSUME AccountInv, NEW p \in landed, NEW q \in landed, p[1] = q[1]
      PROVE  p[2] = q[2]
  <2>1. p[2] \in Ids /\ q[2] \in Ids
        BY <1>1 DEF AccountInv, TypeOK
  <2>2. account[p[2]] = "live" /\ identity[q[2]] = identity[p[2]]
        BY <1>1 DEF AccountInv, LandedAtHome
  <2> QED
      BY <1>1, <2>1, <2>2 DEF AccountInv, IdentityFollowsAccount
<1>2. AccountInv => OneHomePerSubject
      BY <1>1 DEF OneHomePerSubject
<1> QED
    BY <1>2, AccountInvHolds, PTL

(* No sign-in lands on a withdrawn account, even if the two race.          *)
THEOREM WithdrawnNeverWelcome == Spec => []NeverLandsOnWithdrawn
<1>1. AccountInv => NeverLandsOnWithdrawn
      BY DEF AccountInv, LandedAtHome, NeverLandsOnWithdrawn
<1> QED
    BY <1>1, AccountInvHolds, PTL

(* A withdrawn, anonymous account without requests: no step of another     *)
(* account's request touches its row, and no request starts for it.        *)
LEMMA GoneStays ==
    ASSUME AccountInv, NEW a \in Ids, a \notin legacy, Gone(a), NEW w \in Workers, Handle(w)
    PROVE  Gone(a)'
<1> USE DEF AccountInv
<1>1. /\ account[a] = "deleted" /\ email[a] = None /\ nick[a] = DeletedNickname(a)
      /\ \A x \in Workers : job[x].acct # a
      BY DEF Gone, Anonymous
<1>2. identity[a] = Retired
      BY <1>1 DEF IdentityFollowsAccount
<1>3. ASSUME UNCHANGED <<account, email, nick>>, NEW j, j.acct # a,
             job' = [job EXCEPT ![w] = j]
      PROVE  Gone(a)'
      BY <1>1, <1>3 DEF Gone, Anonymous, TypeOK
<1>4. ASSUME account'[a] = account[a], email'[a] = email[a], nick'[a] = nick[a], End(w)
      PROVE  Gone(a)'
      BY <1>1, <1>4, AccountConstants DEF Gone, Anonymous, End, Idle, TypeOK
<1>5. ASSUME NEW s \in Subjects, NEW mail \in {s, None}, NEW display \in RealNames \cup {None},
             FindIdentity(w, s, mail, display)
      PROVE  Gone(a)'
  <2>1. UNCHANGED <<account, email, nick>>
        BY <1>5 DEF FindIdentity, rows
  <2>2. CASE \E b \in Ids : identity[b] = s /\ Start(w, SignInJob(b, s, mail, display))
    <3>1. PICK b \in Ids : identity[b] = s /\ Start(w, SignInJob(b, s, mail, display))
          BY <2>2
    <3>2. b # a
          BY <1>2, <3>1, AccountConstants
    <3>3. PICK j : j = SignInJob(b, s, mail, display)
          OBVIOUS
    <3>4. j.acct # a
          BY <3>2, <3>3 DEF SignInJob
    <3>5. job' = [job EXCEPT ![w] = j]
          BY <3>1, <3>3 DEF Start
    <3> QED
        BY <1>3, <2>1, <3>4, <3>5
  <2>3. CASE \E b \in Ids \cup {None} : b # a /\ Start(w, SignUpJob(b, s, mail, display))
    <3>1. PICK b \in Ids \cup {None} : b # a /\ Start(w, SignUpJob(b, s, mail, display))
          BY <2>3
    <3>2. PICK j : j = SignUpJob(b, s, mail, display)
          OBVIOUS
    <3>3. j.acct # a
          BY <3>1, <3>2 DEF SignUpJob
    <3>4. job' = [job EXCEPT ![w] = j]
          BY <3>1, <3>2 DEF Start
    <3> QED
        BY <1>3, <2>1, <3>3, <3>4
  <2> QED
      BY <1>2, <1>5, <2>2, <2>3, AccountConstants DEF FindIdentity
<1>6. ASSUME NEW b \in Ids, account[b] = "live", UNCHANGED <<account, email, nick>>,
             NEW j, j.acct = b, job' = [job EXCEPT ![w] = j]
      PROVE  Gone(a)'
      BY <1>1, <1>3, <1>6
<1>7. ASSUME NEW b \in Ids, AskWithdrawal(w, b)
      PROVE  Gone(a)'
  <2> DEFINE r == [pc |-> "withdrawing", acct |-> b, subject |-> None, email |-> None,
                   name |-> None, nick |-> None]
  <2>1. account[b] = "live" /\ job' = [job EXCEPT ![w] = r] /\ UNCHANGED <<account, email, nick>>
        BY <1>7 DEF AskWithdrawal, Start, Active, rows
  <2>2. r.acct = b
        OBVIOUS
  <2> HIDE DEF r
  <2> QED
      BY <1>6, <2>1, <2>2
<1>8. ASSUME NEW b \in Ids, NEW n \in Wanted, NEW nm \in RealNames \cup {None},
             AskOnboarding(w, b, n, nm)
      PROVE  Gone(a)'
  <2>0. PICK x : x = IF name[b] # None THEN None ELSE nm
        OBVIOUS
  <2> DEFINE r == [pc |-> "onboarding?", acct |-> b, subject |-> None, email |-> None,
                   name |-> x, nick |-> n]
  <2>1. account[b] = "live" /\ job' = [job EXCEPT ![w] = r] /\ UNCHANGED <<account, email, nick>>
        BY <1>8, <2>0 DEF AskOnboarding, Start, Active, rows
  <2>2. r.acct = b
        OBVIOUS
  <2> HIDE DEF r
  <2> QED
      BY <1>6, <2>1, <2>2
<1>9. ASSUME NEW b \in Ids, NEW n \in Wanted \cup {None}, NEW nm \in RealNames \cup {None},
             AskUpdate(w, b, n, nm)
      PROVE  Gone(a)'
  <2>0. PICK x : x = IF n # None THEN "updating?" ELSE "updating"
        OBVIOUS
  <2> DEFINE r == [pc |-> x, acct |-> b,
                   subject |-> None, email |-> None, name |-> nm, nick |-> n]
  <2>1. account[b] = "live" /\ job' = [job EXCEPT ![w] = r] /\ UNCHANGED <<account, email, nick>>
        BY <1>9, <2>0 DEF AskUpdate, Start, Active, rows
  <2>2. r.acct = b
        OBVIOUS
  <2> HIDE DEF r
  <2> QED
      BY <1>6, <2>1, <2>2
<1>10. CASE SignUp(w)
  <2>1. PICK n \in Ids : n = nextId
        BY <1>10, AccountConstants DEF SignUp, TypeOK, Ids
  <2>2. n # a
        BY <1>1, <2>1 DEF IdsInOrder, Ids, TypeOK
  <2>3. account'[a] = account[a] /\ email'[a] = email[a] /\ nick'[a] = nick[a]
        BY <1>10, <2>1, <2>2 DEF SignUp, TypeOK
  <2> QED
      BY <1>4, <1>10, <2>3 DEF SignUp
<1>11. CASE SignIn(w) \/ WithdrawTx(w) \/ OnboardTx(w) \/ UpdateTx(w)
  <2>1. account'[a] = account[a] /\ email'[a] = email[a] /\ nick'[a] = nick[a]
        BY <1>1, <1>11 DEF SignIn, WithdrawTx, OnboardTx, UpdateTx, TypeOK
  <2> QED
      BY <1>4, <1>11, <2>1 DEF SignIn, WithdrawTx, OnboardTx, UpdateTx
<1>12. CASE CheckNickname(w)
  <2>1. UNCHANGED <<account, email, nick>>
        BY <1>12 DEF CheckNickname, rows
  <2>2. CASE End(w)
        BY <1>4, <2>1, <2>2
  <2>3. CASE ~End(w)
    <3>1. PICK o \in Jobs : o = job[w]
          BY DEF TypeOK
    <3>2. PICK j : j = [o EXCEPT !.pc = IF o.pc = "onboarding?" THEN "onboarding" ELSE "updating"]
          OBVIOUS
    <3>3. j.acct # a
          BY <1>1, <3>1, <3>2 DEF Jobs
    <3>4. job' = [job EXCEPT ![w] = j]
          BY <1>12, <2>3, <3>1, <3>2 DEF CheckNickname, TypeOK
    <3> QED
        BY <1>3, <2>1, <3>3, <3>4
  <2> QED
      BY <2>2, <2>3
<1>13. CASE Fail(w)
       BY <1>4, <1>13 DEF Fail, rows
<1> QED
    BY <1>5, <1>7, <1>8, <1>9, <1>10, <1>11, <1>12, <1>13 DEF Handle

(* Once withdrawn and at rest, an account stays anonymous for good.        *)
THEOREM GoneForGood == Spec => WithdrawnStaysGone
<1>1. AccountInv /\ [Next]_vars => [\A a \in Ids \ legacy : Gone(a) => Gone(a)']_vars
  <2> SUFFICES ASSUME AccountInv, Next, NEW a \in Ids \ legacy, Gone(a)
               PROVE  Gone(a)'
      OBVIOUS
  <2>1. PICK w \in Workers : Handle(w)
        BY DEF Next
  <2> QED
      BY <2>1, GoneStays
<1> QED
    BY <1>1, AccountInvHolds, PTL DEF Spec, WithdrawnStaysGone

-----------------------------------------------------------------------------
(* Customers whose requests come one at a time. *)

(* What a lone request read of its account still holds when it writes.     *)
ReadStill(j) ==
    /\ j.pc \notin {"idle", "signingUp"} => account[j.acct] = "live"
    /\ j.pc = "signingIn" => /\ email[j.acct] # None => j.email = email[j.acct]
                             /\ name[j.acct] # None => j.name = name[j.acct]

AloneAccounts ==
    /\ \A w \in Workers : ReadStill(job[w])
    /\ WithdrawnIsAnonymous

(* A lone request that reads its own, live account.                        *)
LEMMA AloneReadKeeps ==
    ASSUME NEW w, Workers = {w}, AccountInv, AloneAccounts, NEW j,
           job' = [job EXCEPT ![w] = j], UNCHANGED rows, ReadStill(j)
    PROVE  AloneAccounts'
<1>1. job'[w] = j
      BY DEF AccountInv, TypeOK
<1>2. ReadStill(job[w])'
      BY <1>1 DEF ReadStill, rows
<1> QED
    BY <1>2 DEF AloneAccounts, WithdrawnIsAnonymous, Anonymous, rows

(* A lone request that ends: a row that changes is live afterwards, or     *)
(* anonymous.                                                              *)
LEMMA AloneEndKeeps ==
    ASSUME NEW w, Workers = {w}, AccountInv, AloneAccounts, End(w),
           \A a \in Ids : \/ account'[a] = account[a] /\ email'[a] = email[a] /\ nick'[a] = nick[a]
                          \/ account'[a] = "live"
                          \/ Anonymous(a)'
    PROVE  AloneAccounts'
<1>1. job'[w] = Idle
      BY DEF End, AccountInv, TypeOK
<1>2. ReadStill(job[w])'
      BY <1>1 DEF ReadStill, Idle
<1> QED
    BY <1>2 DEF AloneAccounts, WithdrawnIsAnonymous, Anonymous

LEMMA AloneHandleKeeps ==
    ASSUME NEW w, Workers = {w}, AccountInv, AloneAccounts, Handle(w)
    PROVE  AloneAccounts'
<1> USE DEF AccountInv
<1>0. PICK o \in Jobs : o = job[w]
      BY DEF TypeOK
<1>1. ReadStill(o) /\ (o.pc \notin {"idle", "signingUp"} => o.acct \in Ids)
      BY <1>0 DEF AloneAccounts, JobsKnowAccounts
<1>2. ASSUME NEW s \in Subjects, NEW mail \in {s, None}, NEW display \in RealNames \cup {None},
             FindIdentity(w, s, mail, display)
      PROVE  AloneAccounts'
  <2>1. UNCHANGED rows
        BY <1>2 DEF FindIdentity
  <2>2. PICK j : job' = [job EXCEPT ![w] = j] /\ ReadStill(j)
    <3>1. CASE \E a \in Ids : Active(a) /\ Start(w, SignInJob(a, s, mail, display))
      <4>1. PICK a \in Ids : Active(a) /\ Start(w, SignInJob(a, s, mail, display))
            BY <3>1
      <4>2. PICK j : j = SignInJob(a, s, mail, display)
            OBVIOUS
      <4>3. ReadStill(j)
            BY <4>1, <4>2 DEF ReadStill, SignInJob, Active
      <4> QED
          BY <4>1, <4>2, <4>3 DEF Start
    <3>2. CASE \E a \in Ids \cup {None} : Start(w, SignUpJob(a, s, mail, display))
      <4>1. PICK a \in Ids \cup {None} : Start(w, SignUpJob(a, s, mail, display))
            BY <3>2
      <4>2. PICK j : j = SignUpJob(a, s, mail, display)
            OBVIOUS
      <4>3. ReadStill(j)
            BY <4>2 DEF ReadStill, SignUpJob
      <4> QED
          BY <4>1, <4>2, <4>3 DEF Start
    <3> QED
        BY <1>2, <3>1, <3>2 DEF FindIdentity
  <2> QED
      BY <2>1, <2>2, AloneReadKeeps
<1>3. ASSUME NEW a \in Ids,
             \/ AskWithdrawal(w, a)
             \/ \E n \in Wanted, nm \in RealNames \cup {None} : AskOnboarding(w, a, n, nm)
             \/ \E n \in Wanted \cup {None}, nm \in RealNames \cup {None} : AskUpdate(w, a, n, nm)
      PROVE  AloneAccounts'
  <2>1. account[a] = "live" /\ UNCHANGED rows
        BY <1>3 DEF AskWithdrawal, AskOnboarding, AskUpdate, Active
  <2>2. PICK pc \in {"withdrawing", "onboarding?", "updating?", "updating"},
             nm \in RealNames \cup {None}, n \in Wanted \cup {None} :
          Start(w, [pc |-> pc, acct |-> a, subject |-> None, email |-> None,
                    name |-> nm, nick |-> n])
        BY <1>3 DEF AskWithdrawal, AskOnboarding, AskUpdate
  <2>3. PICK j : j = [pc |-> pc, acct |-> a, subject |-> None, email |-> None,
                      name |-> nm, nick |-> n]
        OBVIOUS
  <2>4. ReadStill(j)
        BY <2>1, <2>3 DEF ReadStill
  <2> QED
      BY <2>1, <2>2, <2>3, <2>4, AloneReadKeeps DEF Start
<1>4. CASE CheckNickname(w) /\ ~End(w)
  <2>1. PICK j : j = [o EXCEPT !.pc = IF o.pc = "onboarding?" THEN "onboarding" ELSE "updating"]
        OBVIOUS
  <2>2. job' = [job EXCEPT ![w] = j] /\ UNCHANGED rows
        BY <1>0, <1>4, <2>1 DEF CheckNickname, TypeOK
  <2>3. ReadStill(j)
        BY <1>0, <1>1, <1>4, <2>1 DEF ReadStill, CheckNickname, Jobs
  <2> QED
      BY <2>2, <2>3, AloneReadKeeps
<1>5. CASE (CheckNickname(w) /\ End(w)) \/ Fail(w)
      BY <1>5, AloneEndKeeps DEF CheckNickname, Fail, rows
<1>6. CASE SignIn(w) \/ OnboardTx(w) \/ UpdateTx(w)
  <2>1. account[o.acct] = "live" /\ account' = account
        BY <1>0, <1>1, <1>6 DEF SignIn, OnboardTx, UpdateTx, ReadStill
  <2>2. \A a \in Ids \ {o.acct} : email'[a] = email[a] /\ nick'[a] = nick[a]
        BY <1>0, <1>6 DEF SignIn, OnboardTx, UpdateTx, TypeOK
  <2> QED
      BY <1>6, <2>1, <2>2, AloneEndKeeps DEF SignIn, OnboardTx, UpdateTx
<1>7. CASE SignUp(w)
  <2>1. \A a \in Ids \ {nextId} : account'[a] = account[a] /\ email'[a] = email[a] /\ nick'[a] = nick[a]
        BY <1>7 DEF SignUp, TypeOK
  <2>2. nextId \in Ids => \/ account'[nextId] = "live"
                          \/ UNCHANGED <<account, email, nick>>
        BY <1>7 DEF SignUp, TypeOK
  <2> QED
      BY <1>7, <2>1, <2>2, AloneEndKeeps DEF SignUp
<1>8. CASE WithdrawTx(w)
  <2>1. o.acct \in Ids
        BY <1>0, <1>1, <1>8 DEF WithdrawTx
  <2>2. \A a \in Ids \ {o.acct} : account'[a] = account[a] /\ email'[a] = email[a] /\ nick'[a] = nick[a]
        BY <1>0, <1>8 DEF WithdrawTx, TypeOK
  <2>3. UNCHANGED <<account, email, nick>> \/ Anonymous(o.acct)'
        BY <1>0, <1>8, <2>1 DEF WithdrawTx, TypeOK, Anonymous
  <2> QED
      BY <1>8, <2>2, <2>3, AloneEndKeeps DEF WithdrawTx
<1> QED
    BY <1>2, <1>3, <1>4, <1>5, <1>6, <1>7, <1>8 DEF Handle

LEMMA AloneAccountsHold ==
    ASSUME NEW w, Workers = {w}
    PROVE  Spec => []AloneAccounts
<1>1. Init => AloneAccounts
  <2> SUFFICES ASSUME Init PROVE AloneAccounts
      OBVIOUS
  <2>1. \A x \in Workers : ReadStill(job[x])
        BY DEF Init, Idle, ReadStill
  <2>2. WithdrawnIsAnonymous
        BY DEF Init, EmptyRows, LegacyRows, WithdrawnIsAnonymous, Anonymous
  <2> QED
      BY <2>1, <2>2 DEF AloneAccounts
<1>2. AccountInv /\ AloneAccounts /\ [Next]_vars => AloneAccounts'
  <2> SUFFICES ASSUME AccountInv, AloneAccounts, [Next]_vars PROVE AloneAccounts'
      OBVIOUS
  <2>1. CASE UNCHANGED vars
        BY <2>1 DEF vars, rows, AloneAccounts, ReadStill, WithdrawnIsAnonymous, Anonymous
  <2> QED
      BY <2>1, AloneHandleKeeps DEF Next
<1> QED
    BY <1>1, <1>2, AccountInvHolds, PTL DEF Spec

(* Of requests one after the other, dying or not: a withdrawn account has  *)
(* no e-mail address and the nickname softDeleteAccount builds.            *)
THEOREM AloneWithdrawnIsAnonymous ==
    ASSUME NEW w, Workers = {w}
    PROVE  Spec => []WithdrawnIsAnonymous
BY AloneAccountsHold, PTL DEF AloneAccounts

(* Of requests one after the other: updateExistingIdentity overwrites no   *)
(* e-mail address and no name.                                             *)
THEOREM AloneSignInFillsBlanks ==
    ASSUME NEW w, Workers = {w}
    PROVE  Spec => SignInOnlyFillsBlanks
<1>1. AccountInv /\ AloneAccounts /\ [Next]_vars => [SignInFillsBlanks]_vars
  <2> SUFFICES ASSUME AccountInv, AloneAccounts, Next, job[w].pc = "signingIn",
                      job'[w].pc = "idle", NEW a \in Ids
               PROVE  /\ email[a] # None => email'[a] = email[a]
                      /\ name[a] # None => name'[a] = name[a]
      BY DEF SignInFillsBlanks
  <2>1. CASE SignIn(w)
    <3>1. ReadStill(job[w]) /\ job[w].acct \in Ids
          BY <2>1 DEF AloneAccounts, AccountInv, JobsKnowAccounts
    <3>2. /\ email' = [email EXCEPT ![job[w].acct] = job[w].email]
          /\ name' = [name EXCEPT ![job[w].acct] = job[w].name]
          BY <2>1 DEF SignIn
    <3> QED
        BY <3>1, <3>2 DEF ReadStill, AccountInv, TypeOK
  <2>2. CASE Fail(w)
        BY <2>2 DEF Fail, rows
  <2> QED
      BY <2>1, <2>2 DEF Next, Handle, FindIdentity, AskWithdrawal, AskOnboarding, AskUpdate, Start,
           Idle, SignUp, WithdrawTx, CheckNickname, OnboardTx, UpdateTx
<1> QED
    BY <1>1, AccountInvHolds, AloneAccountsHold, PTL DEF Spec, SignInOnlyFillsBlanks
=============================================================================
