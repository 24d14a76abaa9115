--------------------------- MODULE RspSessionProofs ---------------------------
(***************************************************************************)
(* What the download session guarantees for any number of transactions,    *)
(* servers and challenges: no interleaving of repeated, delayed or mixed   *)
(* messages installs a profile under a transaction that was not signed for *)
(* the latest challenge, or was installed or cancelled before.             *)
(*                                                                         *)
(* The invariant that carries this is SessionInv. Its heart is Retired: a  *)
(* transaction that was installed or cancelled was signed for a challenge  *)
(* that no session holds any more, and none will hold again, since         *)
(* challenges only grow. A session that is authenticated holds the latest  *)
(* challenge, so the transaction it was authenticated for is not retired.  *)
(*                                                                         *)
(* The second part is about commands that come through the dispatcher, and *)
(* a client that knows only their responses: DownloadInv ties each of its  *)
(* positions to a state of the session.                                    *)
(***************************************************************************)
EXTENDS ProfileDownload, ProfileStoreProofs

\* The one message a transaction was signed in.
TransactionsUnique ==
  \A m, n \in signed : m.transaction_id = n.transaction_id => m = n

\* A session holds the latest challenge, and no message is signed for a later one.
ChallengesCurrent ==
  /\ HasSession => active_session.euicc_challenge = challenge_seq
  /\ \A m \in signed : m.euicc_challenge <= challenge_seq

\* Only authentication gives a session its transaction.
NamedWhenAuthenticated ==
  HasSession => (active_session.transaction_id # NoTransaction => active_session.authenticated)

IsRetired(t) ==
  \E m \in signed : /\ m.transaction_id = t
                    /\ HasSession => m.euicc_challenge < challenge_seq

Retired ==
  /\ \A i \in DOMAIN installs : IsRetired(installs[i])
  /\ \A t \in cancelled : IsRetired(t)

SessionInv ==
  /\ StoreInv
  /\ SessionTypeOK
  /\ SessionAuthentic
  /\ TransactionsUnique
  /\ ChallengesCurrent
  /\ NamedWhenAuthenticated
  /\ KeysOfThisSession
  /\ Retired
  /\ InstalledOnce
  /\ CancelledNeverInstalled

\* What the invariant says of the session alone, in one place.
SessionFacts ==
  /\ active_session \in DownloadSession \union {NoSession}
  /\ HasSession => active_session \in DownloadSession
  /\ challenge_seq \in Nat
  /\ signed \subseteq Signed1
  /\ installs \in Seq(Transactions)
  /\ cancelled \subseteq Transactions

LEMMA SessionTypes ==
  ASSUME SessionInv
  PROVE  SessionFacts
BY DEF SessionInv, SessionTypeOK, SessionFacts, HasSession

\* The transaction of an authenticated session was neither installed nor cancelled.
LEMMA AuthenticatedIsNotRetired ==
  ASSUME SessionInv, HasSession, active_session.authenticated
  PROVE  /\ active_session.transaction_id \in Transactions
         /\ \E m \in signed : /\ m.transaction_id = active_session.transaction_id
                              /\ m.euicc_challenge = challenge_seq
                              /\ m.server = active_session.server_address
         /\ ~IsRetired(active_session.transaction_id)
<1> DEFINE basis == [transaction_id |-> active_session.transaction_id,
                     euicc_challenge |-> active_session.euicc_challenge,
                     server |-> active_session.server_address]
<1>1. basis \in signed
  BY DEF SessionInv, SessionAuthentic
<1>2. basis \in Signed1 /\ challenge_seq \in Nat
  BY <1>1, SessionTypes DEF SessionFacts
<1>3. active_session.euicc_challenge = challenge_seq
  BY DEF SessionInv, ChallengesCurrent
<1>4. basis.transaction_id \in Transactions
  BY <1>2 DEF Signed1
<1>5. ASSUME NEW m \in signed, m.transaction_id = basis.transaction_id
      PROVE  ~(m.euicc_challenge < challenge_seq)
  <2>1. m = basis
    BY <1>1, <1>5 DEF SessionInv, TransactionsUnique
  <2> QED
    BY <1>2, <1>3, <2>1
<1> QED
  BY <1>1, <1>3, <1>4, <1>5 DEF IsRetired

-----------------------------------------------------------------------------
(* What every step guarantees *)

InstallStep ==
  installs' # installs =>
    /\ \E m \in signed :
         /\ m.transaction_id = Last(installs')
         /\ m.euicc_challenge = challenge_seq
         /\ m.server = Last(profiles').notification_address
         /\ m.server = Last(notifications').notification_address
    /\ active_session' = NoSession

GoodStep == SessionInv' /\ InstallStep

\* A step that changes the session, in place or to none, and nothing else but
\* the answer. It opens no session and gives none a later challenge.
LEMMA SessionMoveFacts ==
  ASSUME SessionInv,
         UNCHANGED storeVars, result' \in Answers,
         UNCHANGED <<challenge_seq, signed, historyVars>>,
         active_session' \in DownloadSession \union {NoSession},
         HasSession' => HasSession,
         HasSession' => active_session'.euicc_challenge = active_session.euicc_challenge,
         SessionAuthentic', NamedWhenAuthenticated', KeysOfThisSession'
  PROVE  SessionInv'
<1>1. StoreInv'
  BY SameStoreFacts DEF SessionInv, SafeStep
<1>2. SessionTypeOK'
  BY <1>1 DEF SessionInv, SessionTypeOK, StoreInv, historyVars
<1>3. TransactionsUnique' /\ ChallengesCurrent'
  BY DEF SessionInv, TransactionsUnique, ChallengesCurrent
<1>4. \A t : IsRetired(t) => IsRetired(t)'
  BY DEF IsRetired
<1>5. Retired'
  BY <1>4 DEF SessionInv, Retired, historyVars
<1>6. InstalledOnce' /\ CancelledNeverInstalled'
  BY DEF SessionInv, InstalledOnce, CancelledNeverInstalled, historyVars, IsInjective
<1> QED
  BY <1>1, <1>2, <1>3, <1>5, <1>6 DEF SessionInv

\* A step that leaves everything but the answer as it was.
LEMMA NeutralFacts ==
  ASSUME SessionInv,
         UNCHANGED storeVars, result' \in Answers,
         UNCHANGED <<sessionVars, signed, historyVars>>
  PROVE  GoodStep
<1>1. active_session' \in DownloadSession \union {NoSession}
  BY SessionTypes DEF SessionFacts, sessionVars
<1>2. SessionAuthentic' /\ NamedWhenAuthenticated' /\ KeysOfThisSession'
  BY DEF SessionInv, SessionAuthentic, NamedWhenAuthenticated, KeysOfThisSession, HasSession,
         sessionVars
<1>3. SessionInv'
  BY <1>1, <1>2, SessionMoveFacts DEF sessionVars, HasSession
<1> QED
  BY <1>3 DEF GoodStep, InstallStep, historyVars

LEMMA RefuseSessionFacts ==
  ASSUME SessionInv, NEW op \in Command, NEW code \in Nat, RefuseSession(op, code)
  PROVE  GoodStep
<1>1. result' \in Answers
  BY DEF RefuseSession, Refuse, Answer, Answers
<1> QED
  BY <1>1, NeutralFacts DEF RefuseSession, Refuse

-----------------------------------------------------------------------------
(* SM-DP+ servers *)

LEMMA SignServerSigned1Facts ==
  ASSUME SessionInv, SignServerSigned1
  PROVE  SessionInv'
<1>1. PICK server \in Addresses, t \in Transactions, c \in 1..challenge_seq :
        /\ \A m \in signed : m.transaction_id # t
        /\ signed' = signed \union
             {[transaction_id |-> t, euicc_challenge |-> c, server |-> server]}
        /\ UNCHANGED <<vars, sessionVars, historyVars>>
  BY DEF SignServerSigned1
<1> DEFINE new == [transaction_id |-> t, euicc_challenge |-> c, server |-> server]
<1>2. challenge_seq \in Nat
  BY SessionTypes DEF SessionFacts
<1>3. new \in Signed1 /\ new.transaction_id = t /\ new.euicc_challenge <= challenge_seq
  BY <1>2 DEF Signed1
<1>4. signed' = signed \union {new}
  BY <1>1
<1> HIDE DEF new
<1>5. StoreInv'
  <2>1. result' \in Answers /\ UNCHANGED storeVars
    BY <1>1, StoreInvParts DEF vars, SessionInv
  <2> QED
    BY <2>1, SameStoreFacts DEF SessionInv, SafeStep
<1>6. SessionTypeOK'
  BY <1>1, <1>3, <1>4, <1>5
     DEF SessionInv, SessionTypeOK, StoreInv, sessionVars, historyVars
<1>7. SessionAuthentic' /\ NamedWhenAuthenticated' /\ KeysOfThisSession'
  BY <1>1, <1>4
     DEF SessionInv, SessionAuthentic, NamedWhenAuthenticated, KeysOfThisSession, HasSession,
         sessionVars
<1>8. TransactionsUnique' /\ ChallengesCurrent'
  BY <1>1, <1>3, <1>4
     DEF SessionInv, TransactionsUnique, ChallengesCurrent, HasSession, sessionVars
<1>9. \A u : IsRetired(u) => IsRetired(u)'
  BY <1>1, <1>4 DEF IsRetired, HasSession, sessionVars
<1>10. Retired'
  BY <1>1, <1>9 DEF SessionInv, Retired, historyVars
<1>11. InstalledOnce' /\ CancelledNeverInstalled'
  BY <1>1 DEF SessionInv, InstalledOnce, CancelledNeverInstalled, IsInjective, historyVars
<1> QED
  BY <1>5, <1>6, <1>7, <1>8, <1>10, <1>11 DEF SessionInv

-----------------------------------------------------------------------------
(* Handlers *)

\* The new challenge retires every message signed so far.
LEMMA GetEuiccChallengeFacts ==
  ASSUME SessionInv, GetEuiccChallenge
  PROVE  GoodStep
<1> DEFINE fresh == FreshSession(challenge_seq + 1)
<1>1. /\ challenge_seq' = challenge_seq + 1
      /\ active_session' = fresh
      /\ result' \in Answers /\ result'.code = 0
      /\ UNCHANGED <<storeVars, signed, installs, cancelled>>
  BY DEF GetEuiccChallenge, SessionAfterChallenge, Answer, Answers, Command, historyVars
<1>2. challenge_seq \in Nat /\ signed \subseteq Signed1
  BY SessionTypes DEF SessionFacts
<1>3. /\ fresh \in DownloadSession
      /\ fresh.euicc_challenge = challenge_seq + 1
      /\ fresh.transaction_id = NoTransaction
      /\ ~fresh.authenticated /\ ~fresh.prepared
      /\ fresh.session_keys = NoKeys
  BY <1>2 DEF FreshSession, DownloadSession
<1> HIDE DEF fresh
<1>4. StoreInv'
  BY <1>1, SameStoreFacts DEF SessionInv, SafeStep
<1>5. SessionTypeOK'
  BY <1>1, <1>2, <1>3, <1>4 DEF SessionInv, SessionTypeOK, StoreInv
<1>6. SessionAuthentic' /\ NamedWhenAuthenticated' /\ KeysOfThisSession'
  BY <1>1, <1>3 DEF SessionAuthentic, NamedWhenAuthenticated, KeysOfThisSession, HasSession
<1>7. \A m \in signed : m.euicc_challenge \in Nat /\ m.euicc_challenge <= challenge_seq
  BY <1>2 DEF SessionInv, ChallengesCurrent, Signed1
<1>8. TransactionsUnique' /\ ChallengesCurrent'
  BY <1>1, <1>2, <1>3, <1>7
     DEF SessionInv, TransactionsUnique, ChallengesCurrent, HasSession
<1>9. \A u : IsRetired(u) => IsRetired(u)'
  BY <1>1, <1>2, <1>7 DEF IsRetired
<1>10. Retired'
  BY <1>1, <1>9 DEF SessionInv, Retired
<1>11. InstalledOnce' /\ CancelledNeverInstalled'
  BY <1>1 DEF SessionInv, InstalledOnce, CancelledNeverInstalled, IsInjective
<1>12. SessionInv'
  BY <1>4, <1>5, <1>6, <1>8, <1>10, <1>11 DEF SessionInv
<1> QED
  BY <1>1, <1>12 DEF GoodStep, InstallStep

LEMMA AuthenticateServerFacts ==
  ASSUME SessionInv, AuthenticateServer
  PROVE  GoodStep
<1>1. ASSUME NEW code \in {2, 3, 4, 6, 8, Raised}, RefuseSession("authenticate", code)
      PROVE  GoodStep
  BY <1>1, RefuseSessionFacts DEF Command, Raised
<1>2. ASSUME NEW m \in signed, HasSession, AnswersChallenge(m),
             active_session' =
               [active_session EXCEPT !.transaction_id = m.transaction_id,
                                      !.server_address = m.server,
                                      !.authenticated = TRUE],
             \E code \in {0, Raised} : Answer("authenticate", code),
             UNCHANGED <<storeVars, challenge_seq, signed, historyVars>>
      PROVE  GoodStep
  <2>1. m \in Signed1 /\ active_session \in DownloadSession
    BY <1>2, SessionTypes DEF SessionFacts
  <2>2. /\ active_session' \in DownloadSession
        /\ active_session'.euicc_challenge = active_session.euicc_challenge
        /\ active_session'.transaction_id = m.transaction_id
        /\ active_session'.server_address = m.server
        /\ active_session'.authenticated
        /\ active_session'.session_keys = active_session.session_keys
        /\ active_session'.euicc_otpk = active_session.euicc_otpk
    BY <1>2, <2>1 DEF DownloadSession, Signed1
  <2>3. m = [transaction_id |-> active_session'.transaction_id,
             euicc_challenge |-> active_session'.euicc_challenge,
             server |-> active_session'.server_address]
    BY <1>2, <2>1, <2>2 DEF Signed1, AnswersChallenge
  <2>4. SessionAuthentic' /\ NamedWhenAuthenticated'
    BY <1>2, <2>2, <2>3 DEF SessionAuthentic, NamedWhenAuthenticated
  <2>5. KeysOfThisSession'
    BY <1>2, <2>2 DEF SessionInv, KeysOfThisSession
  <2>6. result' \in Answers
    BY <1>2 DEF Answer, Answers, Command, Raised
  <2>7. SessionInv'
    BY <1>2, <2>2, <2>4, <2>5, <2>6, SessionMoveFacts
  <2> QED
    BY <1>2, <2>6, <2>7 DEF GoodStep, InstallStep, historyVars
<1> QED
  BY <1>1, <1>2 DEF AuthenticateServer

\* A session of the same transaction, server and challenge that is no less
\* authenticated, answered without an error or after a raise.
LEMMA SameTransactionFacts ==
  ASSUME SessionInv, HasSession, active_session.authenticated,
         NEW op \in Command, NEW code \in {0, Raised}, Answer(op, code),
         UNCHANGED <<storeVars, challenge_seq, signed, historyVars>>,
         active_session' \in DownloadSession,
         active_session'.transaction_id = active_session.transaction_id,
         active_session'.server_address = active_session.server_address,
         active_session'.euicc_challenge = active_session.euicc_challenge,
         active_session'.authenticated,
         KeysOfThisSession'
  PROVE  GoodStep
<1>1. result' \in Answers /\ result'.code \in {0, Raised}
  BY DEF Answer, Answers, Raised
<1>2. SessionAuthentic' /\ NamedWhenAuthenticated'
  BY DEF SessionInv, SessionAuthentic, NamedWhenAuthenticated
<1>3. SessionInv'
  BY <1>1, <1>2, SessionMoveFacts
<1> QED
  BY <1>1, <1>3 DEF GoodStep, InstallStep, historyVars

LEMMA PrepareDownloadFacts ==
  ASSUME SessionInv, NEW t \in Transactions \union {NoTransaction}, PrepareDownload(t)
  PROVE  GoodStep
<1>1. ASSUME NEW code \in {2, 5, 127}, RefuseSession("prepare", code)
      PROVE  GoodStep
  BY <1>1, RefuseSessionFacts DEF Command
<1> DEFINE otpk == active_session.euicc_otpk + 1
           keys == [transaction_id |-> t, otpk |-> otpk]
           renewed == [active_session EXCEPT !.euicc_otpk = otpk]
<1>2. ASSUME IsAuthenticated, t = active_session.transaction_id,
             \/ /\ \E derived \in {keys, active_session.session_keys} :
                     active_session' = [renewed EXCEPT !.session_keys = derived,
                                                       !.prepared = TRUE]
                /\ \E code \in {0, Raised} : Answer("prepare", code)
             \/ /\ active_session' = renewed
                /\ Answer("prepare", Raised),
             UNCHANGED <<storeVars, challenge_seq, signed, historyVars>>
      PROVE  GoodStep
  <2>1. HasSession /\ active_session.authenticated
    BY <1>2 DEF IsAuthenticated
  <2>2. active_session \in DownloadSession
    BY <2>1, SessionTypes DEF SessionFacts
  <2>3. t \in Transactions
    BY <1>2, <2>1, AuthenticatedIsNotRetired
  <2>4. otpk \in Nat \ {0}
    BY <2>2 DEF DownloadSession
  <2>5. keys \in SessionKeys
    BY <2>3, <2>4 DEF SessionKeys
  <2> HIDE DEF otpk, keys
  <2>6. \E code \in {0, Raised} : Answer("prepare", code)
    BY <1>2
  <2>7. \/ \E derived \in {keys, active_session.session_keys} :
             active_session' = [renewed EXCEPT !.session_keys = derived, !.prepared = TRUE]
        \/ active_session' = renewed
    BY <1>2
  <2>8. active_session' \in DownloadSession
    BY <2>2, <2>4, <2>5, <2>7 DEF DownloadSession
  <2>9. /\ active_session'.transaction_id = active_session.transaction_id
        /\ active_session'.server_address = active_session.server_address
        /\ active_session'.euicc_challenge = active_session.euicc_challenge
        /\ active_session'.authenticated
    BY <2>1, <2>2, <2>7 DEF DownloadSession
  <2>10. active_session'.euicc_otpk = otpk /\ active_session.euicc_otpk <= otpk
    <3>1. active_session'.euicc_otpk = otpk
      BY <2>2, <2>7 DEF DownloadSession
    <3>2. active_session.euicc_otpk \in Nat
      BY <2>2 DEF DownloadSession
    <3> QED
      BY <3>1, <3>2 DEF otpk
  <2>11. active_session'.session_keys \in {active_session.session_keys, keys}
    BY <2>2, <2>7 DEF DownloadSession
  <2>12. KeysOfThisSession'
    <3>1. CASE active_session'.session_keys = keys
      <4>1. keys.otpk = otpk /\ keys.transaction_id = t
        BY DEF keys
      <4>2. \E m \in signed : /\ m.transaction_id = t
                             /\ m.euicc_challenge = active_session.euicc_challenge
        BY <1>2, <2>1 DEF SessionInv, SessionAuthentic
      <4> QED
        BY <1>2, <2>4, <2>9, <2>10, <3>1, <4>1, <4>2 DEF KeysOfThisSession
    <3>2. CASE active_session'.session_keys = active_session.session_keys
      <4>1. SUFFICES ASSUME active_session.session_keys # NoKeys
                     PROVE  KeysOfThisSession'
        BY <3>2 DEF KeysOfThisSession
      <4>2. active_session.session_keys.otpk \in Nat /\ active_session.euicc_otpk \in Nat
        BY <2>2, <4>1 DEF DownloadSession, SessionKeys
      <4>3. /\ active_session.session_keys.otpk <= active_session.euicc_otpk
            /\ \E m \in signed :
                 /\ m.transaction_id = active_session.session_keys.transaction_id
                 /\ m.euicc_challenge = active_session.euicc_challenge
        BY <2>1, <4>1 DEF SessionInv, KeysOfThisSession
      <4> QED
        BY <1>2, <2>4, <2>9, <2>10, <3>2, <4>2, <4>3 DEF KeysOfThisSession
    <3> QED
      BY <2>11, <3>1, <3>2
  <2>13. "prepare" \in Command
    BY DEF Command
  <2> QED
    BY <1>2, <2>1, <2>6, <2>8, <2>9, <2>12, <2>13, SameTransactionFacts
<1> QED
  BY <1>1, <1>2 DEF PrepareDownload

\* The installation retires the session's transaction, which was not retired.
LEMMA InstallSessionFacts ==
  ASSUME SessionInv, NEW bpp \in BoundProfilePackage,
         IsPrepared, HasRoomFor(bpp.len),
         Install(bpp.iccid, active_session.server_address, bpp.len),
         installs' = Append(installs, active_session.transaction_id),
         active_session' = NoSession,
         Answer("install", 0),
         UNCHANGED <<challenge_seq, signed, cancelled>>
  PROVE  GoodStep
<1> DEFINE address == active_session.server_address
<1>0. PICK t : t = active_session.transaction_id
  OBVIOUS
<1>1. HasSession /\ active_session.prepared /\ active_session.authenticated
  BY DEF IsPrepared, SessionInv, SessionAuthentic
<1>2. /\ t \in Transactions
      /\ \E m \in signed : /\ m.transaction_id = t
                           /\ m.euicc_challenge = challenge_seq
                           /\ m.server = address
      /\ ~IsRetired(t)
  BY <1>0, <1>1, AuthenticatedIsNotRetired
<1>3. address \in Addresses \union {NoAddress}
  BY <1>1, SessionTypes DEF SessionFacts, DownloadSession
<1>4. bpp.iccid \in Iccids /\ bpp.len \in Nat
  BY NvmAssumption DEF BoundProfilePackage
<1>5. SafeStep
  BY <1>3, <1>4, InstallFacts DEF SessionInv
<1>6. result'.code = 0
  BY DEF Answer
<1>7. ~HasSession'
  BY DEF HasSession
<1>8. installs \in Seq(Transactions)
  BY SessionTypes DEF SessionFacts
<1>9. /\ installs' \in Seq(Transactions)
      /\ Len(installs') = Len(installs) + 1
      /\ \A i \in 1..Len(installs) : installs'[i] = installs[i]
      /\ installs'[Len(installs) + 1] = t
  BY <1>0, <1>2, <1>8, AppendProperties
<1>10. /\ Len(installs) \in Nat
       /\ DOMAIN installs = 1..Len(installs)
       /\ DOMAIN installs' = 1..(Len(installs) + 1)
  BY <1>8, <1>9, LenProperties
<1>11. SessionTypeOK'
  BY <1>5, <1>9 DEF SafeStep, StoreInv, SessionInv, SessionTypeOK
<1>12. /\ SessionAuthentic' /\ NamedWhenAuthenticated' /\ KeysOfThisSession'
      /\ TransactionsUnique' /\ ChallengesCurrent'
  BY <1>7 DEF SessionInv, SessionAuthentic, NamedWhenAuthenticated, KeysOfThisSession,
              TransactionsUnique, ChallengesCurrent
<1>13. \A u : IsRetired(u) => IsRetired(u)'
  BY <1>7 DEF IsRetired
<1>14. IsRetired(t)'
  BY <1>2, <1>7 DEF IsRetired
<1>15. Retired'
  BY <1>9, <1>10, <1>13, <1>14 DEF SessionInv, Retired
<1>16. \A i \in 1..Len(installs) : installs[i] # t
  BY <1>2, <1>10 DEF SessionInv, Retired
<1>17. t \notin cancelled
  BY <1>2 DEF SessionInv, Retired
<1>18. InstalledOnce'
  BY <1>9, <1>10, <1>16 DEF SessionInv, InstalledOnce, IsInjective
<1>19. CancelledNeverInstalled'
  BY <1>9, <1>10, <1>17 DEF SessionInv, CancelledNeverInstalled
<1>20. SessionInv'
  BY <1>5, <1>11, <1>12, <1>15, <1>18, <1>19 DEF SessionInv, SafeStep
<1>21. Last(installs') = t
  BY <1>9, <1>10 DEF Last
<1>22. Last(profiles').notification_address = address
  <2>1. profiles \in Seq(ProfileSlot)
    BY DEF SessionInv, SessionTypeOK, TypeOK
  <2>2. profiles' = Append(profiles, DownloadedProfile(bpp.iccid, address, bpp.len))
    BY DEF Install
  <2>3. DownloadedProfile(bpp.iccid, address, bpp.len).notification_address = address
    BY DEF DownloadedProfile
  <2> QED
    BY <2>1, <2>2, <2>3, AppendProperties, LenProperties DEF Last
<1>23. Last(notifications').notification_address = address
  <2> DEFINE p == DownloadedProfile(bpp.iccid, address, bpp.len)
             events == <<Event("install", p)>>
             news == [k \in DOMAIN events |-> Number(events[k], notification_seq + k)]
  <2>1. notifications \in Seq(Notification)
    BY DEF SessionInv, SessionTypeOK, TypeOK
  <2>2. notifications' = notifications \o news
    BY DEF Install, AddNotifications
  <2>3. news = <<Number(events[1], notification_seq + 1)>>
    OBVIOUS
  <2>4. Number(events[1], notification_seq + 1).notification_address = address
    BY DEF Number, Event, DownloadedProfile
  <2> HIDE DEF news, events
  <2>5. /\ Len(notifications') = Len(notifications) + 1
        /\ notifications'[Len(notifications) + 1] = Number(events[1], notification_seq + 1)
        /\ Len(notifications) \in Nat
    BY <2>1, <2>2, <2>3
  <2> QED
    BY <2>4, <2>5 DEF Last
<1>24. InstallStep
  BY <1>2, <1>21, <1>22, <1>23 DEF InstallStep
<1> QED
  BY <1>6, <1>20, <1>24 DEF GoodStep, Raised

LEMMA LoadBoundProfilePackageFacts ==
  ASSUME SessionInv, NEW bpp \in BoundProfilePackage, LoadBoundProfilePackage(bpp)
  PROVE  GoodStep
<1>1. ASSUME NEW code \in {1, 3, 4, Raised}, RefuseSession("install", code)
      PROVE  GoodStep
  BY <1>1, RefuseSessionFacts DEF Command, Raised
<1> QED
  BY <1>1, InstallSessionFacts
     DEF LoadBoundProfilePackage, SessionAfterInstall

\* A session closed without an installation; an authenticated one may take its
\* transaction with it to the cancelled ones.
LEMMA CloseSessionFacts ==
  ASSUME SessionInv, HasSession,
         NEW op \in Command, Answer(op, 0),
         active_session' = NoSession,
         UNCHANGED <<storeVars, challenge_seq, signed, installs>>,
         cancelled' \subseteq cancelled \union ({active_session.transaction_id} \ {NoTransaction}),
         cancelled \subseteq cancelled'
  PROVE  GoodStep
<1>0. PICK t : t = active_session.transaction_id
  OBVIOUS
<1>1. result' \in Answers /\ result'.code = 0
  BY DEF Answer, Answers
<1>2. StoreInv'
  BY <1>1, SameStoreFacts DEF SessionInv, SafeStep
<1>3. ~HasSession'
  BY DEF HasSession
<1>4. t # NoTransaction =>
        t \in Transactions /\ ~IsRetired(t) /\ \E m \in signed : m.transaction_id = t
  BY <1>0, AuthenticatedIsNotRetired DEF SessionInv, NamedWhenAuthenticated
<1>5. \A u \in cancelled' : u \in cancelled \/ (u = t /\ t # NoTransaction)
  BY <1>0
<1>6. SessionTypeOK'
  BY <1>2, <1>4, <1>5 DEF SessionInv, SessionTypeOK, StoreInv
<1>7. /\ SessionAuthentic' /\ NamedWhenAuthenticated' /\ KeysOfThisSession'
      /\ TransactionsUnique' /\ ChallengesCurrent'
  BY <1>3 DEF SessionInv, SessionAuthentic, NamedWhenAuthenticated, KeysOfThisSession,
              TransactionsUnique, ChallengesCurrent
<1>8. \A u : IsRetired(u) => IsRetired(u)'
  BY <1>3 DEF IsRetired
<1>9. t # NoTransaction => IsRetired(t)'
  BY <1>3, <1>4 DEF IsRetired
<1>10. Retired'
  BY <1>5, <1>8, <1>9 DEF SessionInv, Retired
<1>11. CancelledNeverInstalled'
  BY <1>4, <1>5 DEF SessionInv, CancelledNeverInstalled, Retired
<1>12. SessionInv'
  BY <1>2, <1>6, <1>7, <1>10, <1>11 DEF SessionInv, InstalledOnce
<1> QED
  BY <1>1, <1>12 DEF GoodStep, InstallStep, Raised

LEMMA CancelSessionFacts ==
  ASSUME SessionInv, NEW t \in Transactions \union {NoTransaction}, CancelSession(t)
  PROVE  GoodStep
<1>1. CASE RefuseSession("cancel", 1)
  BY <1>1, RefuseSessionFacts DEF Command
<1>2. CASE /\ HasSession
           /\ t = active_session.transaction_id
           /\ active_session' = NoSession
           /\ cancelled' = cancelled \union ({t} \ {NoTransaction})
           /\ Answer("cancel", 0)
           /\ UNCHANGED <<storeVars, challenge_seq, signed, installs>>
  <2>1. "cancel" \in Command
    BY DEF Command
  <2> QED
    BY <1>2, <2>1, CloseSessionFacts
<1> QED
  BY <1>1, <1>2 DEF CancelSession, SessionAfterCancel

LEMMA ProfileRollbackFacts ==
  ASSUME SessionInv, ProfileRollback
  PROVE  GoodStep
<1>1. CASE RefuseSession("rollback", 7)
  BY <1>1, RefuseSessionFacts DEF Command
<1>2. CASE /\ HasSession
           /\ active_session' = NoSession
           /\ Answer("rollback", 0)
           /\ UNCHANGED <<storeVars, challenge_seq, signed, historyVars>>
  <2>1. "rollback" \in Command
    BY DEF Command
  <2> QED
    BY <1>2, <2>1, CloseSessionFacts DEF historyVars
<1> QED
  BY <1>1, <1>2 DEF ProfileRollback

-----------------------------------------------------------------------------
(* Theorems *)

LEMMA InitSessionInv ==
  ASSUME RspInit
  PROVE  SessionInv
<1>1. StoreInv
  BY InitStoreInv DEF RspInit
<1>2. SessionTypeOK
  BY <1>1 DEF RspInit, SessionTypeOK, StoreInv
<1> QED
  BY <1>1, <1>2
     DEF RspInit, SessionInv, SessionAuthentic, TransactionsUnique, ChallengesCurrent,
         NamedWhenAuthenticated, KeysOfThisSession, Retired, InstalledOnce,
         CancelledNeverInstalled, HasSession, IsInjective

LEMMA SessionNextFacts ==
  ASSUME SessionInv, SessionNext
  PROVE  GoodStep
BY GetEuiccChallengeFacts, AuthenticateServerFacts, PrepareDownloadFacts, CancelSessionFacts,
   LoadBoundProfilePackageFacts, ProfileRollbackFacts
   DEF SessionNext

LEMMA RspStepFacts ==
  ASSUME SessionInv, [RspNext]_rspVars
  PROVE  /\ SessionInv'
         /\ [InstallStep]_rspVars
<1>1. CASE SessionNext
  BY <1>1, SessionNextFacts DEF GoodStep
<1>2. CASE SignServerSigned1
  <2>1. SessionInv'
    BY <1>2, SignServerSigned1Facts
  <2>2. UNCHANGED <<vars, sessionVars, historyVars>>
    BY <1>2 DEF SignServerSigned1
  <2> QED
    BY <2>1, <2>2 DEF InstallStep, vars, historyVars
<1>3. CASE UNCHANGED rspVars
  <2>1. UNCHANGED storeVars /\ UNCHANGED <<sessionVars, signed, historyVars>> /\ result' = result
    BY <1>3 DEF rspVars, vars
  <2>2. result' \in Answers
    BY <2>1, StoreInvParts DEF SessionInv
  <2>3. GoodStep
    BY <2>1, <2>2, NeutralFacts
  <2> QED
    BY <2>3 DEF GoodStep
<1> QED
  BY <1>1, <1>2, <1>3 DEF RspNext

\* The session, the messages and the history of the download sessions keep
\* the invariant, whatever is presented to the handlers and in which order.
THEOREM SessionInvariant == RspSpec => []SessionInv
<1>1. RspInit => SessionInv
  BY InitSessionInv
<1>2. SessionInv /\ [RspNext]_rspVars => SessionInv'
  BY RspStepFacts
<1> QED
  BY <1>1, <1>2, PTL DEF RspSpec

\* Sessions and histories keep their types: transactions that are installed or
\* cancelled have a name, a session has a challenge.
THEOREM SessionTypeCorrect == RspSpec => []SessionTypeOK
<1>1. SessionInv => SessionTypeOK
  BY DEF SessionInv
<1> QED
  BY <1>1, SessionInvariant, PTL

\* An authenticated session stands on a message signed for its own challenge.
THEOREM SessionsAreAuthentic == RspSpec => []SessionAuthentic
<1>1. SessionInv => SessionAuthentic
  BY DEF SessionInv
<1> QED
  BY <1>1, SessionInvariant, PTL

\* Session keys were derived in the session that holds them.
THEOREM KeysStayInTheirSession == RspSpec => []KeysOfThisSession
<1>1. SessionInv => KeysOfThisSession
  BY DEF SessionInv
<1> QED
  BY <1>1, SessionInvariant, PTL

\* No transaction installs a second profile, whatever is repeated.
THEOREM TransactionsInstallOnce == RspSpec => []InstalledOnce
<1>1. SessionInv => InstalledOnce
  BY DEF SessionInv
<1> QED
  BY <1>1, SessionInvariant, PTL

\* No transaction is both cancelled and installed.
THEOREM CancelledStayCancelled == RspSpec => []CancelledNeverInstalled
<1>1. SessionInv => CancelledNeverInstalled
  BY DEF SessionInv
<1> QED
  BY <1>1, SessionInvariant, PTL

\* An installation stands on a message signed for the latest challenge, takes
\* its address from the server that signed it, and ends the session.
THEOREM InstallationsAreAuthentic == RspSpec => InstallAuthentic
<1>1. SessionInv /\ [RspNext]_rspVars => [InstallStep]_rspVars
  BY RspStepFacts
<1> QED
  BY <1>1, SessionInvariant, PTL DEF RspSpec, InstallAuthentic, InstallStep

-----------------------------------------------------------------------------
(* A download through the dispatcher, while others send commands too *)

\* From its authentication on, the client holds a message that an SM-DP+ has
\* signed for the challenge it was given.
MessageOfAttempt ==
  client_at \in {"authenticate", "prepare", "load"} =>
    message \in signed /\ message.euicc_challenge = challenge

DownloadInv == SessionInv /\ MessageOfAttempt /\ ClientIsRight

\* A command that changes the store and leaves the session alone.
LEMMA StoreOnlyFacts ==
  ASSUME SessionInv, SafeStep, UNCHANGED <<sessionVars, signed, historyVars>>
  PROVE  GoodStep
<1>1. StoreInv'
  BY DEF SafeStep
<1>2. SessionTypeOK'
  BY <1>1 DEF SessionInv, SessionTypeOK, StoreInv, sessionVars, historyVars
<1>3. SessionAuthentic' /\ NamedWhenAuthenticated' /\ KeysOfThisSession'
  BY DEF SessionInv, SessionAuthentic, NamedWhenAuthenticated, KeysOfThisSession, HasSession,
         sessionVars
<1>4. TransactionsUnique' /\ ChallengesCurrent' /\ Retired'
  BY DEF SessionInv, TransactionsUnique, ChallengesCurrent, Retired, IsRetired, HasSession,
         sessionVars, historyVars
<1>5. InstalledOnce' /\ CancelledNeverInstalled'
  BY DEF SessionInv, InstalledOnce, CancelledNeverInstalled, IsInjective, historyVars
<1>6. SessionInv'
  BY <1>1, <1>2, <1>3, <1>4, <1>5 DEF SessionInv
<1> QED
  BY <1>1, <1>6 DEF GoodStep, InstallStep, sessionVars, historyVars, Raised

\* Every command of the dispatcher is one of the session's, or changes at most
\* the store.
LEMMA DispatchEffectiveFacts ==
  ASSUME SessionInv, DispatchEffective
  PROVE  GoodStep
<1>1. CASE SessionNext
  BY <1>1, SessionNextFacts
<1>2. CASE \E n \in 1..MaxNotificationSeq : HandleRemoveNotification(n)
  <2>1. StoreInv
    BY DEF SessionInv
  <2>2. SafeStep
    BY <1>2, <2>1, RemoveNotificationFacts DEF HandleRemoveNotification
  <2> QED
    BY <1>2, <2>2, StoreOnlyFacts DEF HandleRemoveNotification
<1>3. CASE \E iccid \in Iccids : HandleSetNickname(iccid)
  <2>1. StoreInv
    BY DEF SessionInv
  <2>2. SafeStep
    BY <1>3, <2>1, SetNicknameFacts DEF HandleSetNickname
  <2> QED
    BY <1>3, <2>2, StoreOnlyFacts DEF HandleSetNickname
<1> QED
  BY <1>1, <1>2, <1>3
     DEF DispatchEffective, SessionNext, HandleGetChallenge, HandleAuthenticateServer,
         HandlePrepareDownload, HandleCancelSession, HandleLoadBpp, HandleProfileRollback

LEMMA DispatchNeutralFacts ==
  ASSUME DispatchNeutral
  PROVE  UNCHANGED rspVars
BY DEF DispatchNeutral, Unidentified, UnknownTag, Undecoded, HandleSetDpAddress, HandleIotPackage,
       HandleRead, HandleAutoEnable, HandleIot, HandleGetProfiles, HandleListNotifications,
       RespondUnchanged

\* The new session answers to the challenge that was given to the client.
LEMMA AskChallengeFacts ==
  ASSUME DownloadInv, AskChallenge
  PROVE  GoodStep /\ MessageOfAttempt' /\ ClientIsRight'
<1>1. GoodStep
  BY GetEuiccChallengeFacts DEF DownloadInv, AskChallenge, HandleGetChallenge
<1>2. client_at' \in {"sign", "start"}
  BY DEF AskChallenge, Goes
<1>3. active_session' = FreshSession(challenge')
  BY DEF AskChallenge, HandleGetChallenge, GetEuiccChallenge, SessionAfterChallenge
<1>4. active_session'.euicc_challenge = challenge' /\ HasSession'
  <2>1. challenge' \in Nat \ {0}
    BY SessionTypes
       DEF DownloadInv, SessionFacts, AskChallenge, HandleGetChallenge, GetEuiccChallenge
  <2>2. FreshSession(challenge') \in DownloadSession
    BY <2>1 DEF FreshSession, DownloadSession
  <2> QED
    BY <1>3, <2>2, NoSessionAssumption DEF FreshSession, HasSession
<1> QED
  BY <1>1, <1>2, <1>4 DEF MessageOfAttempt, ClientIsRight

LEMMA SignForClientFacts ==
  ASSUME DownloadInv, SignForClient
  PROVE  SessionInv' /\ MessageOfAttempt' /\ ClientIsRight'
<1>1. SessionInv'
  BY SignServerSigned1Facts DEF DownloadInv, SignForClient
<1>2. /\ client_at = "sign" /\ client_at' = "authenticate"
      /\ message' \in signed' /\ message'.euicc_challenge = challenge
      /\ UNCHANGED <<challenge, disturbed, active_session>>
  BY DEF SignForClient, SignServerSigned1, sessionVars, otherVars
<1> QED
  BY <1>1, <1>2 DEF DownloadInv, MessageOfAttempt, ClientIsRight, HasSession

LEMMA RefusalCode ==
  \A op, code : RefuseSession(op, code) => result'.code = code
BY DEF RefuseSession, Refuse, Answer

\* The session that has the client's challenge accepts the client's message.
LEMMA SendAuthenticateServerFacts ==
  ASSUME DownloadInv, SendAuthenticateServer
  PROVE  GoodStep /\ MessageOfAttempt' /\ ClientIsRight'
<1>1. GoodStep
  BY AuthenticateServerFacts DEF DownloadInv, SendAuthenticateServer, HandleAuthenticateServer
<1>2. /\ client_at = "authenticate" /\ client_at' \in {"prepare", "start"}
      /\ UNCHANGED <<challenge, message, disturbed, signed>>
      /\ message \in signed /\ message.euicc_challenge = challenge
  BY DEF SendAuthenticateServer, HandleAuthenticateServer, AuthenticateServer, RefuseSession, Goes,
         otherVars, DownloadInv, MessageOfAttempt
<1>3. ASSUME ~disturbed
      PROVE  IsAuthenticated' /\ active_session'.transaction_id = message.transaction_id
  <2>1. HasSession /\ AnswersChallenge(message)
    BY <1>2, <1>3 DEF DownloadInv, ClientIsRight, AnswersChallenge
  <2>2. result'.code = 0 /\ active_session'.transaction_id = message.transaction_id
    BY <2>1 DEF SendAuthenticateServer
  <2>3. PICK m \in signed : active_session' =
                              [active_session EXCEPT !.transaction_id = m.transaction_id,
                                                     !.server_address = m.server,
                                                     !.authenticated = TRUE]
    <3>1. \A code \in {2, 3, 4, 6, 8, Raised} : ~RefuseSession("authenticate", code)
      BY <2>2, RefusalCode DEF Raised
    <3>2. AuthenticateServer
      BY DEF SendAuthenticateServer, HandleAuthenticateServer
    <3> QED
      BY <3>1, <3>2 DEF AuthenticateServer
  <2>4. active_session \in DownloadSession /\ m \in Signed1
    BY <2>1, SessionTypes DEF DownloadInv, SessionFacts
  <2>5. active_session' \in DownloadSession /\ active_session'.authenticated
    BY <2>3, <2>4 DEF DownloadSession, Signed1
  <2> QED
    BY <2>2, <2>5, NoSessionAssumption DEF IsAuthenticated, HasSession
<1> QED
  BY <1>1, <1>2, <1>3 DEF MessageOfAttempt, ClientIsRight

\* An accepted PrepareDownload leaves the transaction as it was.
LEMMA SendPrepareDownloadFacts ==
  ASSUME DownloadInv, SendPrepareDownload
  PROVE  GoodStep /\ MessageOfAttempt' /\ ClientIsRight'
<1>1. /\ client_at = "prepare" /\ client_at' \in {"load", "start"}
      /\ UNCHANGED <<challenge, message, disturbed, signed>>
      /\ message \in signed /\ message.euicc_challenge = challenge
      /\ PrepareDownload(message.transaction_id)
      /\ result'.code # 2 /\ result'.code # Raised
  BY DEF SendPrepareDownload, HandlePrepareDownload, PrepareDownload, RefuseSession, Goes,
         otherVars, DownloadInv, MessageOfAttempt
<1>2. GoodStep
  <2>1. message.transaction_id \in Transactions
    BY <1>1, SessionTypes DEF DownloadInv, SessionFacts, Signed1
  <2> QED
    BY <1>1, <2>1, PrepareDownloadFacts DEF DownloadInv
<1>3. ASSUME ~disturbed
      PROVE  IsPrepared' /\ active_session'.transaction_id = message.transaction_id
  <2>1. IsAuthenticated /\ active_session.transaction_id = message.transaction_id
    BY <1>1, <1>3 DEF DownloadInv, ClientIsRight
  <2> DEFINE otpk == active_session.euicc_otpk + 1
             keys == [transaction_id |-> message.transaction_id, otpk |-> otpk]
             renewed == [active_session EXCEPT !.euicc_otpk = otpk]
  <2>2. \E derived \in {keys, active_session.session_keys} :
          active_session' = [renewed EXCEPT !.session_keys = derived, !.prepared = TRUE]
    <3>1. Answer("prepare", Raised) => result'.code = Raised
      BY DEF Answer
    <3> QED
      BY <1>1, <2>1, <3>1, RefusalCode DEF PrepareDownload
  <2>3. active_session \in DownloadSession /\ message \in Signed1
    BY <1>1, <2>1, SessionTypes DEF DownloadInv, SessionFacts, IsAuthenticated
  <2>4. /\ active_session' \in DownloadSession
        /\ active_session'.prepared
        /\ active_session'.transaction_id = active_session.transaction_id
    <3>1. otpk \in Nat \ {0}
      BY <2>3 DEF DownloadSession
    <3>2. keys \in SessionKeys
      BY <2>3, <3>1 DEF Signed1, SessionKeys
    <3> HIDE DEF otpk, keys
    <3> QED
      BY <2>2, <2>3, <3>1, <3>2 DEF DownloadSession
  <2> QED
    BY <2>1, <2>4, NoSessionAssumption DEF IsPrepared, HasSession
<1> QED
  BY <1>1, <1>2, <1>3 DEF MessageOfAttempt, ClientIsRight

\* The package is for the session that is there: it is installed, or has no room.
LEMMA SendPackageFacts ==
  ASSUME DownloadInv, SendPackage
  PROVE  GoodStep /\ MessageOfAttempt' /\ ClientIsRight'
<1> DEFINE bpp == [transaction_id |-> message.transaction_id, iccid |-> Package.iccid,
                   len |-> Package.len]
<1>1. /\ client_at = "load" /\ client_at' = "loaded"
      /\ LoadBoundProfilePackage(bpp)
      /\ result'.code # Raised
      /\ UNCHANGED <<message, disturbed>>
  BY DEF SendPackage, HandleLoadBpp, otherVars
<1>2. message \in Signed1
  BY <1>1, SessionTypes DEF DownloadInv, SessionFacts, MessageOfAttempt
<1>3. bpp \in BoundProfilePackage /\ bpp.len = Package.len
  BY <1>2, PackageAssumption DEF BoundProfilePackage, Signed1
<1>4. bpp.transaction_id = message.transaction_id
  OBVIOUS
<1> HIDE DEF bpp
<1>5. GoodStep
  BY <1>1, <1>3, LoadBoundProfilePackageFacts DEF DownloadInv
<1>6. ASSUME ~disturbed
      PROVE  (NoRoom \/ IsInstalled(message.transaction_id))'
  <2>1. IsPrepared /\ active_session.transaction_id = message.transaction_id
    BY <1>1, <1>6 DEF DownloadInv, ClientIsRight
  <2>2. IsForSession(bpp)
    BY <1>4, <2>1 DEF IsForSession
  <2>3. ~RefuseSession("install", Raised)
    BY <1>1, RefusalCode
  <2>4. CASE ~HasRoomFor(bpp.len) /\ RefuseSession("install", 3)
    BY <1>3, <2>4 DEF RefuseSession, Refuse, storeVars, NoRoom, HasRoomFor
  <2>5. CASE installs' = Append(installs, active_session.transaction_id)
    <3>1. installs \in Seq(Transactions) /\ message.transaction_id \in Transactions
      BY <1>2, SessionTypes DEF DownloadInv, SessionFacts, Signed1
    <3>2. /\ Len(installs) + 1 \in DOMAIN installs'
          /\ installs'[Len(installs) + 1] = message.transaction_id
      BY <2>1, <2>5, <3>1, AppendProperties, LenProperties
    <3> QED
      BY <1>1, <3>2 DEF IsInstalled
  <2> QED
    BY <1>1, <2>1, <2>2, <2>3, <2>4, <2>5 DEF LoadBoundProfilePackage
<1> QED
  BY <1>1, <1>5, <1>6 DEF MessageOfAttempt, ClientIsRight

\* Others may do anything to the session, but what was signed stays signed.
LEMMA DisturbFacts ==
  ASSUME DownloadInv, Disturb
  PROVE  /\ SessionInv' /\ MessageOfAttempt' /\ ClientIsRight'
         /\ GoodStep \/ SignServerSigned1
<1>1. SessionInv' /\ (GoodStep \/ SignServerSigned1)
  BY DispatchEffectiveFacts, SignServerSigned1Facts DEF DownloadInv, Disturb, GoodStep
<1>2. signed \subseteq signed'
  BY DEF Disturb, DispatchEffective, SignServerSigned1, HandleGetChallenge, GetEuiccChallenge,
         HandleAuthenticateServer, AuthenticateServer, HandlePrepareDownload, PrepareDownload,
         HandleLoadBpp, LoadBoundProfilePackage, HandleCancelSession,
         CancelSession, HandleProfileRollback, ProfileRollback, HandleRemoveNotification,
         HandleSetNickname, RefuseSession
<1> QED
  BY <1>1, <1>2 DEF DownloadInv, Disturb, MessageOfAttempt, ClientIsRight, clientVars

LEMMA SameDownloadFacts ==
  ASSUME DownloadInv, UNCHANGED <<rspVars, clientVars, otherVars>>
  PROVE  DownloadInv'
<1>1. SessionInv'
  BY RspStepFacts DEF DownloadInv
<1>2. MessageOfAttempt'
  BY DEF DownloadInv, MessageOfAttempt, rspVars, clientVars
<1>3. ClientIsRight'
  BY DEF DownloadInv, ClientIsRight, HasSession, IsAuthenticated, IsPrepared, NoRoom, HasRoomFor,
         IsInstalled, rspVars, vars, storeVars, sessionVars, historyVars, clientVars, otherVars
<1> QED
  BY <1>1, <1>2, <1>3 DEF DownloadInv

LEMMA InitDownloadInv ==
  ASSUME DownloadInit
  PROVE  DownloadInv
BY InitSessionInv DEF DownloadInit, DownloadInv, MessageOfAttempt, ClientIsRight

LEMMA DownloadStepFacts ==
  ASSUME DownloadInv, [DownloadNext]_downloadVars
  PROVE  DownloadInv' /\ [InstallStep]_rspVars
<1>1. CASE ClientStep
  BY <1>1, AskChallengeFacts, SendAuthenticateServerFacts, SendPrepareDownloadFacts,
     SendPackageFacts
     DEF ClientStep, DownloadInv, GoodStep
<1>2. ASSUME SignServerSigned1
      PROVE  [InstallStep]_rspVars
  BY <1>2 DEF SignServerSigned1, InstallStep, historyVars
<1>3. CASE SignForClient
  BY <1>2, <1>3, SignForClientFacts DEF SignForClient, DownloadInv
<1>4. CASE Disturb
  BY <1>2, <1>4, DisturbFacts DEF DownloadInv, GoodStep
<1>5. CASE Look
  BY <1>5, DispatchNeutralFacts, SameDownloadFacts DEF Look
<1>6. CASE UNCHANGED downloadVars
  BY <1>6, SameDownloadFacts DEF downloadVars, dispatchVars
<1> QED
  BY <1>1, <1>3, <1>4, <1>5, <1>6 DEF DownloadNext

\* A download through the dispatcher, with others' commands in between, keeps
\* the invariant of the store and of the session, and what the client may
\* conclude from its responses.
THEOREM DownloadInvariant == DownloadSpec => []DownloadInv
<1>1. DownloadInit => DownloadInv
  BY InitDownloadInv
<1>2. DownloadInv /\ [DownloadNext]_downloadVars => DownloadInv'
  BY DownloadStepFacts
<1> QED
  BY <1>1, <1>2, PTL DEF DownloadSpec

\* A client that nobody disturbs in its attempt is right about the session and
\* the installation, whatever was left behind by attempts and commands before.
THEOREM ClientConcludesRightly == DownloadSpec => []ClientIsRight
<1>1. DownloadInv => ClientIsRight
  BY DEF DownloadInv
<1> QED
  BY <1>1, DownloadInvariant, PTL

\* What holds of the handlers holds behind the dispatcher: every installation
\* stands on a message signed for the latest challenge.
THEOREM DownloadsAreAuthentic == DownloadSpec => InstallAuthentic
<1>1. DownloadInv /\ [DownloadNext]_downloadVars => [InstallStep]_rspVars
  BY DownloadStepFacts
<1> QED
  BY <1>1, DownloadInvariant, PTL DEF DownloadSpec, InstallAuthentic, InstallStep
=============================================================================
