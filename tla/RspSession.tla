------------------------------ MODULE RspSession ------------------------------
(***************************************************************************)
(* Remote SIM provisioning on one eUICC: the single active_session of      *)
(* app/models/euicc.py and the handlers of app/es10/es10b.py that move it  *)
(* from challenge to installation, with ProfileRollback of                 *)
(* app/es10/es10c.py.  Nothing ties a session to the connection that       *)
(* opened it: every handler may be called at any time, by anybody, with    *)
(* any message sent so far.                                                *)
(*                                                                         *)
(* A challenge is the number of times one was generated, so challenges are *)
(* fresh; a transaction identifier is a value of a set.  Signatures are    *)
(* abstracted to what they establish: a serverSigned1 that verifies is one *)
(* an SM-DP+ has signed.  Messages are delayed, repeated and reordered at  *)
(* will, since whatever was signed stays available to be presented.        *)
(***************************************************************************)
EXTENDS ProfileStore, Functions

CONSTANTS
  Transactions,  \* transaction identifiers SM-DP+ servers choose
  NoTransaction, \* the empty transaction identifier
  NoSession,     \* active_session is None
  NoKeys,        \* session_keys is None
  MaxChallenges, \* bound: challenges generated in a run
  MaxOtpk        \* bound: one-time key pairs generated in a session

VARIABLES
  active_session, \* EuiccState.active_session
  challenge_seq,  \* the number of challenges generated so far
  signed,         \* the serverSigned1 messages SM-DP+ servers have signed
  installs,       \* history: the transactions installed, in order
  cancelled       \* history: the transactions cancelled

sessionVars == <<active_session, challenge_seq>>

historyVars == <<installs, cancelled>>

rspVars == <<vars, sessionVars, signed, historyVars>>

ASSUME NoTransactionAssumption == NoTransaction \notin Transactions

ASSUME SessionBoundsAssumption == MaxChallenges \in Nat /\ MaxOtpk \in Nat

-----------------------------------------------------------------------------
(* Data *)

Signed1 == [transaction_id : Transactions, euicc_challenge : Nat \ {0}, server : Addresses]

\* Keys are what they were derived from: the transaction and the eUICC's key pair.
SessionKeys == [transaction_id : Transactions, otpk : Nat \ {0}]

\* One-time key pairs are numbered within the session; 0 is none yet.
DownloadSession ==
  [transaction_id : Transactions \union {NoTransaction},
   server_address : Addresses \union {NoAddress},
   euicc_challenge : Nat \ {0},
   euicc_otpk : Nat,
   session_keys : SessionKeys \union {NoKeys},
   authenticated : BOOLEAN,
   prepared : BOOLEAN]

ASSUME NoSessionAssumption == NoSession \notin DownloadSession

ASSUME NoKeysAssumption == NoKeys \notin SessionKeys

FreshSession(challenge) ==
  [transaction_id |-> NoTransaction, server_address |-> NoAddress,
   euicc_challenge |-> challenge, euicc_otpk |-> 0, session_keys |-> NoKeys,
   authenticated |-> FALSE, prepared |-> FALSE]

BoundProfilePackage ==
  [transaction_id : Transactions \union {NoTransaction}, iccid : Iccids, len : DataLengths]

RefuseSession(op, code) ==
  Refuse(op, code) /\ UNCHANGED <<sessionVars, signed, historyVars>>

HasSession == active_session # NoSession

IsAuthenticated == HasSession /\ active_session.authenticated

IsPrepared == HasSession /\ active_session.prepared

-----------------------------------------------------------------------------
(* SM-DP+ servers, outside the eUICC *)

\* A server signs a serverSigned1 for a challenge it was sent, under a
\* transaction identifier of its own that was never used before.
SignServerSigned1 ==
  \E server \in Addresses, t \in Transactions, c \in 1..challenge_seq :
    /\ \A m \in signed : m.transaction_id # t
    /\ signed' = signed \union
         {[transaction_id |-> t, euicc_challenge |-> c, server |-> server]}
    /\ UNCHANGED <<vars, sessionVars, historyVars>>

-----------------------------------------------------------------------------
(* Handlers *)

\* A broken variant: the session stays and only its challenge is replaced.
RenewedSession(challenge) ==
  IF HasSession
  THEN [active_session EXCEPT !.euicc_challenge = challenge]
  ELSE FreshSession(challenge)

\* A broken variant: a session that is open stays as it is.
KeptSession(challenge) == IF HasSession THEN active_session ELSE FreshSession(challenge)

SessionAfterChallenge(challenge) == FreshSession(challenge)

\* es10b.get_euicc_challenge: whatever session there was is dropped.
GetEuiccChallenge ==
  /\ challenge_seq < MaxChallenges
  /\ challenge_seq' = challenge_seq + 1
  /\ active_session' = SessionAfterChallenge(challenge_seq + 1)
  /\ Answer("challenge", 0)
  /\ UNCHANGED <<storeVars, signed, historyVars>>

\* A broken variant: any message that verifies will do, for whatever challenge.
AnswersAnyChallenge(m) == TRUE

AnswersChallenge(m) == m.euicc_challenge = active_session.euicc_challenge

\* es10b.authenticate_server.  Codes 3, 6, 4 and 2 are an untrusted CI, an
\* invalid or expired certificate and a signature that does not verify; a
\* challenge mismatch is reported as 2 too.  The signature is over the message's
\* own encoding (no caller passes server_signed1_raw), which raises when a field
\* does not fit.  An accepted message changes the fields it carries and leaves
\* prepared, the key pair and the keys alone; an answer that cannot be encoded
\* or signed raises after that change.
AuthenticateServer ==
  \/ ~HasSession /\ RefuseSession("authenticate", 8)
  \/ HasSession /\ \E code \in {2, 3, 4, 6, Raised} : RefuseSession("authenticate", code)
  \/ \E m \in signed :
       /\ HasSession
       /\ ~AnswersChallenge(m)
       /\ RefuseSession("authenticate", 2)
  \/ \E m \in signed :
       /\ HasSession
       /\ AnswersChallenge(m)
       /\ active_session' =
            [active_session EXCEPT !.transaction_id = m.transaction_id,
                                   !.server_address = m.server,
                                   !.authenticated = TRUE]
       /\ \E code \in {0, Raised} : Answer("authenticate", code)
       /\ UNCHANGED <<storeVars, challenge_seq, signed, historyVars>>

\* es10b.prepare_download.  A signature is only looked at when the caller passes
\* the raw smdpSigned2.  The key pair is replaced before the SM-DP+ key, if
\* there is one, is used: a malformed one raises and leaves the rest as it was.
\* An answer that cannot be encoded or signed raises with the session prepared.
PrepareDownload(transaction_id) ==
  \/ ~IsAuthenticated /\ RefuseSession("prepare", 127)
  \/ /\ IsAuthenticated
     /\ transaction_id # active_session.transaction_id
     /\ RefuseSession("prepare", 5)
  \/ /\ IsAuthenticated
     /\ transaction_id = active_session.transaction_id
     /\ RefuseSession("prepare", 2)
  \/ /\ IsAuthenticated
     /\ transaction_id = active_session.transaction_id
     /\ active_session.euicc_otpk < MaxOtpk
     /\ LET otpk == active_session.euicc_otpk + 1
            keys == [transaction_id |-> transaction_id, otpk |-> otpk]
            renewed == [active_session EXCEPT !.euicc_otpk = otpk]
        IN \/ \* bppEuiccOtpk present and a point of the curve, or absent
              /\ \E derived \in {keys, active_session.session_keys} :
                   active_session' = [renewed EXCEPT !.session_keys = derived,
                                                     !.prepared = TRUE]
              /\ \E code \in {0, Raised} : Answer("prepare", code)
           \/ \* bppEuiccOtpk malformed
              /\ active_session' = renewed
              /\ Answer("prepare", Raised)
     /\ UNCHANGED <<storeVars, challenge_seq, signed, historyVars>>

\* A package that names no transaction goes with the session's.
IsForSession(bpp) ==
  bpp.transaction_id \in {NoTransaction, active_session.transaction_id}

\* A broken variant: the session survives the installation.
KeepSession == active_session

\* active_session once the package is installed
SessionAfterInstall == NoSession

\* es10b.load_bound_profile_package.  The content's length is what decryption
\* leaves, whether the MAC verified or not; with session keys, a block that
\* verifies and is not whole raises before anything has changed.  The ICCID is
\* one the result's encoding accepts, as every decoded package's is: only with
\* another does that encoding raise, the profile installed and the session open.
LoadBoundProfilePackage(bpp) ==
  \/ ~IsPrepared /\ RefuseSession("install", 4)
  \/ IsPrepared /\ ~IsForSession(bpp) /\ RefuseSession("install", 1)
  \/ /\ IsPrepared
     /\ IsForSession(bpp)
     /\ active_session.session_keys # NoKeys
     /\ RefuseSession("install", Raised)
  \/ IsPrepared /\ IsForSession(bpp) /\ ~HasRoomFor(bpp.len) /\ RefuseSession("install", 3)
  \/ /\ IsPrepared
     /\ IsForSession(bpp)
     /\ HasRoomFor(bpp.len)
     /\ Install(bpp.iccid, active_session.server_address, bpp.len)
     /\ installs' = Append(installs, active_session.transaction_id)
     /\ active_session' = SessionAfterInstall
     /\ Answer("install", 0)
     /\ UNCHANGED <<challenge_seq, signed, cancelled>>

\* A broken variant: cancelling marks the session unprepared and keeps it.
UnprepareSession == [active_session EXCEPT !.prepared = FALSE]

\* active_session once it is cancelled
SessionAfterCancel == NoSession

\* es10b.cancel_session.  Before authentication the session's transaction
\* identifier is empty, and only the empty one cancels it.
CancelSession(transaction_id) ==
  \/ ~HasSession /\ RefuseSession("cancel", 1)
  \/ /\ HasSession
     /\ transaction_id # active_session.transaction_id
     /\ RefuseSession("cancel", 1)
  \/ /\ HasSession
     /\ transaction_id = active_session.transaction_id
     /\ active_session' = SessionAfterCancel
     /\ cancelled' = cancelled \union ({transaction_id} \ {NoTransaction})
     /\ Answer("cancel", 0)
     /\ UNCHANGED <<storeVars, challenge_seq, signed, installs>>

\* es10c.profile_rollback
ProfileRollback ==
  \/ ~HasSession /\ RefuseSession("rollback", 7)
  \/ /\ HasSession
     /\ active_session' = NoSession
     /\ Answer("rollback", 0)
     /\ UNCHANGED <<storeVars, challenge_seq, signed, historyVars>>

-----------------------------------------------------------------------------
(* Specification *)

RspInit ==
  /\ Init
  /\ active_session = NoSession
  /\ challenge_seq = 0
  /\ signed = {}
  /\ installs = <<>>
  /\ cancelled = {}

SessionNext ==
  \/ GetEuiccChallenge
  \/ AuthenticateServer
  \/ \E t \in Transactions \union {NoTransaction} : PrepareDownload(t) \/ CancelSession(t)
  \/ \E bpp \in BoundProfilePackage : LoadBoundProfilePackage(bpp)
  \/ ProfileRollback

RspNext == SessionNext \/ SignServerSigned1

RspSpec == RspInit /\ [][RspNext]_rspVars

-----------------------------------------------------------------------------
(* Properties *)

\* Types of the session, of the messages and of the history.
SessionTypeOK ==
  /\ TypeOK
  /\ active_session \in DownloadSession \union {NoSession}
  /\ challenge_seq \in Nat
  /\ signed \subseteq Signed1
  /\ installs \in Seq(Transactions)
  /\ cancelled \subseteq Transactions

\* A session that is authenticated holds the transaction and the address of a
\* message some SM-DP+ signed for this very challenge, and only such a session
\* is prepared, whoever called the handlers in between (es10b.authenticate_server).
SessionAuthentic ==
  HasSession =>
    /\ active_session.prepared => active_session.authenticated
    /\ active_session.authenticated =>
         [transaction_id |-> active_session.transaction_id,
          euicc_challenge |-> active_session.euicc_challenge,
          server |-> active_session.server_address] \in signed

\* A profile is only installed under a transaction signed for the latest
\* challenge, with the address of the server that signed it; the installation
\* uses the session up.
InstallAuthentic ==
  [][installs' # installs =>
       /\ \E m \in signed :
            /\ m.transaction_id = Last(installs')
            /\ m.euicc_challenge = challenge_seq
            /\ m.server = Last(profiles').notification_address
            /\ m.server = Last(notifications').notification_address
       /\ active_session' = NoSession]_rspVars

\* However often its messages are repeated or delayed, a transaction installs
\* one profile at most.
InstalledOnce == IsInjective(installs)

\* A transaction that was cancelled is not installed, before or afterwards.
CancelledNeverInstalled == \A i \in DOMAIN installs : installs[i] \notin cancelled

\* Session keys never outlive their session: those at hand were derived in it,
\* for a transaction signed for its own challenge, from a one-time key pair no
\* younger than the session's.  They may lag behind transaction and pair, as
\* only a PrepareDownload with a bppEuiccOtpk derives new ones.
KeysOfThisSession ==
  HasSession /\ active_session.session_keys # NoKeys =>
    /\ active_session.session_keys.otpk <= active_session.euicc_otpk
    /\ \E m \in signed : /\ m.transaction_id = active_session.session_keys.transaction_id
                         /\ m.euicc_challenge = active_session.euicc_challenge
=============================================================================
