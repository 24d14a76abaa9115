---------------------------- MODULE ProfileDownload ----------------------------
(***************************************************************************)
(* A client that downloads a profile through the dispatcher, step by step  *)
(* as in README.md's flow, while others send commands to the same eUICC,   *)
(* over their own connections or over HTTP.                                *)
(*                                                                         *)
(* The client and its SM-DP+ are not part of the simulator.  The client    *)
(* knows of the eUICC what the responses tell: after the package there is  *)
(* an error in any case, so it starts over as often as it can afford to.   *)
(***************************************************************************)
EXTENDS Dispatcher

CONSTANTS
  Package,         \* the iccid and the length of the client's profile
  MaxDisturbances, \* bound: commands others send that may change something
  NoMessage        \* the SM-DP+ has signed nothing for the client yet

VARIABLES
  client_at,    \* what the client does next
  challenge,    \* the challenge of this attempt
  message,      \* the serverSigned1 the SM-DP+ has signed for it
  attempts,     \* how often the client has asked for a challenge
  own,          \* history: the transactions signed for the client
  disturbances, \* how many commands of others there were
  disturbed     \* history: one of them came since the attempt began

clientVars == <<client_at, challenge, message, attempts, own>>

otherVars == <<disturbances, disturbed>>

downloadVars == <<dispatchVars, clientVars, otherVars>>

ASSUME MaxDisturbancesAssumption == MaxDisturbances \in Nat

ASSUME NoMessageAssumption == NoMessage \notin Signed1

ASSUME PackageAssumption == Package \in [iccid : Iccids, len : DataLengths]

\* One more than others can spoil.
MaxAttempts == MaxDisturbances + 1

-----------------------------------------------------------------------------
(* The client *)

\* A response that is an error, or tells of one, ends the attempt.
Goes(next) ==
  client_at' = IF response'.sw = "9000" /\ response'.code = 0 THEN next ELSE "start"

AskChallenge ==
  /\ client_at \in {"start", "loaded"}
  /\ attempts < MaxAttempts
  /\ HandleGetChallenge
  /\ Goes("sign")
  /\ challenge' = challenge_seq'
  /\ message' = NoMessage
  /\ attempts' = attempts + 1
  /\ disturbed' = FALSE
  /\ UNCHANGED <<own, disturbances>>

\* The SM-DP+ signs the client's challenge.
SignForClient ==
  /\ client_at = "sign"
  /\ SignServerSigned1
  /\ \E m \in signed' \ signed :
       /\ m.euicc_challenge = challenge
       /\ message' = m
       /\ own' = own \union {m.transaction_id}
  /\ client_at' = "authenticate"
  /\ UNCHANGED <<response, challenge, attempts, otherVars>>

\* Chain and signature of the message are good: only the session decides.
SendAuthenticateServer ==
  /\ client_at = "authenticate"
  /\ HandleAuthenticateServer
  /\ HasSession =>
       \/ /\ AnswersChallenge(message)
          /\ result'.code = 0
          /\ active_session'.transaction_id = message.transaction_id
       \/ ~AnswersChallenge(message) /\ result'.code = 2
  /\ Goes("prepare")
  /\ UNCHANGED <<challenge, message, attempts, own, otherVars>>

SendPrepareDownload ==
  /\ client_at = "prepare"
  /\ HandlePrepareDownload(message.transaction_id)
  /\ result'.code # Raised
  /\ Goes("load")
  /\ UNCHANGED <<challenge, message, attempts, own, otherVars>>

\* A package whose blocks are whole, for this attempt's transaction.
SendPackage ==
  /\ client_at = "load"
  /\ HandleLoadBpp([transaction_id |-> message.transaction_id, iccid |-> Package.iccid,
                    len |-> Package.len])
  /\ result'.code # Raised
  /\ client_at' = "loaded"
  /\ UNCHANGED <<challenge, message, attempts, own, otherVars>>

ClientStep ==
  AskChallenge \/ SendAuthenticateServer \/ SendPrepareDownload \/ SendPackage

-----------------------------------------------------------------------------
(* Others *)

\* Any command, or any message of an SM-DP+, that may change something.
Disturb ==
  /\ disturbances < MaxDisturbances
  /\ DispatchEffective \/ (SignServerSigned1 /\ UNCHANGED response)
  /\ disturbances' = disturbances + 1
  /\ disturbed' = TRUE
  /\ UNCHANGED clientVars

Look == DispatchNeutral /\ UNCHANGED <<clientVars, otherVars>>

-----------------------------------------------------------------------------
(* Specification *)

DownloadInit ==
  /\ RspInit
  /\ response = NoResponse
  /\ client_at = "start"
  /\ challenge = 0
  /\ message = NoMessage
  /\ attempts = 0
  /\ own = {}
  /\ disturbances = 0
  /\ disturbed = FALSE

DownloadNext == ClientStep \/ SignForClient \/ Disturb \/ Look

\* A command that was sent is executed: handlers run to their end, one after
\* the other, in the order their bytes arrive.  That the client sends the next
\* one, and that its SM-DP+ answers, is asked of them.
DownloadSpec ==
  /\ DownloadInit /\ [][DownloadNext]_downloadVars
  /\ WF_downloadVars(ClientStep)
  /\ WF_downloadVars(SignForClient)

-----------------------------------------------------------------------------
(* Properties *)

NoRoom == ~HasRoomFor(Package.len)

IsInstalled(transaction_id) == \E i \in DOMAIN installs : installs[i] = transaction_id

\* What the responses told the client is so while nobody disturbs its attempt:
\* the session is its own and as far as it believes, and the package it sent,
\* although answered by an error (_handle_load_bpp), is installed or has no
\* room.  Whatever was left behind by attempts cut short makes no difference.
ClientIsRight ==
  ~disturbed =>
    /\ client_at \in {"sign", "authenticate"} =>
         HasSession /\ active_session.euicc_challenge = challenge
    /\ client_at = "prepare" =>
         IsAuthenticated /\ active_session.transaction_id = message.transaction_id
    /\ client_at = "load" =>
         IsPrepared /\ active_session.transaction_id = message.transaction_id
    /\ client_at = "loaded" => NoRoom \/ IsInstalled(message.transaction_id)

\* Starting over works: a client that is ready to try once more than others
\* disturb it gets a profile installed, or the eUICC has no room for it.  No
\* order of commands leaves a session behind that blocks the next one
\* (get_euicc_challenge replaces whatever there was).
DownloadArrives == <>(NoRoom \/ \E t \in own : IsInstalled(t))
=============================================================================
