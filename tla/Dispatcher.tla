------------------------------- MODULE Dispatcher -------------------------------
(***************************************************************************)
(* The way from the bytes of an assembled command to an ES10 handler and   *)
(* back: Es10Dispatcher of app/services/apdu_dispatcher.py, with           *)
(* identify_command of app/services/apdu_handler.py and the codec of       *)
(* app/services/asn1_codec.py.                                             *)
(*                                                                         *)
(* A request decodes or not; a handler answers as in RspSession and        *)
(* ProfileStore; its answer encodes or not, after the handler is done.     *)
(* Commands about eIM associations, which EimPackages models, and those    *)
(* that only read are told apart by what they answer.                      *)
(***************************************************************************)
EXTENDS RspSession

CONSTANT NoCode  \* the response holds no result

VARIABLE response  \* the last APDU response: its status word and its result

dispatchVars == <<rspVars, response>>

ASSUME NoCodeAssumption == NoCode \notin Nat

-----------------------------------------------------------------------------
(* Responses *)

\* SW_OK, SW_WRONG_DATA and SW_INTERNAL_ERROR; "none" when an exception leaves
\* dispatch, and the connection or the HTTP request ends with it.
Respond(sw) == response' = [sw |-> sw, code |-> NoCode]

\* The handler's answer fits its type of the schema.
RespondResult == response' = [sw |-> "9000", code |-> result'.code]

\* The handler, or the encoding of its answer, raises: _execute catches both.
RespondUnencoded == Respond("6F00")

RespondUnchanged(sw) == Respond(sw) /\ UNCHANGED rspVars

-----------------------------------------------------------------------------
(* Commands that reach no handler, or change nothing there *)

\* identify_command: fewer than two bytes, or a zero byte for a tag, are
\* answered as GetEID with an EID of zeros; a length of several bytes that is
\* cut raises out of dispatch, which only guards _execute.
Unidentified == RespondUnchanged("9000") \/ RespondUnchanged("none")

\* _execute knows no such tag.
UnknownTag == RespondUnchanged("6A80")

\* Any command with a request may carry one that does not decode.  Those of
\* EnableProfile, DisableProfile, DeleteProfile and eUICCMemoryReset never do:
\* their types are not in the schema.
Undecoded == RespondUnchanged("6A80")

\* _handle_set_dp_address calls a method Es10aHandler does not have.
HandleSetDpAddress == RespondUnchanged("6F00")

\* load_euicc_package is given a CHOICE, a pair, and takes it for a dict.
HandleIotPackage == RespondUnchanged("6F00")

\* GetEuiccInfo1 and 2, GetEUICCInformation, GetEID, the configured addresses
\* and SGP.32's RetrieveNotificationsList
HandleRead == RespondUnchanged("9000")

\* configure_auto_enable and enable_using_dd keep nothing.
HandleAutoEnable == RespondUnchanged("9000")

\* Associations and certificates of SGP.32: nothing of this module's state.
HandleIot == RespondUnchanged("9000")

\* A profile's ICCID and AID are given to the codec as text, which it refuses.
HandleGetProfiles ==
  \/ profiles = <<>> /\ RespondUnchanged("9000")
  \/ profiles # <<>> /\ RespondUnchanged("6F00")

\* So is a notification's operation, as bytes instead of a bit string.
HandleListNotifications ==
  \/ notifications = <<>> /\ RespondUnchanged("9000")
  \/ notifications # <<>> /\ RespondUnchanged("6F00")

-----------------------------------------------------------------------------
(* Commands that change profiles, notifications or the session *)

HandleGetChallenge == GetEuiccChallenge /\ RespondResult

HandleAuthenticateServer ==
  /\ AuthenticateServer
  /\ \/ result'.code = Raised /\ RespondUnencoded
     \/ result'.code # Raised /\ RespondResult

\* The raw smdpSigned2 is not passed on, so that no signature is looked at.
HandlePrepareDownload(transaction_id) ==
  /\ PrepareDownload(transaction_id)
  /\ result'.code # 2
  /\ \/ result'.code = Raised /\ RespondUnencoded
     \/ result'.code # Raised /\ RespondResult

\* The answer holds a profileInstallationResult where the schema wants its
\* fields: profile installed or not, the response is an error.
HandleLoadBpp(bpp) == LoadBoundProfilePackage(bpp) /\ RespondUnencoded

\* The answer is a dict where the schema has a CHOICE.
HandleCancelSession(transaction_id) == CancelSession(transaction_id) /\ RespondUnencoded

HandleProfileRollback == ProfileRollback /\ RespondResult

HandleRemoveNotification(seq_number) ==
  /\ RemoveNotification(seq_number)
  /\ RespondResult
  /\ UNCHANGED <<sessionVars, signed, historyVars>>

HandleSetNickname(iccid) ==
  /\ SetNickname(iccid)
  /\ RespondResult
  /\ UNCHANGED <<sessionVars, signed, historyVars>>

-----------------------------------------------------------------------------

\* Whatever a command without an effect on this module's state may be.
DispatchNeutral ==
  \/ Unidentified \/ UnknownTag \/ Undecoded
  \/ HandleSetDpAddress \/ HandleIotPackage
  \/ HandleRead \/ HandleAutoEnable \/ HandleIot
  \/ HandleGetProfiles \/ HandleListNotifications

DispatchEffective ==
  \/ HandleGetChallenge
  \/ HandleAuthenticateServer
  \/ \E t \in Transactions \union {NoTransaction} :
       HandlePrepareDownload(t) \/ HandleCancelSession(t)
  \/ \E bpp \in BoundProfilePackage : HandleLoadBpp(bpp)
  \/ HandleProfileRollback
  \/ \E n \in 1..MaxNotificationSeq : HandleRemoveNotification(n)
  \/ \E iccid \in Iccids : HandleSetNickname(iccid)

NoResponse == [sw |-> "none", code |-> NoCode]
=============================================================================
