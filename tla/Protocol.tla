------------------------------ MODULE Protocol ------------------------------
(***************************************************************************)
(* The MeshCore companion protocol as coresplitter's core sees it: which   *)
(* first byte of a frame means what, and which frames answer a command.    *)
(*                                                                         *)
(* A command is a record [code, arg].  The bytes after the code matter to  *)
(* the multiplexer only through the contact key or the channel index they  *)
(* name and through their absence, which arg = NoArg stands for: a         *)
(* GET_CONTACTS without "since", a SEND_TELEMETRY_REQ about the radio      *)
(* itself (payload.len() == 4).                                            *)
(***************************************************************************)
EXTENDS Integers

CONSTANT NoArg          \* the argument of a command that carries none

Byte == 0..255

-----------------------------------------------------------------------------
(* Command codes, named as in CommandCode.                                 *)

AppStart        == 1
SendMsg         == 2
SendChanMsg     == 3
GetContacts     == 4
SetName         == 8
UpdateContact   == 9
GetMsg          == 10
SetRadio        == 11
SetTxPower      == 12
ResetPath       == 13
SetCoords       == 14
RemoveContact   == 15
ImportContact   == 18
GetBattery      == 20
SetTuning       == 21
DeviceQuery     == 22
GetContactByKey == 30
GetChannel      == 31
SetChannel      == 32
SetDevicePin    == 37
SetOtherParams  == 38
GetTelemetry    == 39
FactoryReset    == 51

(* Response codes, named as in ResponseCode.                               *)

Ok                == 0
Error             == 1
ContactStart      == 2
Contact           == 3
ContactEnd        == 4
SelfInfo          == 5
MsgSent           == 6
ContactMsgRecv    == 7
ChannelMsgRecv    == 8
NoMoreMsgs        == 10
Battery           == 12
DeviceInfo        == 13
ContactMsgRecvV3  == 16
ChannelMsgRecvV3  == 17
ChannelInfo       == 18
ChannelDataRecv   == 27
Advertisement     == 128
PathUpdate        == 129
Ack               == 130
MessagesWaiting   == 131
TelemetryResponse == 139

\* Codes with the high bit set are the radio's spontaneous push events.
is_push_event(code) == code >= 128

-----------------------------------------------------------------------------
(* What a request waits for.  Any: a single non-push frame.  OneOf: a      *)
(* single frame with a listed code.  Stream: any number of frames with a   *)
(* listed code, then the terminator.                                       *)

AnyReply      == [kind |-> "Any", codes |-> {}, terminator |-> Error]
OneOf(codes)  == [kind |-> "OneOf", codes |-> codes, terminator |-> Error]
Stream(codes, terminator) ==
  [kind |-> "Stream", codes |-> codes, terminator |-> terminator]

\* Commands that hand a packet to the mesh and are answered MSG_SENT.
SentCommands == {SendMsg, 26, 27, 36, 50, 52, 57}

\* Setters and actions that only ever answer OK or ERROR.
OkCommands ==
  {SendChanMsg, 6, 7, SetName, UpdateContact, SetRadio, SetTxPower, ResetPath,
   SetCoords, RemoveContact, 16, ImportContact, SetTuning, 25, 28, 29,
   SetChannel, 34, SetDevicePin, SetOtherParams, 41, FactoryReset, 54, 55, 58,
   61, 62, 63, 65}

\* Queries with one expected reply, as pairs <<command, reply>>.
Queries ==
  {<<AppStart, SelfInfo>>, <<5, 9>>, <<17, 11>>, <<GetBattery, Battery>>,
   <<DeviceQuery, DeviceInfo>>, <<GetContactByKey, Contact>>,
   <<GetChannel, ChannelInfo>>, <<33, 19>>, <<35, 20>>, <<40, 21>>,
   <<42, 22>>, <<43, 23>>, <<56, 24>>, <<59, 25>>, <<60, 26>>, <<64, 28>>,
   <<66, 29>>}

awaiting_for(cmd) ==
  CASE cmd.code = GetContacts -> Stream({ContactStart, Contact}, ContactEnd)
    [] cmd.code \in SentCommands -> OneOf({MsgSent})
    [] cmd.code = GetTelemetry ->
         OneOf(IF cmd.arg = NoArg THEN {TelemetryResponse} ELSE {MsgSent})
    [] cmd.code = GetMsg ->
         OneOf({ContactMsgRecv, ChannelMsgRecv, ContactMsgRecvV3,
                ChannelMsgRecvV3, ChannelDataRecv, NoMoreMsgs})
    [] cmd.code = 23 -> OneOf({14, 15})       \* EXPORT_PRIVATE_KEY
    [] cmd.code = 24 -> OneOf({Ok, 15})       \* IMPORT_PRIVATE_KEY
    [] cmd.code \in OkCommands -> OneOf({Ok})
    [] \E q \in Queries : q[1] = cmd.code ->
         OneOf({q[2] : q \in {r \in Queries : r[1] = cmd.code}})
    [] OTHER -> AnyReply

\* Mutant of Belongs: push events are not told from replies.
Belongs_PushesToo(awaiting, code) ==
  \/ is_push_event(code)
  \/ code \in {Error} \cup awaiting.codes

\* The two halves of Awaiting::classify: a frame with this code is part of
\* the reply; such a frame ends the request.
Belongs(awaiting, code) ==
  CASE awaiting.kind = "Any"    -> ~is_push_event(code)
    [] awaiting.kind = "OneOf"  -> code = Error \/ code \in awaiting.codes
    [] awaiting.kind = "Stream" ->
         code \in {Error, awaiting.terminator} \cup awaiting.codes

Completes(awaiting, code) ==
  awaiting.kind = "Stream" => code \in {Error, awaiting.terminator}

-----------------------------------------------------------------------------
(* What the cache knows, and which commands it can answer.  An entry is    *)
(* the head [code, arg] of the cached response: SELF_INFO, DEVICE_INFO and *)
(* BATTERY without an argument, CONTACT with its key, CHANNEL_INFO with    *)
(* its index.                                                              *)

CachedCodes == {Contact, SelfInfo, Battery, DeviceInfo, ChannelInfo}
Blobs == {[code |-> c, arg |-> NoArg] : c \in {SelfInfo, Battery, DeviceInfo}}

\* try_serve_from_cache: the command is answered without asking the radio.
ServedFromCache(cached, cmd) ==
  CASE cmd.code = AppStart    -> [code |-> SelfInfo, arg |-> NoArg] \in cached
    [] cmd.code = DeviceQuery -> [code |-> DeviceInfo, arg |-> NoArg] \in cached
    [] cmd.code = GetBattery  -> [code |-> Battery, arg |-> NoArg] \in cached
    [] cmd.code = GetContacts -> \E e \in cached : e.code = Contact
    [] cmd.code = GetChannel  ->
         [code |-> ChannelInfo, arg |-> cmd.arg] \in cached
    [] OTHER -> FALSE

\* The entries dispatch_to_radio deletes as soon as the command is sent.
EvictedBy(cmd) ==
  CASE cmd.code = RemoveContact -> {[code |-> Contact, arg |-> cmd.arg]}
    [] cmd.code = SetChannel    -> {[code |-> ChannelInfo, arg |-> cmd.arg]}
    [] cmd.code \in {SetName, SetRadio, SetTxPower, SetCoords, SetTuning,
                     SetDevicePin, SetOtherParams, FactoryReset} -> Blobs
    [] OTHER -> {}

\* cache_response: the cache once the frame has been seen.
CacheResponse(cached, frame) ==
  IF frame.code \in CachedCodes
  THEN cached \cup {[code |-> frame.code, arg |-> frame.arg]}
  ELSE cached

-----------------------------------------------------------------------------
(* The commands coresplitter issues on its own account.                    *)

FullSync        == [code |-> GetContacts, arg |-> NoArg]
ContactSync(k)  == [code |-> GetContactByKey, arg |-> k]
ChannelSync(i)  == [code |-> GetChannel, arg |-> i]

\* on_command_accepted: what is re-read from the radio once it accepted cmd.
RefreshAfter(cmd) ==
  CASE cmd.code \in {UpdateContact, ResetPath} -> <<ContactSync(cmd.arg)>>
    [] cmd.code = ImportContact -> <<FullSync>>
    [] OTHER -> << >>

=============================================================================
