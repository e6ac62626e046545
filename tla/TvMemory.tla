-------------------------------- MODULE TvMemory --------------------------------
(***************************************************************************)
(* What the manager remembers of TVs: URL, client key and MAC address, in  *)
(* memory and in the data file of its data directory; the details the TV   *)
(* sends; and what becomes of all this when connections end and the        *)
(* process stops.  LgTvManager has the tasks and their races: here the     *)
(* state machine is where its Inputs have led (status), and the caller     *)
(* connects when it is Disconnected.  A reset leaves what the ended task   *)
(* has sent to be read.  The network checker is taken not to work, a send  *)
(* to a running task not to fail, and the caller neither to cancel nor to  *)
(* test the connection.                                                    *)
(***************************************************************************)
EXTENDS Naturals, Sequences, SsapPayloads, TvCommands

CONSTANTS
    Url,            \* the TVs, by their WebSocket URL; a MAC address is named
                    \* after the TV as well
    Dir,            \* data directories
    Default,        \* the one that is used without with_data_dir
    None,           \* Option::None
    Connection,     \* the connections the caller asks for
    Commands,       \* the TvCommands the caller sends
    Faults,         \* "CreateFails", "WriteFails": the disk
    MaxStarts,      \* bound: manager instances
    MaxCalls,       \* bound: connections the caller asks for
    MaxUpdates      \* bound: updates in from_ws when the TV sends another answer

VARIABLES
    running,        \* there is a manager
    mgr,            \* its fields
    is_writing,     \* it is between File::create and write_all
    file,           \* lgtv_manager_data.json of each directory
    from_ws,        \* channel: updates of the WebSocket task
    link,           \* external: what the TV at the other end has been asked
    issued,         \* external: the client keys each TV accepts
    wol,            \* external: the last Wake-on-LAN packet
    answered,       \* history: details answered to the connected TV's requests
    leftover,       \* history: the TV whose answers the last reset left unread
    starts, calls

\* A key is named after the TV that issued it and the directory the manager kept
\* it in; or it was issued to another program, and the caller knows it.
Key == [tv : Url, client : Dir \cup {"other"}]

OtherKey(u) == [tv |-> u, client |-> "other"]

Detail == {"software", "inputs", "power", "system", "volume", "screen"}

ConnectionType ==
    [ url : Url \cup {None}, is_device : BOOLEAN, mac_addr : Url \cup {None},
      client_key : Key \cup {None}, force_pairing : BOOLEAN,
      initial_connect_retries : BOOLEAN, auto_reconnect : BOOLEAN ]

ASSUME MemoryAssumption ==
    /\ None \notin Url \cup Key \cup Connection /\ Default \in Dir
    /\ Connection \subseteq ConnectionType
    /\ \A c \in Connection :      \* a discovered MAC address is that of the URL's TV
           c.mac_addr \in {c.url, None} /\ (c.client_key # None => c.client_key.client = "other")
    /\ Commands \subseteq TvCommand
    /\ MaxStarts \in Nat /\ MaxCalls \in Nat /\ MaxUpdates \in Nat

mem_vars == <<running, mgr, is_writing, file, from_ws, link, issued, wol, answered,
              leftover, starts, calls>>

-----------------------------------------------------------------------------
(* The data file.                                                          *)

PersistedState == [ws_url : Url \cup {None}, client_key : Key \cup {None}, mac_addr : Url \cup {None}]

Nothing == [ws_url |-> None, client_key |-> None, mac_addr |-> None]

Unreadable(state) == [state |-> state, saved |-> Nothing]

IsReadable(f) == f.state = "whole"

ImportFrom(f, m) ==
    IF IsReadable(f)
    THEN [m EXCEPT !.ws_url = f.saved.ws_url,
                   !.client_key = f.saved.client_key,
                   !.mac_addr = f.saved.mac_addr]
    ELSE m

ImportPersistedState(m) == ImportFrom(file[m.data_dir], m)

-----------------------------------------------------------------------------
(* LgTvManager::new and the builder.                                       *)

NoDetails == [d \in Detail |-> None]

Blank ==
    [ data_dir |-> Default, ws_url |-> None, client_key |-> None, mac_addr |-> None,
      status |-> "Disconnected", details |-> NoDetails, connection_details |-> None,
      reconnect |-> "Inactive", is_pairing |-> FALSE, is_connection_initialized |-> FALSE,
      is_manual_disconnect_requested |-> FALSE, session_connection_count |-> 0 ]

New == ImportPersistedState(Blank)

\* Mutant of WithDataDir: what new() has imported is kept.
WithDataDirUncleared(m, dir) == ImportPersistedState([m EXCEPT !.data_dir = dir])

WithDataDir(m, dir) ==
    ImportPersistedState([m EXCEPT !.data_dir = dir, !.ws_url = None,
                                   !.client_key = None, !.mac_addr = None])

NoLink == [stage |-> "none", tv |-> None, request |-> None, asked |-> <<>>, subscribed |-> {}]

Start ==
    /\ ~running /\ running' = TRUE
    /\ starts < MaxStarts /\ starts' = starts + 1
    /\ \E dir \in Dir : mgr' = IF dir = Default THEN New ELSE WithDataDir(New, dir)
    /\ UNCHANGED <<is_writing, file, from_ws, link, issued, wol, answered, leftover, calls>>

\* The process ends, at any time; a file that was being written stays empty.
Stop ==
    /\ running /\ running' = FALSE
    /\ mgr' = Blank /\ is_writing' = FALSE
    /\ from_ws' = <<>> /\ link' = NoLink /\ answered' = {} /\ leftover' = None
    /\ UNCHANGED <<file, issued, wol, starts, calls>>

-----------------------------------------------------------------------------
(* The handlers' parts: functions from fields to fields.                   *)

\* Mutant of MacAddrFor: a host keeps whatever MAC address was persisted.
MacAddrPersisted(m, connection) ==
    IF connection.is_device THEN connection.mac_addr ELSE file[m.data_dir].saved.mac_addr

\* A host has the MAC address that was persisted for this very URL, if any.
MacAddrFor(m, connection) ==
    LET persisted == file[m.data_dir]
    IN  IF connection.is_device
        THEN connection.mac_addr
        ELSE IF IsReadable(persisted) /\ persisted.saved.ws_url = connection.url
             THEN persisted.saved.mac_addr
             ELSE None

\* Mutant of InitiateConnect: the URL is not looked at before it is used.
ConnectToAnyHost(m, connection) ==
    IF m.status # "Disconnected"
    THEN m
    ELSE [m EXCEPT !.client_key = IF connection.client_key = None THEN @ ELSE connection.client_key,
                   !.connection_details = connection,
                   !.reconnect = IF connection.initial_connect_retries THEN "Active" ELSE "Inactive",
                   !.status = "Connecting",
                   !.ws_url = connection.url,
                   !.mac_addr = MacAddrFor(m, connection)]

InitiateConnect(m, connection) ==
    LET keyed == IF connection.client_key = None
                 THEN m ELSE [m EXCEPT !.client_key = connection.client_key]
    IN  IF m.status # "Disconnected" \/ connection.url = None
        THEN keyed
        ELSE [keyed EXCEPT
                !.connection_details = connection,
                !.reconnect = IF connection.initial_connect_retries THEN "Active" ELSE "Inactive",
                !.status = "Connecting",
                !.ws_url = connection.url,
                !.mac_addr = MacAddrFor(m, connection)]

\* Mutant of InitializeManagerState: nothing is imported.
InitializeUnimported(m) ==
    LET cleared == [m EXCEPT !.details = NoDetails, !.is_connection_initialized = FALSE]
    IN  IF m.reconnect = "Active"
        THEN cleared
        ELSE [cleared EXCEPT
                !.connection_details = None, !.ws_url = None, !.mac_addr = None,
                !.session_connection_count = 0, !.is_pairing = FALSE]

\* A reconnect flow retains what it needs; then the file has its say, in any case.
InitializeFrom(f, m) ==
    LET cleared == [m EXCEPT !.details = NoDetails, !.is_connection_initialized = FALSE]
    IN  ImportFrom(f,
            IF m.reconnect = "Active"
            THEN cleared
            ELSE [cleared EXCEPT
                    !.connection_details = None, !.ws_url = None, !.mac_addr = None,
                    !.session_connection_count = 0, !.is_pairing = FALSE])

InitializeManagerState(m) == InitializeFrom(file[m.data_dir], m)

\* force_manager_reset, once the task is gone and the machine has taken the Reset.
ForceManagerReset(m) == InitializeManagerState([m EXCEPT !.status = "Disconnected"])

InitiateReconnect(m) ==
    IF m.ws_url = None
    THEN InitializeManagerState([m EXCEPT !.reconnect = "Inactive"])
    ELSE IF m.connection_details = None
         THEN m
         ELSE InitiateConnect(m, m.connection_details)

AutoReconnect(m) == m.connection_details # None /\ m.connection_details.auto_reconnect

OptionallyPrepareForReconnect(m) ==
    IF m.is_manual_disconnect_requested
    THEN m
    ELSE [m EXCEPT !.reconnect = IF AutoReconnect(m) THEN "Active" ELSE "Inactive"]

ShouldRetryConnectFailure(m) ==
    /\ m.connection_details # None
    /\ IF m.session_connection_count = 0
       THEN m.connection_details.initial_connect_retries
       ELSE m.connection_details.auto_reconnect

\* handle_disconnected, the machine being Disconnected.
HandleDisconnected(m) ==
    LET initialized == ForceManagerReset([m EXCEPT !.is_manual_disconnect_requested = FALSE])
    IN  IF initialized.reconnect # "Active" THEN initialized
        ELSE IF initialized.is_pairing
             THEN [initialized EXCEPT !.reconnect = "Inactive", !.is_pairing = FALSE]
             ELSE InitiateReconnect(initialized)

\* HandleConnectError: a reset, and perhaps another attempt.
HandleConnectError(m) ==
    LET reset == ForceManagerReset(m)
    IN  IF ShouldRetryConnectFailure(reset) /\ reset.reconnect = "Active"
        THEN InitiateReconnect(reset) ELSE reset

-----------------------------------------------------------------------------
(* The caller.                                                             *)

AtSelect == running /\ ~is_writing

\* There is no connection, or not yet: what from_ws still has is of an earlier one.
IsResting == mgr.status \in {"Disconnected", "Connecting"}

IsAnswer(update) == update.type = "response"

HasAnswers(updates) == \E k \in 1 .. Len(updates) : IsAnswer(updates[k])

\* The connection has become m, which holds nothing; from_ws_rx is what it was.
ConnectionReset(m) ==
    /\ mgr' = m /\ answered' = {}
    /\ leftover' = IF HasAnswers(from_ws') THEN mgr.ws_url ELSE None

\* A key in the settings is taken over even if the Connect is then refused, which
\* is why a caller in this model gives one only when it will not be.
MayConnect(connection) ==
    connection.client_key # None => mgr.status = "Disconnected" /\ connection.url # None

Connect ==
    /\ AtSelect
    /\ calls < MaxCalls /\ calls' = calls + 1
    /\ \E connection \in Connection :
           MayConnect(connection) /\ mgr' = InitiateConnect(mgr, connection)
    /\ UNCHANGED <<running, is_writing, file, from_ws, link, issued, wol, answered,
                   leftover, starts>>

\* The task is asked; or it has ended, unnoticed as yet, and the manager is reset.
SendTvCommand ==
    /\ AtSelect /\ mgr.status = "Communicating" /\ UNCHANGED from_ws
    /\ \/ /\ link.stage = "registered" /\ link.asked = <<>>
          /\ \E command \in Commands :
                 link' = [link EXCEPT !.asked = Append(@, RequestFor[command])]
          /\ UNCHANGED <<mgr, answered, leftover>>
       \/ /\ link.stage = "none"
          /\ ConnectionReset(ForceManagerReset(mgr))
          /\ UNCHANGED link
    /\ UNCHANGED <<running, is_writing, file, issued, wol, starts, calls>>

\* initiate_disconnect_from_tv: a task that has ended cannot be told, hence the reset.
DisconnectFromTv(m) ==
    \/ /\ link.stage # "none" /\ link' = [link EXCEPT !.stage = "closing"]
       /\ mgr' = [m EXCEPT !.status = "Disconnecting"]
       /\ UNCHANGED <<answered, leftover>>
    \/ /\ link.stage = "none" /\ UNCHANGED link
       /\ ConnectionReset(ForceManagerReset(m))

Disconnect ==
    /\ AtSelect /\ mgr.status = "Communicating" /\ UNCHANGED from_ws
    /\ DisconnectFromTv([mgr EXCEPT !.is_manual_disconnect_requested = TRUE])
    /\ UNCHANGED <<running, is_writing, file, issued, wol, starts, calls>>

\* The packet goes to the TV of the file, whatever the manager is connected to.
WakeLastSeenTv ==
    LET f == file[mgr.data_dir]
    IN  /\ AtSelect /\ IsReadable(f)
        /\ f.saved.ws_url # None /\ f.saved.mac_addr # None
        /\ wol' = [ip |-> f.saved.ws_url, mac |-> f.saved.mac_addr]
        /\ UNCHANGED <<running, mgr, is_writing, file, from_ws, link, issued, answered,
                       leftover, starts, calls>>

-----------------------------------------------------------------------------
(* The connection.                                                         *)

\* A new task has a new from_ws_rx: what is unread of an earlier one is dropped.

ConnectError ==
    /\ AtSelect /\ mgr.status = "Connecting" /\ from_ws' = <<>>
    /\ ConnectionReset(HandleConnectError(OptionallyPrepareForReconnect(mgr)))
    /\ UNCHANGED <<running, is_writing, file, link, issued, wol, starts, calls>>

\* Connected, and SendRegisterPayload: the TV has the register request.
Connected ==
    /\ AtSelect /\ mgr.status = "Connecting" /\ from_ws' = <<>>
    /\ mgr' = [mgr EXCEPT !.status = "Connected", !.reconnect = "Inactive",
                          !.session_connection_count = 1]
    /\ link' = [NoLink EXCEPT
                  !.stage = "registering", !.tv = mgr.connection_details.url,
                  !.request = RegisterRequest(mgr.client_key,
                                              mgr.connection_details.force_pairing)]
    /\ UNCHANGED <<running, is_writing, file, issued, wol, answered, leftover, starts, calls>>

Disconnected(is_lost) == [type |-> "disconnected", is_lost |-> is_lost]

\* Connected, but lost again before SendRegisterPayload: the failing send resets a
\* manager whose flow is Inactive by then, and the loss is read after that.
RegisterFails ==
    /\ AtSelect /\ mgr.status = "Connecting"
    /\ from_ws' = <<Disconnected(TRUE)>>
    /\ ConnectionReset(ForceManagerReset([mgr EXCEPT !.reconnect = "Inactive"]))
    /\ UNCHANGED <<running, is_writing, file, link, issued, wol, starts, calls>>

Handled == from_ws' = Tail(from_ws)

IsNext(type) == AtSelect /\ from_ws # <<>> /\ Head(from_ws).type = type

Paired ==
    /\ IsNext("pair") /\ Handled
    /\ mgr' = IF mgr.status = "Connected"
              THEN [mgr EXCEPT !.status = "Pairing", !.is_pairing = TRUE] ELSE mgr
    /\ UNCHANGED <<running, is_writing, file, link, issued, wol, answered, leftover,
                   starts, calls>>

Saved(m) ==
    [state |-> "whole",
     saved |-> [ws_url |-> m.ws_url, client_key |-> m.client_key, mac_addr |-> m.mac_addr]]

\* The rest of the handler, the file being f: the connection is initialized, unless
\* the task is gone, and each of the requests finds it so and resets the manager.
InitializeConnection(f, m) ==
    LET initial == [k \in 1 .. Len(InitialCommands) |-> RequestFor[InitialCommands[k]]]
    IN  /\ Handled
        /\ \/ /\ link.stage # "none" /\ link' = [link EXCEPT !.asked = initial]
              /\ mgr' = [m EXCEPT !.status = "Initializing", !.is_pairing = FALSE]
              /\ UNCHANGED <<answered, leftover>>
           \/ /\ link.stage = "none" /\ UNCHANGED link
              /\ ConnectionReset(
                     InitializeFrom(f, [m EXCEPT !.status = "Disconnected", !.is_pairing = FALSE]))

\* The key is stored, and the file created, which empties it.
Registered ==
    LET keyed == [mgr EXCEPT !.client_key = Head(from_ws).client_key]
    IN  /\ IsNext("registered")
        /\ \/ /\ file' = [file EXCEPT ![mgr.data_dir] = Unreadable("empty")]
              /\ is_writing' = TRUE /\ mgr' = keyed
              /\ UNCHANGED <<from_ws, link, answered, leftover>>
           \/ /\ "CreateFails" \in Faults
              /\ InitializeConnection(file[mgr.data_dir], keyed)
              /\ UNCHANGED <<file, is_writing>>
        /\ UNCHANGED <<running, issued, wol, starts, calls>>

\* The file is written, or left as it is.
FinishRegistered ==
    /\ running /\ is_writing /\ is_writing' = FALSE
    /\ \E f \in {Saved(mgr)}
                  \cup IF "WriteFails" \in Faults THEN {file[mgr.data_dir]} ELSE {} :
           /\ file' = [file EXCEPT ![mgr.data_dir] = f]
           /\ InitializeConnection(f, mgr)
    /\ UNCHANGED <<running, issued, wol, starts, calls>>

\* The detail a payload is stored as; other payloads are looked at and dropped.
DetailOf ==
    [ CurrentSwInfo |-> "software", GetExternalInputList |-> "inputs",
      GetPowerState |-> "power", GetSystemInfo |-> "system",
      GetVolumeVariantA |-> "volume", GetVolumeVariantB |-> "volume",
      SetScreenOn |-> "screen" ]

\* Which detail the TV has been asked for; of a power or volume setting, none.
AskedDetail ==
    [ getCurrentSWInformation |-> "software", getExternalInputList |-> "inputs",
      getPowerState |-> "power", getSystemInfo |-> "system", getVolume |-> "volume",
      turnScreen |-> "screen" ]

StoreDetail(m, variant, u) ==
    IF variant \in DOMAIN DetailOf THEN [m EXCEPT !.details[DetailOf[variant]] = u] ELSE m

CommandResponse ==
    LET answer == Head(from_ws)
        variant == Decode(answer.fields)
        stored == StoreDetail(mgr, variant, answer.tv)
    IN  /\ IsNext("response") /\ Handled
        /\ mgr' = IF variant \notin {"GetVolumeVariantA", "GetVolumeVariantB"} THEN stored
                  ELSE [stored EXCEPT
                          !.is_connection_initialized = TRUE,
                          !.status = IF @ = "Initializing" /\ ~mgr.is_connection_initialized
                                     THEN "Communicating" ELSE @]
        /\ answered' = IF answer.uri \in DOMAIN AskedDetail /\ ~IsResting
                       THEN answered \cup {AskedDetail[answer.uri]} ELSE answered
        /\ UNCHANGED <<running, is_writing, file, link, issued, wol, leftover, starts, calls>>

\* A pairing error: the machine disconnects.
TvError ==
    /\ IsNext("error") /\ Handled
    /\ DisconnectFromTv(OptionallyPrepareForReconnect(mgr))
    /\ UNCHANGED <<running, is_writing, file, issued, wol, starts, calls>>

\* The connection has been closed as it was told to, or lost (is_lost).
HandleDisconnect ==
    LET m == IF Head(from_ws).is_lost THEN OptionallyPrepareForReconnect(mgr) ELSE mgr
    IN  /\ IsNext("disconnected") /\ ~IsResting /\ Handled
        /\ ConnectionReset(HandleDisconnected(m))
        /\ UNCHANGED <<running, is_writing, file, link, issued, wol, starts, calls>>

\* The loss is reported before the task has ended, which it has when it is told to
\* disconnect: a reset comes first, the machine refuses the DisconnectionComplete.
ResetOnLoss ==
    /\ IsNext("disconnected") /\ ~IsResting /\ Handled
    /\ Head(from_ws).is_lost /\ mgr.status # "Disconnecting"
    /\ ConnectionReset(ForceManagerReset(OptionallyPrepareForReconnect(mgr)))
    /\ UNCHANGED <<running, is_writing, file, link, issued, wol, starts, calls>>

\* The end of a connection that was reset before: an Error that a machine which is
\* Connecting again takes for its own.
LateDisconnect ==
    LET m == IF Head(from_ws).is_lost THEN OptionallyPrepareForReconnect(mgr) ELSE mgr
    IN  /\ IsNext("disconnected") /\ IsResting /\ Handled
        /\ \/ /\ mgr.status = "Connecting" /\ Head(from_ws).is_lost
              /\ ConnectionReset(HandleConnectError(m))
           \/ /\ mgr.status = "Disconnected" \/ ~Head(from_ws).is_lost
              /\ mgr' = m /\ UNCHANGED <<answered, leftover>>
        /\ UNCHANGED <<running, is_writing, file, link, issued, wol, starts, calls>>

-----------------------------------------------------------------------------
(* The TV and the WebSocket task, external: each answers in order.         *)

Sends(update) == from_ws' = Append(from_ws, update)

TvLeavesManagerAlone ==
    UNCHANGED <<running, mgr, is_writing, file, wol, answered, leftover, starts, calls>>

IsAccepted(request) ==
    request.client_key \in issued[link.tv] /\ ~request.force_pairing

TvRegisters ==
    /\ link.stage = "registering"
    /\ IF IsAccepted(link.request)
       THEN /\ Sends([type |-> "registered", client_key |-> link.request.client_key])
            /\ link' = [link EXCEPT !.stage = "registered"]
       ELSE /\ Sends([type |-> "pair"])
            /\ link' = [link EXCEPT !.stage = "prompting"]
    /\ UNCHANGED issued
    /\ TvLeavesManagerAlone

TvPairs ==
    LET client_key == [tv |-> link.tv, client |-> mgr.data_dir]
    IN  /\ link.stage = "prompting"
        /\ Sends([type |-> "registered", client_key |-> client_key])
        /\ link' = [link EXCEPT !.stage = "registered"]
        /\ issued' = [issued EXCEPT ![link.tv] = @ \cup {client_key}]
        /\ TvLeavesManagerAlone

TvDeclines ==
    /\ link.stage = "prompting"
    /\ Sends([type |-> "error"])
    /\ link' = [link EXCEPT !.stage = "declined"]
    /\ UNCHANGED issued
    /\ TvLeavesManagerAlone

\* What a TV may answer, by endpoint; a setting is confirmed in one of two ways.
Answers(uri) ==
    CASE uri = "getCurrentSWInformation" -> {RequiredFields("CurrentSwInfo")}
      [] uri = "getExternalInputList" -> {RequiredFields("GetExternalInputList")}
      [] uri = "getPowerState" -> {RequiredFields("GetPowerState"),
                                   RequiredFields("GetPowerState") \cup {"processing"}}
      [] uri = "getSystemInfo" -> {RequiredFields("GetSystemInfo") \cup {"features"}}
      [] uri = "getVolume" -> {RequiredFields("GetVolumeVariantA") \cup {"callerId"},
                               RequiredFields("GetVolumeVariantB") \cup {"soundOutput"}}
      [] uri = "setMute" -> {RequiredFields("SetMute"), {"returnValue"}}
      [] uri = "turnScreen" -> {RequiredFields("SetScreenOn")}
      [] uri \in {"setVolume", "volumeUp", "volumeDown"} ->
             {RequiredFields("SetVolume"), {"returnValue"}}
      [] OTHER -> {{"returnValue"}}

Answer(uri) ==
    \E fields \in Answers(uri) :
        Sends([type |-> "response", tv |-> link.tv, uri |-> uri, fields |-> fields])

TvAnswers ==
    LET request == Head(link.asked)
    IN  /\ link.stage = "registered" /\ link.asked # <<>> /\ Len(from_ws) < MaxUpdates
        /\ Answer(request.uri)
        /\ link' = [link EXCEPT
                      !.asked = Tail(@),
                      !.subscribed = IF request.type = "subscribe"
                                     THEN @ \cup {request.uri} ELSE @]
        /\ UNCHANGED issued
        /\ TvLeavesManagerAlone

TvNotifies ==
    /\ link.stage = "registered" /\ Len(from_ws) < MaxUpdates
    /\ \E uri \in link.subscribed : Answer(uri)
    /\ UNCHANGED <<link, issued>>
    /\ TvLeavesManagerAlone

\* The connection ends, with or without having been told to; the last update.
LinkEnds ==
    /\ link.stage # "none"
    /\ Sends(Disconnected(link.stage # "closing"))
    /\ link' = NoLink
    /\ UNCHANGED issued
    /\ TvLeavesManagerAlone

-----------------------------------------------------------------------------

Init ==
    /\ running = FALSE /\ mgr = Blank /\ is_writing = FALSE
    /\ file = [d \in Dir |-> Unreadable("absent")]
    /\ from_ws = <<>> /\ link = NoLink
    /\ issued = [u \in Url |-> {OtherKey(u)}]
    /\ wol = None /\ answered = {} /\ leftover = None
    /\ starts = 0 /\ calls = 0

Lifetime == Start \/ Stop

Caller == Connect \/ SendTvCommand \/ Disconnect \/ WakeLastSeenTv

Manager ==
    \/ ConnectError \/ Connected \/ RegisterFails
    \/ Paired \/ Registered \/ FinishRegistered \/ CommandResponse \/ TvError
    \/ HandleDisconnect \/ ResetOnLoss \/ LateDisconnect

Tv == TvRegisters \/ TvPairs \/ TvDeclines \/ TvAnswers \/ TvNotifies \/ LinkEnds

Next == Lifetime \/ Caller \/ Manager \/ Tv

Spec == Init /\ [][Next]_mem_vars

-----------------------------------------------------------------------------

\* Every variable has its type, and a live status a connection to the URL in use.
TypeOK ==
    /\ running \in BOOLEAN /\ is_writing \in BOOLEAN
    /\ mgr.data_dir \in Dir
    /\ mgr.status # "Disconnected" =>
           mgr.ws_url \in Url /\ mgr.ws_url = mgr.connection_details.url
    /\ mgr.ws_url \in Url \cup {None} /\ mgr.mac_addr \in Url \cup {None}
    /\ mgr.client_key \in Key \cup {None}
    /\ mgr.connection_details \in Connection \cup {None}
    /\ mgr.details \in [Detail -> Url \cup {None}]
    /\ \A d \in Dir : /\ file[d].state \in {"absent", "empty", "whole"}
                      /\ file[d].saved \in PersistedState
    /\ issued \in [Url -> SUBSET Key]
    /\ answered \subseteq Detail
    /\ leftover \in Url \cup {None}

\* The manager shows each detail the connected TV has answered, as that TV's and
\* stored as what it is.  Of other details it shows none, unless a forced reset has
\* left answers of the TV before unread, which are stored after it (that this is not
\* as it should be is ConnectionsBeginAnew); or unless the answer to turnOnScreen has
\* been stored as the power state whose shape it has.
DetailsAreTheAnswers ==
    \A d \in Detail :
        mgr.details[d] \in
            IF d \in answered \ {"screen"}
            THEN {mgr.connection_details.url}
            ELSE {None, leftover}
                     \cup IF d = "power" /\ "screen" \in answered
                          THEN {mgr.connection_details.url} ELSE {}

\* A URL and a MAC address that are kept together are those of one TV: in memory, on
\* disk, and in a Wake-on-LAN packet.  In a file the key is of that TV, too; in memory
\* it need not be: the key of the TV before stays, until the new one has registered.
KeptTogetherMeansOneTv ==
    /\ mgr.mac_addr \in {mgr.ws_url, None}
    /\ \A d \in Dir : IsReadable(file[d]) =>
           /\ file[d].saved.mac_addr \in {file[d].saved.ws_url, None}
           /\ file[d].saved.client_key.tv = file[d].saved.ws_url
    /\ wol # None => wol.mac = wol.ip

\* A data directory is a world of its own: no key passes from one to another.
KeysStayInTheirDirectory ==
    /\ mgr.client_key # None => mgr.client_key.client \in {mgr.data_dir, "other"}
    /\ \A d \in Dir : IsReadable(file[d]) => file[d].saved.client_key.client \in {d, "other"}

\* After a crash, a failed write, another TV or another instance: the TV in the
\* file is not asked to pair again, unless the caller's settings say so.
KnownTvIsNotPrompted ==
    LET saved == file[mgr.data_dir].saved
    IN  link.stage = "registering"
            /\ IsReadable(file[mgr.data_dir]) /\ saved.ws_url = link.tv
            /\ mgr.connection_details.client_key = None
            /\ ~mgr.connection_details.force_pairing
        => IsAccepted(link.request)
=============================================================================
