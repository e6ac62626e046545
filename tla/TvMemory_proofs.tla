----------------------------- MODULE TvMemory_proofs -----------------------------
(***************************************************************************)
(* Theorems about what the manager remembers, for any TVs, directories,    *)
(* connections, commands, faults and bounds: fields have their types, a    *)
(* URL and a MAC address that are kept together are of one TV, and in a    *)
(* file the key is, too; keys stay in their directory; the TV in the file  *)
(* is not prompted again; and the details shown are the connected TV's     *)
(* answers, but for those a reset has left unread.                         *)
(***************************************************************************)
EXTENDS TvMemory, SequenceTheorems, TLAPS

Status == {"Disconnected", "Connecting", "Connected", "Pairing", "Initializing",
           "Communicating", "Disconnecting"}

Mgr ==
    [ data_dir : Dir, ws_url : Url \cup {None}, client_key : Key \cup {None},
      mac_addr : Url \cup {None}, status : Status, details : [Detail -> Url \cup {None}],
      connection_details : Connection \cup {None}, reconnect : {"Active", "Inactive"},
      is_pairing : BOOLEAN, is_connection_initialized : BOOLEAN,
      is_manual_disconnect_requested : BOOLEAN, session_connection_count : {0, 1} ]

File == [state : {"absent", "empty", "whole"}, saved : PersistedState]

TvRequest == {RequestFor[command] : command \in TvCommand}

Uri == {request.uri : request \in TvRequest}

Link ==
    [ stage : {"none", "registering", "prompting", "registered", "declined", "closing"},
      tv : Url \cup {None},
      request : [type : {"register"}, client_key : Key \cup {None}, force_pairing : BOOLEAN]
                    \cup {None},
      asked : Seq(TvRequest), subscribed : SUBSET Uri ]

Update ==
    [type : {"pair", "error"}] \cup [type : {"registered"}, client_key : Key]
        \cup [type : {"response"}, tv : Url, uri : Uri, fields : UNION {Answers(uri) : uri \in Uri}]
        \cup [type : {"disconnected"}, is_lost : BOOLEAN]

Types ==
    /\ running \in BOOLEAN /\ is_writing \in BOOLEAN
    /\ file \in [Dir -> File]
    /\ from_ws \in Seq(Update)
    /\ link \in Link
    /\ issued \in [Url -> SUBSET Key]
    /\ answered \subseteq Detail
    /\ leftover \in Url \cup {None}

\* The fields agree with one another.
FieldsAgree(m) ==
    /\ m \in Mgr
    /\ m.status # "Disconnected" =>
           /\ m.connection_details \in Connection /\ m.ws_url \in Url
           /\ m.ws_url = m.connection_details.url
    /\ m.connection_details # None => m.connection_details.url # None
    /\ m.mac_addr \in {m.ws_url, None}
    /\ m.client_key # None => m.client_key.client \in {m.data_dir, "other"}

\* A readable file of a directory has a key its TV accepts.
FileAgrees(f, d) ==
    IsReadable(f) =>
        /\ f.saved.ws_url \in Url
        /\ f.saved.client_key \in issued[f.saved.ws_url]
        /\ f.saved.client_key.client \in {d, "other"}
        /\ f.saved.mac_addr \in {f.saved.ws_url, None}

FilesAgree == \A d \in Dir : FileAgrees(file[d], d)

KeysNameTheirTv == \A u \in Url : \A k \in issued[u] : k.tv = u

\* Before a connection, the key in memory is the file's, unless the caller gave one.
KeyIsFrom(f, m) ==
    /\ IsReadable(f)
    /\ m.status = "Disconnected" \/ m.connection_details.client_key = None
    => m.client_key = f.saved.client_key

KeyIsTheFiles(m) == KeyIsFrom(file[m.data_dir], m)

Resting(m) == m.status \in {"Disconnected", "Connecting"}

\* The manager is not connected, and ready for another attempt.
AtRest(m) == FieldsAgree(m) /\ KeyIsTheFiles(m) /\ Resting(m)

Registering(m) == m.status \in {"Connected", "Pairing"}

MayPersist(k) == k \in issued[mgr.ws_url] /\ k.client \in {mgr.data_dir, "other"}

\* Only a live connection has a TV.
LinkAgrees ==
    /\ ~running => mgr = Blank /\ link = NoLink /\ from_ws = <<>> /\ ~is_writing
    /\ Resting(mgr) => link.stage = "none" /\ ~is_writing
    /\ running /\ Resting(mgr) => KeyIsTheFiles(mgr)
    /\ link.stage # "none" => link.tv = mgr.ws_url
    /\ link.stage \in {"registering", "prompting"} => Registering(mgr)

\* What comes once the registration is over, and may be left over by a reset.
IsLate(update) == update.type \in {"response", "disconnected"}

\* The end of a connection is the last of its updates.
EndIsLast(updates) ==
    \A k \in 1 .. Len(updates) : updates[k].type = "disconnected" =>
        k = Len(updates) /\ link.stage = "none"

KeysMayBeKept ==
    /\ \A k \in 1 .. Len(from_ws) : from_ws[k].type = "registered" =>
           MayPersist(from_ws[k].client_key)
    /\ is_writing => /\ from_ws # <<>> /\ Head(from_ws).type = "registered"
                     /\ MayPersist(mgr.client_key)

\* Pair; then Registered or Error; then the rest.
UpdatesInOrder ==
    /\ \A k \in 1 .. Len(from_ws) : \A j \in 1 .. Len(from_ws) :
           j < k /\ from_ws[j].type # "pair" => IsLate(from_ws[k])
    /\ ~Registering(mgr) => \A k \in 1 .. Len(from_ws) : IsLate(from_ws[k])
    /\ link.stage = "prompting" => \A k \in 1 .. Len(from_ws) : from_ws[k].type = "pair"

UpdatesAgree == EndIsLast(from_ws) /\ KeysMayBeKept /\ UpdatesInOrder

\* The TV is asked with the key in memory.
RequestAgrees ==
    link.stage = "registering" =>
        /\ from_ws = <<>> /\ KeyIsTheFiles(mgr)
        /\ link.request = RegisterRequest(mgr.client_key, mgr.connection_details.force_pairing)

WakesOneTv == wol # None => wol.mac = wol.ip

MemoryInv ==
    /\ Types
    /\ FieldsAgree(mgr)
    /\ FilesAgree
    /\ KeysNameTheirTv
    /\ LinkAgrees
    /\ UpdatesAgree
    /\ RequestAgrees
    /\ WakesOneTv

-----------------------------------------------------------------------------
(* The handlers' parts.                                                    *)

LEMMA BlankAgrees == FieldsAgree(Blank) /\ Blank.status = "Disconnected"
BY MemoryAssumption DEF Blank, FieldsAgree, Mgr, Status, NoDetails

\* What is imported from a file agrees with itself, and is what the file says.
LEMMA ImportAgrees ==
    ASSUME NEW f \in File, NEW m, FieldsAgree(m), m.status = "Disconnected",
           FileAgrees(f, m.data_dir)
    PROVE  /\ FieldsAgree(ImportFrom(f, m)) /\ KeyIsFrom(f, ImportFrom(f, m))
           /\ ImportFrom(f, m).status = "Disconnected"
           /\ ImportFrom(f, m).data_dir = m.data_dir
<1> DEFINE r == ImportFrom(f, m)
<1>1. m \in Mgr
    BY DEF FieldsAgree
<1>2. CASE ~IsReadable(f)
    BY <1>2 DEF ImportFrom, KeyIsFrom
<1>3. CASE IsReadable(f)
    <2>1. r = [m EXCEPT !.ws_url = f.saved.ws_url, !.client_key = f.saved.client_key,
                        !.mac_addr = f.saved.mac_addr]
        BY <1>3 DEF ImportFrom
    <2>2. f.saved \in PersistedState
        BY DEF File
    <2>3. /\ f.saved.ws_url \in Url /\ f.saved.client_key.client \in {m.data_dir, "other"}
          /\ f.saved.mac_addr \in {f.saved.ws_url, None}
        BY <1>3 DEF FileAgrees
    <2>4. r \in Mgr
        BY <1>1, <2>1, <2>2 DEF Mgr, PersistedState
    <2>5. /\ r.data_dir = m.data_dir /\ r.status = "Disconnected"
          /\ r.ws_url = f.saved.ws_url /\ r.client_key = f.saved.client_key
          /\ r.mac_addr = f.saved.mac_addr /\ r.connection_details = m.connection_details
        BY <1>1, <2>1 DEF Mgr
    <2>6. FieldsAgree(r)
        BY <2>3, <2>4, <2>5 DEF FieldsAgree
    <2> QED
        BY <2>5, <2>6 DEF KeyIsFrom
<1> QED
    BY <1>2, <1>3

LEMMA InitializeAgrees ==
    ASSUME NEW f \in File, NEW m, FieldsAgree(m), m.status = "Disconnected",
           FileAgrees(f, m.data_dir)
    PROVE  /\ FieldsAgree(InitializeFrom(f, m)) /\ KeyIsFrom(f, InitializeFrom(f, m))
           /\ InitializeFrom(f, m).status = "Disconnected"
           /\ InitializeFrom(f, m).data_dir = m.data_dir
<1> DEFINE cleared == [m EXCEPT !.details = NoDetails, !.is_connection_initialized = FALSE]
           forgotten == [cleared EXCEPT
                           !.connection_details = None, !.ws_url = None, !.mac_addr = None,
                           !.session_connection_count = 0, !.is_pairing = FALSE]
<1>1. NoDetails \in [Detail -> Url \cup {None}]
    BY DEF NoDetails
<1>2. /\ FieldsAgree(cleared) /\ cleared.status = "Disconnected"
      /\ cleared.data_dir = m.data_dir
    BY <1>1 DEF FieldsAgree, Mgr
<1>3. /\ FieldsAgree(forgotten) /\ forgotten.status = "Disconnected"
      /\ forgotten.data_dir = m.data_dir
    BY <1>2 DEF FieldsAgree, Mgr
<1>4. InitializeFrom(f, m) \in {ImportFrom(f, cleared), ImportFrom(f, forgotten)}
    BY DEF InitializeFrom
<1> HIDE DEF cleared, forgotten
<1>5. /\ FieldsAgree(ImportFrom(f, cleared)) /\ KeyIsFrom(f, ImportFrom(f, cleared))
      /\ ImportFrom(f, cleared).status = "Disconnected"
      /\ ImportFrom(f, cleared).data_dir = m.data_dir
    BY <1>2, ImportAgrees
<1>6. /\ FieldsAgree(ImportFrom(f, forgotten)) /\ KeyIsFrom(f, ImportFrom(f, forgotten))
      /\ ImportFrom(f, forgotten).status = "Disconnected"
      /\ ImportFrom(f, forgotten).data_dir = m.data_dir
    BY <1>3, ImportAgrees
<1> QED
    BY <1>4, <1>5, <1>6

LEMMA TheFileAgrees ==
    ASSUME NEW m, FieldsAgree(m), file \in [Dir -> File], FilesAgree
    PROVE  file[m.data_dir] \in File /\ FileAgrees(file[m.data_dir], m.data_dir)
BY DEF FieldsAgree, Mgr, FilesAgree

LEMMA ImportRests ==
    ASSUME NEW m, FieldsAgree(m), m.status = "Disconnected",
           file \in [Dir -> File], FilesAgree
    PROVE  AtRest(ImportPersistedState(m)) /\ ImportPersistedState(m).status = "Disconnected"
BY TheFileAgrees, ImportAgrees DEF ImportPersistedState, AtRest, KeyIsTheFiles, Resting

LEMMA InitializeRests ==
    ASSUME NEW m, FieldsAgree(m), m.status = "Disconnected",
           file \in [Dir -> File], FilesAgree
    PROVE  /\ AtRest(InitializeManagerState(m))
           /\ InitializeManagerState(m).status = "Disconnected"
BY TheFileAgrees, InitializeAgrees DEF InitializeManagerState, AtRest, KeyIsTheFiles, Resting

LEMMA ForcedResetAgrees ==
    ASSUME NEW m, FieldsAgree(m), file \in [Dir -> File], FilesAgree
    PROVE  AtRest(ForceManagerReset(m)) /\ ForceManagerReset(m).status = "Disconnected"
<1> DEFINE n == [m EXCEPT !.status = "Disconnected"]
<1>1. FieldsAgree(n) /\ n.status = "Disconnected"
    BY DEF FieldsAgree, Mgr, Status
<1>2. ForceManagerReset(m) = InitializeManagerState(n)
    BY DEF ForceManagerReset
<1> HIDE DEF n
<1> QED
    BY <1>1, <1>2, InitializeRests

LEMMA MacAgrees ==
    ASSUME NEW m, m \in Mgr, NEW connection \in Connection, connection.url # None,
           file \in [Dir -> File], FilesAgree
    PROVE  MacAddrFor(m, connection) \in {connection.url, None} \cap (Url \cup {None})
<1>1. connection \in ConnectionType /\ connection.mac_addr \in {connection.url, None}
    BY MemoryAssumption
<1>2. m.data_dir \in Dir /\ file[m.data_dir] \in File
    BY DEF Mgr
<1> QED
    BY <1>1, <1>2 DEF MacAddrFor, ConnectionType, FilesAgree, FileAgrees, File, PersistedState

\* A key in the settings is only given to a manager that will take the connection.
LEMMA ConnectAgrees ==
    ASSUME NEW m, AtRest(m), m.status = "Disconnected", NEW connection \in Connection,
           connection.client_key # None => connection.url # None,
           file \in [Dir -> File], FilesAgree
    PROVE  AtRest(InitiateConnect(m, connection))
<1> DEFINE keyed == IF connection.client_key = None
                    THEN m ELSE [m EXCEPT !.client_key = connection.client_key]
<1>1. m \in Mgr /\ connection \in ConnectionType
    BY MemoryAssumption DEF AtRest, FieldsAgree
<1>2. CASE connection.url = None
    <2>1. InitiateConnect(m, connection) = m
        BY <1>2 DEF InitiateConnect
    <2> QED
        BY <2>1
<1>3. CASE connection.url # None
    <2> DEFINE r == InitiateConnect(m, connection)
    <2>1. /\ r = [keyed EXCEPT
                    !.connection_details = connection,
                    !.reconnect = IF connection.initial_connect_retries
                                  THEN "Active" ELSE "Inactive",
                    !.status = "Connecting",
                    !.ws_url = connection.url,
                    !.mac_addr = MacAddrFor(m, connection)]
        BY <1>3 DEF InitiateConnect, MacAddrFor
    <2>2. keyed \in Mgr
        BY <1>1 DEF Mgr, ConnectionType
    <2>3. /\ MacAddrFor(m, connection) \in Url \cup {None}
          /\ MacAddrFor(m, connection) \in {connection.url, None}
        BY <1>1, <1>3, MacAgrees
    <2>4. connection.url \in Url
        BY <1>1, <1>3 DEF ConnectionType
    <2> HIDE DEF keyed
    <2>5. r \in Mgr
        BY <2>1, <2>2, <2>3, <2>4 DEF Mgr, Status
    <2>6. /\ r.data_dir = keyed.data_dir /\ r.client_key = keyed.client_key
          /\ r.status = "Connecting" /\ r.connection_details = connection
          /\ r.ws_url = connection.url /\ r.mac_addr = MacAddrFor(m, connection)
        BY <2>1, <2>2 DEF Mgr
    <2>7. /\ keyed.data_dir = m.data_dir
          /\ connection.client_key = None => keyed.client_key = m.client_key
          /\ keyed.client_key # None => keyed.client_key.client \in {m.data_dir, "other"}
        BY <1>1, MemoryAssumption DEF keyed, Mgr, AtRest, FieldsAgree
    <2>8. FieldsAgree(r)
        BY <1>3, <2>3, <2>4, <2>5, <2>6, <2>7 DEF FieldsAgree
    <2>9. KeyIsTheFiles(r)
        BY <2>6, <2>7 DEF KeyIsTheFiles, KeyIsFrom, AtRest
    <2> QED
        BY <2>6, <2>8, <2>9 DEF AtRest, Resting
<1> QED
    BY <1>2, <1>3

LEMMA ReconnectAgrees ==
    ASSUME NEW m, AtRest(m), m.status = "Disconnected",
           file \in [Dir -> File], FilesAgree
    PROVE  AtRest(InitiateReconnect(m))
<1>1. CASE m.ws_url = None
    <2> DEFINE n == [m EXCEPT !.reconnect = "Inactive"]
    <2>1. FieldsAgree(n) /\ n.status = "Disconnected"
        BY DEF AtRest, FieldsAgree, Mgr
    <2>2. InitiateReconnect(m) = InitializeManagerState(n)
        BY <1>1 DEF InitiateReconnect
    <2> HIDE DEF n
    <2> QED
        BY <2>1, <2>2, InitializeRests
<1>2. CASE m.ws_url # None /\ m.connection_details = None
    BY <1>2 DEF InitiateReconnect
<1>3. CASE m.ws_url # None /\ m.connection_details # None
    <2>1. m.connection_details \in Connection /\ m.connection_details.url # None
        BY <1>3 DEF AtRest, FieldsAgree, Mgr
    <2>2. InitiateReconnect(m) = InitiateConnect(m, m.connection_details)
        BY <1>3 DEF InitiateReconnect
    <2> QED
        BY <2>1, <2>2, ConnectAgrees
<1> QED
    BY <1>1, <1>2, <1>3

\* What the end of a connection, and a failed attempt, leave behind.
LEMMA DisconnectedAgrees ==
    ASSUME NEW m, FieldsAgree(m), file \in [Dir -> File], FilesAgree
    PROVE  AtRest(HandleDisconnected(m))
<1> DEFINE n == [m EXCEPT !.is_manual_disconnect_requested = FALSE]
           i == ForceManagerReset(n)
           p == [i EXCEPT !.reconnect = "Inactive", !.is_pairing = FALSE]
<1>1. FieldsAgree(n)
    BY DEF FieldsAgree, Mgr
<1>2. AtRest(i) /\ i.status = "Disconnected"
    <2> HIDE DEF n
    <2> QED
        BY <1>1, ForcedResetAgrees
<1>3. HandleDisconnected(m) \in {i, p, InitiateReconnect(i)}
    BY DEF HandleDisconnected
<1> HIDE DEF i
<1>4. AtRest(p)
    BY <1>2 DEF AtRest, FieldsAgree, Mgr, KeyIsTheFiles, KeyIsFrom, Resting
<1>5. AtRest(InitiateReconnect(i))
    BY <1>2, ReconnectAgrees
<1> QED
    BY <1>2, <1>3, <1>4, <1>5

LEMMA ConnectErrorAgrees ==
    ASSUME NEW m, FieldsAgree(m), file \in [Dir -> File], FilesAgree
    PROVE  AtRest(HandleConnectError(m))
<1> DEFINE i == ForceManagerReset(m)
<1>1. AtRest(i) /\ i.status = "Disconnected"
    BY ForcedResetAgrees
<1>2. HandleConnectError(m) \in {i, InitiateReconnect(i)}
    BY DEF HandleConnectError
<1> HIDE DEF i
<1>3. AtRest(InitiateReconnect(i))
    BY <1>1, ReconnectAgrees
<1> QED
    BY <1>1, <1>2, <1>3

LEMMA PrepareAgrees ==
    ASSUME NEW m, FieldsAgree(m)
    PROVE  LET n == OptionallyPrepareForReconnect(m)
           IN  /\ FieldsAgree(n)
               /\ n.status = m.status /\ n.client_key = m.client_key /\ n.ws_url = m.ws_url
               /\ n.data_dir = m.data_dir /\ n.details = m.details
               /\ n.connection_details = m.connection_details
BY DEF OptionallyPrepareForReconnect, FieldsAgree, Mgr

-----------------------------------------------------------------------------
(* Parts of the invariant that a step may leave alone.                     *)

LEMMA FilesUnchanged ==
    ASSUME FilesAgree, UNCHANGED <<file, issued>>
    PROVE  FilesAgree'
BY DEF FilesAgree, FileAgrees, IsReadable

\* What agrees with the file goes on to, while the file stays as it is.
LEMMA KeyStays ==
    ASSUME UNCHANGED file, KeyIsTheFiles(mgr')
    PROVE  KeyIsTheFiles(mgr)'
BY DEF KeyIsTheFiles, KeyIsFrom, IsReadable

\* A manager without a connection, ready for the next; some updates may be left over.
LEMMA RestAgrees ==
    ASSUME MemoryInv, running' = TRUE, is_writing' = FALSE,
           FieldsAgree(mgr'), Resting(mgr'), KeyIsTheFiles(mgr)',
           from_ws' \in Seq(Update), \A k \in 1 .. Len(from_ws') : IsLate(from_ws'[k]),
           EndIsLast(from_ws)', link' \in Link, link'.stage = "none",
           file' \in [Dir -> File], FilesAgree', UNCHANGED <<issued, wol>>,
           answered' \subseteq Detail, leftover' \in Url \cup {None}
    PROVE  MemoryInv'
<1>1. Types'
    BY DEF MemoryInv, Types
<1>2. FieldsAgree(mgr)'
    BY DEF FieldsAgree
<1>3. KeysNameTheirTv' /\ WakesOneTv'
    BY DEF MemoryInv, KeysNameTheirTv, WakesOneTv
<1>4. LinkAgrees' /\ RequestAgrees'
    BY DEF LinkAgrees, RequestAgrees, Resting
<1>5. KeysMayBeKept'
    BY DEF KeysMayBeKept, IsLate
<1>6. UpdatesInOrder'
    BY DEF UpdatesInOrder, IsLate
<1> QED
    BY <1>1, <1>2, <1>3, <1>4, <1>5, <1>6 DEF MemoryInv, UpdatesAgree

\* A reset, whatever it leaves unread.
LEMMA ResetAgrees ==
    ASSUME MemoryInv, NEW m, AtRest(m), ConnectionReset(m), running' = TRUE, is_writing' = FALSE,
           from_ws' \in Seq(Update), \A k \in 1 .. Len(from_ws') : IsLate(from_ws'[k]),
           EndIsLast(from_ws)', link' \in Link, link'.stage = "none",
           UNCHANGED <<file, issued, wol>>
    PROVE  MemoryInv'
<1>1. mgr' = m /\ answered' = {} /\ leftover' \in {mgr.ws_url, None}
    BY DEF ConnectionReset
<1>2. FieldsAgree(mgr') /\ Resting(mgr') /\ KeyIsTheFiles(mgr)'
    BY <1>1, KeyStays DEF AtRest
<1>3. leftover' \in Url \cup {None}
    BY <1>1 DEF MemoryInv, FieldsAgree, Mgr
<1>4. file' \in [Dir -> File] /\ FilesAgree'
    BY FilesUnchanged DEF MemoryInv, Types
<1> QED
    BY <1>1, <1>2, <1>3, <1>4, RestAgrees

\* Nothing the invariant speaks of changes.
LEMMA MemoryUnchanged ==
    ASSUME MemoryInv, UNCHANGED <<running, mgr, is_writing, file, from_ws, link, issued, wol>>,
           UNCHANGED <<answered, leftover>>
    PROVE  MemoryInv'
<1>1. Types' /\ FieldsAgree(mgr)' /\ FilesAgree' /\ KeysNameTheirTv' /\ WakesOneTv'
    BY FilesUnchanged DEF MemoryInv, Types, FieldsAgree, KeysNameTheirTv, WakesOneTv
<1>2. LinkAgrees' /\ RequestAgrees'
    BY DEF MemoryInv, LinkAgrees, RequestAgrees, KeyIsTheFiles, KeyIsFrom, IsReadable,
           Resting, Registering
<1>3. UpdatesAgree'
    BY DEF MemoryInv, UpdatesAgree, EndIsLast, KeysMayBeKept, UpdatesInOrder, MayPersist,
           Registering, IsLate
<1> QED
    BY <1>1, <1>2, <1>3 DEF MemoryInv

-----------------------------------------------------------------------------
(* What the TV is asked.                                                   *)

LEMMA InitialRequestsType ==
    [k \in 1 .. Len(InitialCommands) |-> RequestFor[InitialCommands[k]]] \in Seq(TvRequest)
<1>1. \A k \in 1 .. Len(InitialCommands) : InitialCommands[k] \in
          {"GetCurrentSWInfo", "GetExternalInputList", "GetPowerState", "GetSystemInfo",
           "SubscribeGetVolume", "SubscribeGetPowerState"}
    BY DEF InitialCommands
<1>2. \A k \in 1 .. Len(InitialCommands) : InitialCommands[k] \in TvCommand
    BY <1>1 DEF TvCommand, RequestFor
<1>3. Len(InitialCommands) \in Nat
    BY DEF InitialCommands
<1> QED
    BY <1>2, <1>3 DEF TvRequest

LEMMA NoLinkType == NoLink \in Link
<1>1. <<>> \in Seq(TvRequest)
    OBVIOUS
<1> QED
    BY <1>1 DEF NoLink, Link

-----------------------------------------------------------------------------
(* The steps.                                                              *)

LEMMA MemoryInit == Init => MemoryInv
<1> SUFFICES ASSUME Init PROVE MemoryInv
    OBVIOUS
<1>1. Types
    <2>1. <<>> \in Seq(Update)
        OBVIOUS
    <2>2. NoLink \in Link
        BY NoLinkType
    <2>3. Unreadable("absent") \in File
        BY DEF Unreadable, Nothing, File, PersistedState
    <2>4. \A u \in Url : OtherKey(u) \in Key
        BY DEF OtherKey, Key
    <2> QED
        BY <2>1, <2>2, <2>3, <2>4 DEF Init, Types
<1>2. FieldsAgree(mgr)
    BY BlankAgrees DEF Init
<1>3. FilesAgree
    BY DEF Init, FilesAgree, FileAgrees, IsReadable, Unreadable
<1>4. KeysNameTheirTv
    BY DEF Init, KeysNameTheirTv, OtherKey
<1>5. LinkAgrees /\ RequestAgrees
    BY DEF Init, LinkAgrees, RequestAgrees, NoLink, Blank, Resting
<1>6. UpdatesAgree
    BY DEF Init, UpdatesAgree, EndIsLast, KeysMayBeKept, UpdatesInOrder
<1>7. WakesOneTv
    BY DEF Init, WakesOneTv
<1> QED
    BY <1>1, <1>2, <1>3, <1>4, <1>5, <1>6, <1>7 DEF MemoryInv

LEMMA LifetimeStep == MemoryInv /\ Lifetime => MemoryInv'
<1> SUFFICES ASSUME MemoryInv, Lifetime PROVE MemoryInv'
    OBVIOUS
<1>0. Types /\ file \in [Dir -> File] /\ FilesAgree
    BY DEF MemoryInv, Types
<1>1. CASE Start
    <2>1. UNCHANGED <<is_writing, file, from_ws, link, issued, wol, answered, leftover>>
          /\ running' = TRUE
        BY <1>1 DEF Start
    <2>2. link = NoLink /\ from_ws = <<>> /\ is_writing = FALSE
        BY <1>0, <1>1 DEF MemoryInv, Start, LinkAgrees, Types
    <2>3. AtRest(New) /\ New.status = "Disconnected"
        BY <1>0, BlankAgrees, ImportRests DEF New
    <2>4. ASSUME NEW dir \in Dir
          PROVE  AtRest(WithDataDir(New, dir))
        <3> DEFINE c == [New EXCEPT !.data_dir = dir, !.ws_url = None,
                                    !.client_key = None, !.mac_addr = None]
        <3>1. FieldsAgree(c) /\ c.status = "Disconnected"
            BY <2>3 DEF AtRest, FieldsAgree, Mgr
        <3>2. WithDataDir(New, dir) = ImportPersistedState(c)
            BY DEF WithDataDir
        <3> HIDE DEF c
        <3> QED
            BY <1>0, <3>1, <3>2, ImportRests
    <2>5. AtRest(mgr')
        BY <1>1, <2>3, <2>4 DEF Start
    <2>6. /\ from_ws' = <<>> /\ link'.stage = "none" /\ link' \in Link /\ is_writing' = FALSE
          /\ answered' \subseteq Detail /\ leftover' \in Url \cup {None}
          /\ file' \in [Dir -> File]
        BY <1>0, <2>1, <2>2 DEF NoLink, Types
    <2>7. /\ from_ws' \in Seq(Update) /\ \A k \in 1 .. Len(from_ws') : IsLate(from_ws'[k])
          /\ EndIsLast(from_ws)'
        BY <2>6 DEF EndIsLast
    <2>8. FieldsAgree(mgr') /\ Resting(mgr') /\ KeyIsTheFiles(mgr)' /\ FilesAgree'
        BY <1>0, <2>1, <2>5, KeyStays, FilesUnchanged DEF AtRest
    <2> QED
        BY <2>1, <2>6, <2>7, <2>8, RestAgrees
<1>2. CASE Stop
    <2>1. UNCHANGED <<file, issued, wol>> /\ mgr' = Blank /\ link' = NoLink /\ from_ws' = <<>>
          /\ is_writing' = FALSE /\ running' = FALSE /\ answered' = {} /\ leftover' = None
        BY <1>2 DEF Stop
    <2>2. <<>> \in Seq(Update)
        OBVIOUS
    <2>3. Types'
        BY <1>0, <2>1, <2>2, NoLinkType DEF Types
    <2>4. FieldsAgree(mgr)'
        BY <2>1, BlankAgrees DEF FieldsAgree
    <2>5. LinkAgrees' /\ RequestAgrees' /\ WakesOneTv' /\ KeysNameTheirTv'
        BY <2>1 DEF MemoryInv, LinkAgrees, RequestAgrees, WakesOneTv, KeysNameTheirTv, NoLink
    <2>6. UpdatesAgree'
        BY <2>1 DEF UpdatesAgree, EndIsLast, KeysMayBeKept, UpdatesInOrder, NoLink
    <2> QED
        BY <1>0, <2>1, <2>3, <2>4, <2>5, <2>6, FilesUnchanged DEF MemoryInv
<1> QED
    BY <1>1, <1>2 DEF Lifetime

\* Without a registration under way there are only late updates.
LEMMA UpdatesAreLate ==
    ASSUME MemoryInv, ~Registering(mgr)
    PROVE  \A k \in 1 .. Len(from_ws) : IsLate(from_ws[k])
BY DEF MemoryInv, UpdatesAgree, UpdatesInOrder

\* The manager tells the task to disconnect, or finds that it has ended.
LEMMA DisconnectFromTvAgrees ==
    ASSUME MemoryInv, running' = TRUE, is_writing' = FALSE, NEW m, FieldsAgree(m),
           ~Resting(mgr), m.status = mgr.status, m.ws_url = mgr.ws_url,
           DisconnectFromTv(m), from_ws' \in Seq(Update), EndIsLast(from_ws'),
           \A k \in 1 .. Len(from_ws') : IsLate(from_ws'[k]), UNCHANGED <<file, issued, wol>>
    PROVE  MemoryInv'
<1>1. Types /\ link \in Link /\ file \in [Dir -> File] /\ FilesAgree
    BY DEF MemoryInv, Types
<1>2. CASE link.stage = "none"
    <2>1. UNCHANGED link /\ ConnectionReset(ForceManagerReset(m))
        BY <1>2 DEF DisconnectFromTv
    <2>2. AtRest(ForceManagerReset(m))
        BY <1>1, ForcedResetAgrees
    <2>3. EndIsLast(from_ws)' /\ link' \in Link /\ link'.stage = "none"
        BY <1>1, <1>2, <2>1 DEF EndIsLast
    <2> QED
        BY <2>1, <2>2, <2>3, ResetAgrees
<1>3. CASE link.stage # "none"
    <2>1. /\ link' = [link EXCEPT !.stage = "closing"]
          /\ mgr' = [m EXCEPT !.status = "Disconnecting"]
          /\ UNCHANGED <<answered, leftover>>
        BY <1>3 DEF DisconnectFromTv
    <2>2. link' \in Link /\ link'.tv = link.tv /\ link'.stage = "closing"
        BY <1>1, <2>1 DEF Link
    <2>3. FieldsAgree(mgr') /\ mgr'.status = "Disconnecting" /\ mgr'.ws_url = mgr.ws_url
        BY <2>1 DEF FieldsAgree, Mgr, Status, Resting
    <2>4. Types' /\ FieldsAgree(mgr)'
        BY <1>1, <2>1, <2>2, <2>3 DEF Types, FieldsAgree
    <2>5. FilesAgree' /\ KeysNameTheirTv' /\ WakesOneTv'
        BY <1>1, FilesUnchanged DEF MemoryInv, KeysNameTheirTv, WakesOneTv
    <2>6. LinkAgrees' /\ RequestAgrees'
        BY <1>3, <2>2, <2>3 DEF MemoryInv, LinkAgrees, RequestAgrees, Resting
    <2>7. EndIsLast(from_ws)'
        BY <1>3 DEF EndIsLast
    <2>8. KeysMayBeKept'
        BY DEF KeysMayBeKept, IsLate
    <2>9. UpdatesInOrder'
        BY <2>2 DEF UpdatesInOrder, IsLate
    <2> QED
        BY <2>4, <2>5, <2>6, <2>7, <2>8, <2>9 DEF MemoryInv, UpdatesAgree
<1> QED
    BY <1>2, <1>3

LEMMA ConnectStep == MemoryInv /\ Connect => MemoryInv'
<1> SUFFICES ASSUME MemoryInv, Connect PROVE MemoryInv'
    OBVIOUS
<1>1. /\ UNCHANGED <<running, is_writing, file, from_ws, link, issued, wol, answered, leftover>>
      /\ running = TRUE /\ is_writing = FALSE
    BY DEF MemoryInv, Types, Connect, AtSelect
<1>2. PICK connection \in Connection :
          MayConnect(connection) /\ mgr' = InitiateConnect(mgr, connection)
    BY DEF Connect
<1>3. Types /\ FieldsAgree(mgr) /\ FilesAgree /\ EndIsLast(from_ws)
    BY DEF MemoryInv, UpdatesAgree
<1>4. CASE mgr.status = "Disconnected"
    <2>1. AtRest(mgr) /\ link.stage = "none"
        BY <1>1, <1>3, <1>4 DEF MemoryInv, LinkAgrees, AtRest, Resting
    <2>2. AtRest(mgr')
        BY <1>2, <1>3, <1>4, <2>1, ConnectAgrees DEF MayConnect, Types
    <2>3. FieldsAgree(mgr') /\ Resting(mgr') /\ KeyIsTheFiles(mgr)' /\ FilesAgree'
        BY <1>1, <1>3, <2>2, KeyStays, FilesUnchanged DEF AtRest
    <2>4. EndIsLast(from_ws)'
        BY <1>1, <1>3 DEF EndIsLast
    <2>5. \A k \in 1 .. Len(from_ws') : IsLate(from_ws'[k])
        BY <1>1, <1>4, UpdatesAreLate DEF Registering
    <2>6. /\ from_ws' \in Seq(Update) /\ link' \in Link /\ link'.stage = "none"
          /\ file' \in [Dir -> File] /\ answered' \subseteq Detail
          /\ leftover' \in Url \cup {None}
        BY <1>1, <1>3, <2>1 DEF Types
    <2> QED
        BY <1>1, <2>3, <2>4, <2>5, <2>6, RestAgrees
<1>5. CASE mgr.status # "Disconnected"
    <2>1. mgr' = mgr
        BY <1>2, <1>5 DEF MayConnect, InitiateConnect
    <2> QED
        BY <1>1, <2>1, MemoryUnchanged
<1> QED
    BY <1>4, <1>5

LEMMA SendTvCommandStep == MemoryInv /\ SendTvCommand => MemoryInv'
<1> SUFFICES ASSUME MemoryInv, SendTvCommand PROVE MemoryInv'
    OBVIOUS
<1>1. /\ UNCHANGED <<running, is_writing, file, from_ws, issued, wol>>
      /\ running = TRUE /\ is_writing = FALSE /\ mgr.status = "Communicating"
    BY DEF MemoryInv, Types, SendTvCommand, AtSelect
<1>2. Types /\ FieldsAgree(mgr) /\ FilesAgree /\ EndIsLast(from_ws) /\ link \in Link
    BY DEF MemoryInv, UpdatesAgree, Types
<1>3. CASE link.stage = "none"
    <2>1. ConnectionReset(ForceManagerReset(mgr)) /\ UNCHANGED link
        BY <1>3 DEF SendTvCommand
    <2>2. AtRest(ForceManagerReset(mgr))
        BY <1>2, ForcedResetAgrees DEF Types
    <2>3. \A k \in 1 .. Len(from_ws') : IsLate(from_ws'[k])
        BY <1>1, UpdatesAreLate DEF Registering
    <2>4. EndIsLast(from_ws)' /\ from_ws' \in Seq(Update) /\ link' \in Link
        BY <1>1, <1>2, <2>1 DEF EndIsLast, Types
    <2> QED
        BY <1>1, <1>3, <2>1, <2>2, <2>3, <2>4, ResetAgrees
<1>4. CASE link.stage # "none"
    <2>1. /\ UNCHANGED <<mgr, answered, leftover>> /\ link.stage = "registered"
          /\ \E command \in Commands :
                 link' = [link EXCEPT !.asked = Append(@, RequestFor[command])]
        BY <1>4 DEF SendTvCommand
    <2>2. PICK command \in Commands :
              link' = [link EXCEPT !.asked = Append(@, RequestFor[command])]
        BY <2>1
    <2>3. RequestFor[command] \in TvRequest
        BY MemoryAssumption DEF TvRequest
    <2>4. link' \in Link /\ link.stage' = link.stage /\ link.tv' = link.tv
        <3>1. link.asked \in Seq(TvRequest)
            BY <1>2 DEF Link
        <3>2. Append(link.asked, RequestFor[command]) \in Seq(TvRequest)
            BY <2>3, <3>1
        <3> QED
            BY <1>2, <2>2, <3>2 DEF Link
    <2>5. Types' /\ FieldsAgree(mgr)' /\ FilesAgree' /\ KeysNameTheirTv' /\ WakesOneTv'
        BY <1>1, <1>2, <2>1, <2>4, FilesUnchanged
        DEF MemoryInv, Types, FieldsAgree, KeysNameTheirTv, WakesOneTv
    <2>6. LinkAgrees' /\ RequestAgrees'
        BY <1>1, <2>1, <2>4 DEF MemoryInv, LinkAgrees, RequestAgrees, Resting
    <2>7. UpdatesAgree'
        BY <1>1, <2>1, <2>4
        DEF MemoryInv, UpdatesAgree, EndIsLast, KeysMayBeKept, UpdatesInOrder, MayPersist,
            Registering, IsLate
    <2> QED
        BY <2>5, <2>6, <2>7 DEF MemoryInv
<1> QED
    BY <1>3, <1>4

LEMMA CallerStep == MemoryInv /\ Caller => MemoryInv'
<1> SUFFICES ASSUME MemoryInv, Caller PROVE MemoryInv'
    OBVIOUS
<1>1. CASE Disconnect
    <2> DEFINE n == [mgr EXCEPT !.is_manual_disconnect_requested = TRUE]
    <2>1. /\ UNCHANGED <<running, is_writing, file, from_ws, issued, wol>>
          /\ running = TRUE /\ is_writing = FALSE /\ mgr.status = "Communicating"
          /\ DisconnectFromTv(n)
        BY <1>1 DEF MemoryInv, Types, Disconnect, AtSelect
    <2>2. FieldsAgree(n) /\ n.status = mgr.status /\ n.ws_url = mgr.ws_url
        BY DEF MemoryInv, FieldsAgree, Mgr
    <2> HIDE DEF n
    <2>3. from_ws' \in Seq(Update) /\ EndIsLast(from_ws')
        BY <2>1 DEF MemoryInv, Types, UpdatesAgree, EndIsLast
    <2>4. \A k \in 1 .. Len(from_ws') : IsLate(from_ws'[k])
        BY <2>1, UpdatesAreLate DEF Registering
    <2> QED
        BY <2>1, <2>2, <2>3, <2>4, DisconnectFromTvAgrees DEF Resting
<1>2. CASE WakeLastSeenTv
    <2>1. /\ UNCHANGED <<running, mgr, is_writing, file, from_ws, link, issued>>
          /\ UNCHANGED <<answered, leftover>>
        BY <1>2 DEF WakeLastSeenTv
    <2>2. WakesOneTv'
        <3>1. mgr.data_dir \in Dir /\ FilesAgree
            BY DEF MemoryInv, FieldsAgree, Mgr
        <3> QED
            BY <1>2, <3>1 DEF WakeLastSeenTv, FilesAgree, FileAgrees, WakesOneTv
    <2>3. Types' /\ FieldsAgree(mgr)' /\ FilesAgree' /\ KeysNameTheirTv'
        BY <2>1, FilesUnchanged DEF MemoryInv, Types, FieldsAgree, KeysNameTheirTv
    <2>4. LinkAgrees' /\ RequestAgrees'
        BY <2>1 DEF MemoryInv, LinkAgrees, RequestAgrees, KeyIsTheFiles, KeyIsFrom,
                    IsReadable, Resting, Registering
    <2>5. UpdatesAgree'
        BY <2>1
        DEF MemoryInv, UpdatesAgree, EndIsLast, KeysMayBeKept, UpdatesInOrder, MayPersist,
            Registering, IsLate
    <2> QED
        BY <2>2, <2>3, <2>4, <2>5 DEF MemoryInv
<1> QED
    BY <1>1, <1>2, ConnectStep, SendTvCommandStep DEF Caller

-----------------------------------------------------------------------------
(* The connection.                                                         *)

LEMMA ConnectErrorStep == MemoryInv /\ ConnectError => MemoryInv'
<1> SUFFICES ASSUME MemoryInv, ConnectError PROVE MemoryInv'
    OBVIOUS
<1> DEFINE m == HandleConnectError(OptionallyPrepareForReconnect(mgr))
<1>1. /\ UNCHANGED <<running, is_writing, file, link, issued, wol>> /\ from_ws' = <<>>
      /\ running = TRUE /\ is_writing = FALSE /\ mgr.status = "Connecting"
      /\ ConnectionReset(m)
    BY DEF MemoryInv, Types, ConnectError, AtSelect
<1>2. AtRest(m)
    BY PrepareAgrees, ConnectErrorAgrees DEF MemoryInv, Types
<1> HIDE DEF m
<1>3. link' \in Link /\ link'.stage = "none"
    BY <1>1 DEF MemoryInv, Types, LinkAgrees, Resting
<1>4. /\ from_ws' \in Seq(Update) /\ EndIsLast(from_ws)'
      /\ \A k \in 1 .. Len(from_ws') : IsLate(from_ws'[k])
    BY <1>1 DEF EndIsLast
<1> QED
    BY <1>1, <1>2, <1>3, <1>4, ResetAgrees

LEMMA RegisterFailsStep == MemoryInv /\ RegisterFails => MemoryInv'
<1> SUFFICES ASSUME MemoryInv, RegisterFails PROVE MemoryInv'
    OBVIOUS
<1> DEFINE n == [mgr EXCEPT !.reconnect = "Inactive"]
           lost == Disconnected(TRUE)
<1>1. /\ UNCHANGED <<running, is_writing, file, link, issued, wol>> /\ from_ws' = <<lost>>
      /\ running = TRUE /\ is_writing = FALSE /\ mgr.status = "Connecting"
      /\ ConnectionReset(ForceManagerReset(n))
    BY DEF MemoryInv, Types, RegisterFails, AtSelect
<1>2. FieldsAgree(n)
    BY DEF MemoryInv, FieldsAgree, Mgr
<1> HIDE DEF n
<1>3. AtRest(ForceManagerReset(n))
    BY <1>2, ForcedResetAgrees DEF MemoryInv, Types
<1>4. link' \in Link /\ link'.stage = "none"
    BY <1>1 DEF MemoryInv, Types, LinkAgrees, Resting
<1>5. lost \in Update /\ IsLate(lost)
    BY DEF Disconnected, Update, IsLate
<1> HIDE DEF lost
<1>6. /\ from_ws' \in Seq(Update) /\ EndIsLast(from_ws)'
      /\ \A k \in 1 .. Len(from_ws') : IsLate(from_ws'[k])
    BY <1>1, <1>4, <1>5 DEF EndIsLast
<1> QED
    BY <1>1, <1>3, <1>4, <1>6, ResetAgrees

LEMMA ConnectedStep == MemoryInv /\ Connected => MemoryInv'
<1> SUFFICES ASSUME MemoryInv, Connected PROVE MemoryInv'
    OBVIOUS
<1>1. /\ UNCHANGED <<running, is_writing, file, issued, wol, answered, leftover>>
      /\ from_ws' = <<>> /\ running /\ mgr.status = "Connecting" /\ ~is_writing
    BY DEF Connected, AtSelect
<1>2. mgr' = [mgr EXCEPT !.status = "Connected", !.reconnect = "Inactive",
                         !.session_connection_count = 1]
    BY DEF Connected
<1>3. link' = [NoLink EXCEPT
                 !.stage = "registering", !.tv = mgr.connection_details.url,
                 !.request = RegisterRequest(mgr.client_key,
                                             mgr.connection_details.force_pairing)]
    BY DEF Connected
<1>4. KeyIsTheFiles(mgr) /\ Types
    BY <1>1 DEF MemoryInv, LinkAgrees, Resting
<1>5. /\ mgr \in Mgr /\ mgr.connection_details \in ConnectionType
      /\ mgr.ws_url \in Url /\ mgr.ws_url = mgr.connection_details.url
    BY <1>1, MemoryAssumption DEF MemoryInv, FieldsAgree
<1>6. FieldsAgree(mgr)' /\ mgr.status' = "Connected" /\ mgr.ws_url' = mgr.ws_url
      /\ mgr.client_key' = mgr.client_key /\ mgr.data_dir' = mgr.data_dir
      /\ mgr.connection_details' = mgr.connection_details
    BY <1>1, <1>2 DEF MemoryInv, FieldsAgree, Mgr, Status
<1>7. RegisterRequest(mgr.client_key, mgr.connection_details.force_pairing)
          \in [type : {"register"}, client_key : Key \cup {None}, force_pairing : BOOLEAN]
    BY <1>5 DEF RegisterRequest, Mgr, ConnectionType
<1>8. link' \in Link /\ link.stage' = "registering" /\ link.tv' = mgr.ws_url
      /\ link.request' = RegisterRequest(mgr.client_key, mgr.connection_details.force_pairing)
    BY <1>3, <1>5, <1>7, NoLinkType DEF Link
<1>9. Types' /\ WakesOneTv' /\ FilesAgree' /\ KeysNameTheirTv'
    BY <1>1, <1>4, <1>8, FilesUnchanged DEF MemoryInv, Types, WakesOneTv, KeysNameTheirTv
<1>10. KeyIsTheFiles(mgr)'
    BY <1>1, <1>4, <1>6 DEF KeyIsTheFiles, KeyIsFrom, IsReadable
<1>11. LinkAgrees' /\ RequestAgrees'
    BY <1>1, <1>6, <1>8, <1>10
    DEF LinkAgrees, RequestAgrees, RegisterRequest, Resting, Registering
<1>12. UpdatesAgree'
    BY <1>1, <1>6, <1>8 DEF UpdatesAgree, EndIsLast, KeysMayBeKept, UpdatesInOrder
<1> QED
    BY <1>6, <1>9, <1>11, <1>12 DEF MemoryInv

\* What handling an update does to those behind it.
LEMMA HandledUpdate ==
    ASSUME from_ws \in Seq(Update), from_ws # <<>>, Handled
    PROVE  /\ from_ws' \in Seq(Update) /\ Head(from_ws) \in Update
           /\ Head(from_ws) = from_ws[1] /\ 1 \in 1 .. Len(from_ws)
           /\ Len(from_ws') = Len(from_ws) - 1 /\ Len(from_ws) \in Nat \ {0}
           /\ \A k \in 1 .. Len(from_ws') :
                  from_ws'[k] = from_ws[k + 1] /\ k + 1 \in 1 .. Len(from_ws)
BY DEF Handled

\* Those behind it agree with the manager and the link it was handled with.
LEMMA TailAgrees ==
    ASSUME MemoryInv, from_ws # <<>>, Handled
    PROVE  /\ from_ws' \in Seq(Update) /\ EndIsLast(from_ws')
           /\ \A k \in 1 .. Len(from_ws') : from_ws'[k].type = "registered" =>
                  MayPersist(from_ws'[k].client_key)
           /\ \A k \in 1 .. Len(from_ws') : \A j \in 1 .. Len(from_ws') :
                  j < k /\ from_ws'[j].type # "pair" => IsLate(from_ws'[k])
           /\ ~Registering(mgr) \/ Head(from_ws).type # "pair" =>
                  \A k \in 1 .. Len(from_ws') : IsLate(from_ws'[k])
           /\ link.stage = "prompting" =>
                  \A k \in 1 .. Len(from_ws') : from_ws'[k].type = "pair"
<1>1. from_ws \in Seq(Update) /\ EndIsLast(from_ws) /\ KeysMayBeKept /\ UpdatesInOrder
    BY DEF MemoryInv, Types, UpdatesAgree
<1>2. /\ from_ws' \in Seq(Update) /\ Head(from_ws) = from_ws[1] /\ 1 \in 1 .. Len(from_ws)
      /\ Len(from_ws') = Len(from_ws) - 1 /\ Len(from_ws) \in Nat \ {0}
      /\ \A k \in 1 .. Len(from_ws') :
            from_ws'[k] = from_ws[k + 1] /\ k + 1 \in 1 .. Len(from_ws)
    BY <1>1, HandledUpdate
<1>3. EndIsLast(from_ws')
    BY <1>1, <1>2 DEF EndIsLast
<1>4. \A k \in 1 .. Len(from_ws') : from_ws'[k].type = "registered" =>
          MayPersist(from_ws'[k].client_key)
    BY <1>1, <1>2 DEF KeysMayBeKept
<1>5. \A k \in 1 .. Len(from_ws') : \A j \in 1 .. Len(from_ws') :
          j < k /\ from_ws'[j].type # "pair" => IsLate(from_ws'[k])
    <2> SUFFICES ASSUME NEW k \in 1 .. Len(from_ws'), NEW j \in 1 .. Len(from_ws'),
                        j < k, from_ws'[j].type # "pair"
                 PROVE  IsLate(from_ws'[k])
        OBVIOUS
    <2>1. j + 1 < k + 1 /\ from_ws[j + 1].type # "pair"
        BY <1>2
    <2> QED
        BY <1>1, <1>2, <2>1 DEF UpdatesInOrder
<1>6. ASSUME Head(from_ws).type # "pair", NEW k \in 1 .. Len(from_ws')
      PROVE  IsLate(from_ws'[k])
    <2>1. 1 < k + 1 /\ k + 1 \in 1 .. Len(from_ws)
        BY <1>2
    <2> QED
        BY <1>1, <1>2, <1>6, <2>1 DEF UpdatesInOrder
<1>7. ASSUME ~Registering(mgr), NEW k \in 1 .. Len(from_ws') PROVE IsLate(from_ws'[k])
    BY <1>1, <1>2, <1>7 DEF UpdatesInOrder
<1>8. ASSUME link.stage = "prompting", NEW k \in 1 .. Len(from_ws')
      PROVE  from_ws'[k].type = "pair"
    BY <1>1, <1>2, <1>8 DEF UpdatesInOrder
<1> QED
    BY <1>2, <1>3, <1>4, <1>5, <1>6, <1>7, <1>8

\* While there are updates to read there is a manager, and the TV is past registering;
\* and an update of the registration finds it under way.
LEMMA UpdatesMeanLive ==
    ASSUME MemoryInv, from_ws # <<>>
    PROVE  /\ running = TRUE /\ link.stage # "registering"
           /\ ~IsLate(Head(from_ws)) =>
                  Registering(mgr) /\ ~Resting(mgr)
           /\ ~Resting(mgr) => mgr.ws_url \in Url /\ mgr.connection_details \in Connection
                               /\ mgr.ws_url = mgr.connection_details.url
<1>1. running = TRUE /\ link.stage # "registering"
    BY DEF MemoryInv, Types, LinkAgrees, RequestAgrees
<1>2. from_ws \in Seq(Update) /\ UpdatesInOrder /\ FieldsAgree(mgr)
    BY DEF MemoryInv, Types, UpdatesAgree
<1>3. Head(from_ws) = from_ws[1] /\ 1 \in 1 .. Len(from_ws)
    BY <1>2
<1>4. ~IsLate(Head(from_ws)) => Registering(mgr)
    BY <1>2, <1>3 DEF UpdatesInOrder
<1> QED
    BY <1>1, <1>2, <1>4 DEF FieldsAgree, Registering, Resting

\* An update is handled, and the connection, or the want of one, goes on.
LEMMA HandledAgrees ==
    ASSUME MemoryInv, from_ws # <<>>, Handled, is_writing' = FALSE,
           UNCHANGED <<running, issued, wol>>,
           file' \in [Dir -> File], FilesAgree', FieldsAgree(mgr'),
           Resting(mgr') => link.stage = "none" /\ KeyIsTheFiles(mgr)',
           mgr'.ws_url = mgr.ws_url, mgr'.data_dir = mgr.data_dir,
           link' \in Link, link'.stage = link.stage, link'.tv = link.tv,
           Registering(mgr') \/ ~Registering(mgr) \/ Head(from_ws).type # "pair",
           link.stage = "prompting" => Registering(mgr'),
           answered' \subseteq Detail, leftover' \in Url \cup {None}
    PROVE  MemoryInv'
<1>1. /\ from_ws' \in Seq(Update) /\ EndIsLast(from_ws')
      /\ \A k \in 1 .. Len(from_ws') : from_ws'[k].type = "registered" =>
             MayPersist(from_ws'[k].client_key)
      /\ \A k \in 1 .. Len(from_ws') : \A j \in 1 .. Len(from_ws') :
             j < k /\ from_ws'[j].type # "pair" => IsLate(from_ws'[k])
      /\ ~Registering(mgr) \/ Head(from_ws).type # "pair" =>
             \A k \in 1 .. Len(from_ws') : IsLate(from_ws'[k])
      /\ link.stage = "prompting" =>
             \A k \in 1 .. Len(from_ws') : from_ws'[k].type = "pair"
    BY TailAgrees
<1>2. running = TRUE /\ link.stage # "registering" /\ running' = TRUE
    BY UpdatesMeanLive
<1>3. Types' /\ FieldsAgree(mgr)'
    BY <1>1, <1>2 DEF MemoryInv, Types, FieldsAgree
<1>4. KeysNameTheirTv' /\ WakesOneTv'
    BY DEF MemoryInv, KeysNameTheirTv, WakesOneTv
<1>5. LinkAgrees' /\ RequestAgrees'
    BY <1>2 DEF MemoryInv, LinkAgrees, RequestAgrees, Resting, Registering
<1>6. EndIsLast(from_ws)'
    BY <1>1 DEF EndIsLast
<1>7. KeysMayBeKept'
    BY <1>1 DEF KeysMayBeKept, MayPersist
<1>8. UpdatesInOrder'
    BY <1>1 DEF UpdatesInOrder, IsLate, Registering
<1> QED
    BY <1>3, <1>4, <1>5, <1>6, <1>7, <1>8 DEF MemoryInv, UpdatesAgree

\* After a Registered message the connection is initialized, or found to be gone.
LEMMA InitializeConnectionAgrees ==
    ASSUME MemoryInv, from_ws # <<>>, Head(from_ws).type = "registered",
           NEW m, FieldsAgree(m), m.status = mgr.status, m.ws_url = mgr.ws_url,
           m.data_dir = mgr.data_dir, is_writing' = FALSE, UNCHANGED <<running, issued, wol>>,
           file' \in [Dir -> File], FilesAgree', InitializeConnection(file'[mgr.data_dir], m)
    PROVE  MemoryInv'
<1> DEFINE f == file'[mgr.data_dir]
           asked == [k \in 1 .. Len(InitialCommands) |-> RequestFor[InitialCommands[k]]]
<1>1. Types /\ link \in Link /\ mgr.data_dir \in Dir
    BY DEF MemoryInv, Types, FieldsAgree, Mgr
<1>2. running = TRUE /\ link.stage # "registering" /\ ~Resting(mgr) /\ Registering(mgr)
    BY UpdatesMeanLive DEF IsLate
<1>3. Handled
    BY DEF InitializeConnection
<1>4. from_ws[1] = Head(from_ws) /\ 1 \in 1 .. Len(from_ws)
    BY <1>1 DEF Types
<1>5. link.stage # "prompting"
    BY <1>4 DEF MemoryInv, UpdatesAgree, UpdatesInOrder
<1>6. CASE link.stage # "none"
    <2>1. /\ link' = [link EXCEPT !.asked = asked] /\ UNCHANGED <<answered, leftover>>
          /\ mgr' = [m EXCEPT !.status = "Initializing", !.is_pairing = FALSE]
        BY <1>6 DEF InitializeConnection
    <2>2. /\ FieldsAgree(mgr') /\ mgr'.status = "Initializing"
          /\ mgr'.ws_url = mgr.ws_url /\ mgr'.data_dir = mgr.data_dir
        BY <1>2, <2>1 DEF FieldsAgree, Mgr, Status, Resting
    <2>3. link' \in Link /\ link'.stage = link.stage /\ link'.tv = link.tv
        <3>1. asked \in Seq(TvRequest)
            BY InitialRequestsType
        <3> HIDE DEF asked
        <3> QED
            BY <1>1, <2>1, <3>1 DEF Link
    <2>4. answered' \subseteq Detail /\ leftover' \in Url \cup {None}
        BY <1>1, <2>1 DEF Types
    <2>5. ~Resting(mgr')
        BY <2>2 DEF Resting
    <2> QED
        BY <1>3, <1>5, <2>2, <2>3, <2>4, <2>5, HandledAgrees
<1>7. CASE link.stage = "none"
    <2> DEFINE n == [m EXCEPT !.status = "Disconnected", !.is_pairing = FALSE]
    <2>1. UNCHANGED link /\ ConnectionReset(InitializeFrom(f, n))
        BY <1>7 DEF InitializeConnection
    <2>2. FieldsAgree(n) /\ n.status = "Disconnected" /\ n.data_dir = mgr.data_dir
        BY DEF FieldsAgree, Mgr, Status
    <2> HIDE DEF n
    <2>3. f \in File /\ FileAgrees(f, mgr.data_dir)
        BY <1>1 DEF FilesAgree, FileAgrees, IsReadable
    <2> HIDE DEF f
    <2>4. mgr' = InitializeFrom(f, n) /\ answered' = {} /\ leftover' \in {mgr.ws_url, None}
        BY <2>1 DEF ConnectionReset
    <2>5. /\ FieldsAgree(mgr') /\ KeyIsFrom(f, mgr') /\ mgr'.status = "Disconnected"
          /\ mgr'.data_dir = mgr.data_dir
        BY <2>2, <2>3, <2>4, InitializeAgrees
    <2>6. KeyIsTheFiles(mgr)' /\ Resting(mgr')
        BY <2>5 DEF f, KeyIsTheFiles, KeyIsFrom, IsReadable, Resting
    <2>7. /\ from_ws' \in Seq(Update) /\ EndIsLast(from_ws')
          /\ \A k \in 1 .. Len(from_ws') : IsLate(from_ws'[k])
        BY <1>3, TailAgrees
    <2>8. link' \in Link /\ link'.stage = "none" /\ EndIsLast(from_ws)'
        BY <1>1, <1>7, <2>1, <2>7 DEF EndIsLast
    <2>9. answered' \subseteq Detail /\ leftover' \in Url \cup {None} /\ running' = TRUE
        BY <1>2, <2>4 DEF MemoryInv, FieldsAgree, Mgr
    <2> QED
        BY <2>5, <2>6, <2>7, <2>8, <2>9, RestAgrees
<1> QED
    BY <1>6, <1>7

LEMMA PairedStep == MemoryInv /\ Paired => MemoryInv'
<1> SUFFICES ASSUME MemoryInv, Paired PROVE MemoryInv'
    OBVIOUS
<1>1. /\ UNCHANGED <<running, is_writing, file, link, issued, wol, answered, leftover>>
      /\ Handled /\ from_ws # <<>> /\ ~is_writing /\ Head(from_ws).type = "pair"
    BY DEF Paired, IsNext, AtSelect
<1>2. Types /\ FieldsAgree(mgr) /\ FilesAgree /\ is_writing = FALSE
    BY <1>1 DEF MemoryInv, Types
<1>3. Registering(mgr)
    BY <1>1, UpdatesMeanLive DEF IsLate
<1>4. mgr' = mgr \/ mgr' = [mgr EXCEPT !.status = "Pairing", !.is_pairing = TRUE]
    BY DEF Paired
<1>5. /\ FieldsAgree(mgr') /\ Registering(mgr') /\ mgr'.ws_url = mgr.ws_url
      /\ mgr'.data_dir = mgr.data_dir
    BY <1>2, <1>3, <1>4 DEF FieldsAgree, Mgr, Status, Registering
<1>6. ~Resting(mgr')
    BY <1>5 DEF Registering, Resting
<1>7. /\ file' \in [Dir -> File] /\ FilesAgree' /\ link' \in Link /\ link'.stage = link.stage
      /\ link'.tv = link.tv /\ answered' \subseteq Detail /\ leftover' \in Url \cup {None}
    BY <1>1, <1>2, FilesUnchanged DEF Types
<1> QED
    BY <1>1, <1>2, <1>5, <1>6, <1>7, HandledAgrees

LEMMA RegisteredStep == MemoryInv /\ Registered => MemoryInv'
<1> SUFFICES ASSUME MemoryInv, Registered PROVE MemoryInv'
    OBVIOUS
<1> DEFINE u == Head(from_ws)
           keyed == [mgr EXCEPT !.client_key = u.client_key]
<1>1. /\ UNCHANGED <<running, issued, wol>>
      /\ from_ws # <<>> /\ ~is_writing /\ u.type = "registered"
    BY DEF Registered, IsNext, AtSelect
<1>2. /\ Types /\ FieldsAgree(mgr) /\ UpdatesAgree /\ FilesAgree /\ mgr.data_dir \in Dir
      /\ is_writing = FALSE
    BY <1>1 DEF MemoryInv, Types, FieldsAgree, Mgr
<1>3. u \in Update /\ u = from_ws[1] /\ 1 \in 1 .. Len(from_ws)
    BY <1>1, <1>2 DEF Types
<1>4. MayPersist(u.client_key)
    BY <1>1, <1>3, <1>2 DEF UpdatesAgree, KeysMayBeKept
<1>5. u.client_key \in Key
    BY <1>1, <1>3 DEF Update
<1>6. /\ FieldsAgree(keyed) /\ keyed.status = mgr.status /\ keyed.ws_url = mgr.ws_url
      /\ keyed.data_dir = mgr.data_dir /\ keyed.client_key = u.client_key
    BY <1>2, <1>4, <1>5 DEF FieldsAgree, Mgr, MayPersist
<1>7. Registering(mgr) /\ ~Resting(mgr) /\ link.stage # "registering"
    BY <1>1, UpdatesMeanLive DEF IsLate
<1> HIDE DEF keyed
<1>8. CASE UNCHANGED <<file, is_writing>> /\ InitializeConnection(file[mgr.data_dir], keyed)
    <2>1. file' \in [Dir -> File] /\ FilesAgree' /\ file'[mgr.data_dir] = file[mgr.data_dir]
        BY <1>1, <1>2, <1>8, FilesUnchanged DEF Types
    <2> QED
        BY <1>1, <1>2, <1>6, <1>8, <2>1, InitializeConnectionAgrees
<1>9. CASE /\ file' = [file EXCEPT ![mgr.data_dir] = Unreadable("empty")]
           /\ is_writing' = TRUE /\ mgr' = keyed
           /\ UNCHANGED <<from_ws, link, answered, leftover>>
    <2>1. Unreadable("empty") \in File /\ ~IsReadable(Unreadable("empty"))
        BY DEF Unreadable, Nothing, File, PersistedState, IsReadable
    <2>2. Types'
        BY <1>1, <1>2, <1>9, <2>1 DEF Types
    <2>3. FilesAgree'
        BY <1>1, <1>2, <1>9, <2>1 DEF Types, FilesAgree, FileAgrees, IsReadable
    <2>4. KeysNameTheirTv' /\ WakesOneTv'
        BY <1>1 DEF MemoryInv, KeysNameTheirTv, WakesOneTv
    <2>5. FieldsAgree(mgr)' /\ mgr'.status = mgr.status /\ mgr'.ws_url = mgr.ws_url
          /\ mgr'.data_dir = mgr.data_dir /\ mgr'.client_key = u.client_key
        BY <1>6, <1>9 DEF FieldsAgree
    <2>6. LinkAgrees' /\ RequestAgrees'
        BY <1>1, <1>7, <1>9, <2>5, UpdatesMeanLive
        DEF MemoryInv, LinkAgrees, RequestAgrees, Resting, Registering
    <2>7. EndIsLast(from_ws)' /\ UpdatesInOrder'
        BY <1>2, <1>9, <2>5 DEF UpdatesAgree, EndIsLast, UpdatesInOrder, Registering, IsLate
    <2>8. KeysMayBeKept'
        BY <1>1, <1>2, <1>4, <1>9, <2>5 DEF UpdatesAgree, KeysMayBeKept, MayPersist
    <2> QED
        BY <2>2, <2>3, <2>4, <2>5, <2>6, <2>7, <2>8 DEF MemoryInv, UpdatesAgree
<1> QED
    BY <1>8, <1>9 DEF Registered, keyed

LEMMA FinishRegisteredStep == MemoryInv /\ FinishRegistered => MemoryInv'
<1> SUFFICES ASSUME MemoryInv, FinishRegistered PROVE MemoryInv'
    OBVIOUS
<1>1. /\ UNCHANGED <<running, issued, wol>> /\ is_writing' = FALSE /\ is_writing
    BY DEF FinishRegistered
<1>2. PICK f \in {Saved(mgr), file[mgr.data_dir]} :
          file' = [file EXCEPT ![mgr.data_dir] = f] /\ InitializeConnection(f, mgr)
    BY DEF FinishRegistered
<1>3. Types /\ FieldsAgree(mgr) /\ FilesAgree /\ mgr.data_dir \in Dir
    BY DEF MemoryInv, FieldsAgree, Mgr
<1>4. from_ws # <<>> /\ Head(from_ws).type = "registered" /\ MayPersist(mgr.client_key)
    BY <1>1 DEF MemoryInv, UpdatesAgree, KeysMayBeKept
<1>5. mgr.ws_url \in Url
    BY <1>4, UpdatesMeanLive DEF IsLate
<1>6. mgr.client_key \in Key
    BY <1>3, <1>4, <1>5 DEF Types, MayPersist
<1>7. Saved(mgr) \in File
    BY <1>3 DEF FieldsAgree, Mgr, Saved, File, PersistedState
<1>8. FileAgrees(Saved(mgr), mgr.data_dir)
    BY <1>3, <1>4, <1>5 DEF Saved, MayPersist, FieldsAgree, FileAgrees
<1>9. f \in File /\ FileAgrees(f, mgr.data_dir)
    BY <1>3, <1>7, <1>8 DEF Types, FilesAgree
<1>10. file' \in [Dir -> File] /\ file'[mgr.data_dir] = f
    BY <1>2, <1>3, <1>9 DEF Types
<1>11. FilesAgree'
    BY <1>1, <1>2, <1>3, <1>9 DEF Types, FilesAgree, FileAgrees, IsReadable
<1> QED
    BY <1>1, <1>2, <1>3, <1>4, <1>10, <1>11, InitializeConnectionAgrees

LEMMA StoreDetailAgrees ==
    ASSUME NEW m, FieldsAgree(m), NEW u \in Url, NEW variant
    PROVE  /\ FieldsAgree(StoreDetail(m, variant, u))
           /\ StoreDetail(m, variant, u).status = m.status
           /\ StoreDetail(m, variant, u).ws_url = m.ws_url
           /\ StoreDetail(m, variant, u).data_dir = m.data_dir
           /\ StoreDetail(m, variant, u).client_key = m.client_key
           /\ StoreDetail(m, variant, u).connection_details = m.connection_details
<1>1. CASE variant \in DOMAIN DetailOf
    <2>1. DetailOf[variant] \in Detail
        BY <1>1 DEF DetailOf, Detail
    <2>2. StoreDetail(m, variant, u) = [m EXCEPT !.details[DetailOf[variant]] = u]
        BY <1>1 DEF StoreDetail
    <2>3. m \in Mgr /\ m.details \in [Detail -> Url \cup {None}]
        BY DEF FieldsAgree, Mgr
    <2>4. [m.details EXCEPT ![DetailOf[variant]] = u] \in [Detail -> Url \cup {None}]
        BY <2>1, <2>3
    <2> QED
        BY <2>2, <2>3, <2>4 DEF FieldsAgree, Mgr
<1>2. CASE variant \notin DOMAIN DetailOf
    BY <1>2 DEF StoreDetail
<1> QED
    BY <1>1, <1>2


LEMMA CommandResponseStep == MemoryInv /\ CommandResponse => MemoryInv'
<1> SUFFICES ASSUME MemoryInv, CommandResponse PROVE MemoryInv'
    OBVIOUS
<1> DEFINE answer == Head(from_ws)
           stored == StoreDetail(mgr, Decode(answer.fields), answer.tv)
<1>1. /\ UNCHANGED <<running, is_writing, file, link, issued, wol, leftover>>
      /\ Handled /\ from_ws # <<>> /\ ~is_writing /\ answer.type = "response"
    BY DEF CommandResponse, IsNext, AtSelect
<1>2. Types /\ FieldsAgree(mgr) /\ FilesAgree /\ is_writing = FALSE
    BY <1>1 DEF MemoryInv, Types
<1>3. answer \in Update
    BY <1>1, <1>2, HandledUpdate DEF Types
<1>4. answer.tv \in Url
    BY <1>1, <1>3 DEF Update
<1>5. /\ FieldsAgree(stored) /\ stored.status = mgr.status /\ stored.ws_url = mgr.ws_url
      /\ stored.data_dir = mgr.data_dir /\ stored.client_key = mgr.client_key
      /\ stored.connection_details = mgr.connection_details
    BY <1>2, <1>4, StoreDetailAgrees
<1>6. \/ mgr' = stored
      \/ \E status \in Status :
             /\ mgr' = [stored EXCEPT !.is_connection_initialized = TRUE, !.status = status]
             /\ \/ status = stored.status
                \/ status = "Communicating" /\ stored.status = "Initializing"
    <2> HIDE DEF stored
    <2>1. CASE Decode(answer.fields) \notin {"GetVolumeVariantA", "GetVolumeVariantB"}
        BY <2>1 DEF CommandResponse, stored
    <2>2. CASE Decode(answer.fields) \in {"GetVolumeVariantA", "GetVolumeVariantB"}
        <3>1. mgr' = [stored EXCEPT
                        !.is_connection_initialized = TRUE,
                        !.status = IF @ = "Initializing" /\ ~mgr.is_connection_initialized
                                   THEN "Communicating" ELSE @]
            BY <2>2 DEF CommandResponse, stored
        <3>2. stored \in Mgr
            BY <1>5 DEF FieldsAgree
        <3> QED
            BY <3>1, <3>2 DEF Mgr, Status
    <2> QED
        BY <2>1, <2>2
<1> HIDE DEF stored
<1>7. /\ FieldsAgree(mgr') /\ mgr'.ws_url = mgr.ws_url /\ mgr'.data_dir = mgr.data_dir
      /\ mgr'.client_key = mgr.client_key /\ mgr'.connection_details = mgr.connection_details
      /\ \/ mgr'.status = mgr.status
         \/ mgr.status = "Initializing" /\ mgr'.status = "Communicating"
    <2>1. CASE mgr' = stored
        BY <1>5, <2>1
    <2>2. ASSUME NEW status \in Status,
                 mgr' = [stored EXCEPT !.is_connection_initialized = TRUE, !.status = status],
                 \/ status = stored.status
                 \/ status = "Communicating" /\ stored.status = "Initializing"
          PROVE  /\ FieldsAgree(mgr') /\ mgr'.ws_url = mgr.ws_url
                 /\ mgr'.data_dir = mgr.data_dir /\ mgr'.client_key = mgr.client_key
                 /\ mgr'.connection_details = mgr.connection_details
                 /\ \/ mgr'.status = mgr.status
                    \/ mgr.status = "Initializing" /\ mgr'.status = "Communicating"
        <3>1. stored \in Mgr
            BY <1>5 DEF FieldsAgree
        <3>2. /\ mgr' \in Mgr /\ mgr'.status = status /\ mgr'.ws_url = stored.ws_url
              /\ mgr'.data_dir = stored.data_dir /\ mgr'.client_key = stored.client_key
              /\ mgr'.connection_details = stored.connection_details
              /\ mgr'.mac_addr = stored.mac_addr
            BY <2>2, <3>1 DEF Mgr
        <3> QED
            BY <1>5, <2>2, <3>2 DEF FieldsAgree
    <2> QED
        BY <1>6, <2>1, <2>2
<1>8. (Registering(mgr') <=> Registering(mgr)) /\ (Resting(mgr') <=> Resting(mgr))
    BY <1>7 DEF Registering, Resting
<1>9. Resting(mgr') => link.stage = "none" /\ KeyIsTheFiles(mgr)'
    BY <1>1, <1>7, <1>8, UpdatesMeanLive
    DEF MemoryInv, LinkAgrees, KeyIsTheFiles, KeyIsFrom, IsReadable, Resting
<1>10. answered' \subseteq Detail
    <2>1. \A uri \in DOMAIN AskedDetail : AskedDetail[uri] \in Detail
        BY DEF AskedDetail, Detail
    <2> QED
        BY <1>2, <2>1 DEF CommandResponse, Types
<1>11. link.stage = "prompting" => Registering(mgr')
    BY <1>8 DEF MemoryInv, LinkAgrees
<1>12. /\ file' \in [Dir -> File] /\ FilesAgree' /\ link' \in Link /\ link'.stage = link.stage
       /\ link'.tv = link.tv /\ leftover' \in Url \cup {None}
    BY <1>1, <1>2, FilesUnchanged DEF Types
<1> QED
    BY <1>1, <1>2, <1>7, <1>8, <1>9, <1>10, <1>11, <1>12, HandledAgrees

LEMMA TvErrorStep == MemoryInv /\ TvError => MemoryInv'
<1> SUFFICES ASSUME MemoryInv, TvError PROVE MemoryInv'
    OBVIOUS
<1> DEFINE n == OptionallyPrepareForReconnect(mgr)
<1>1. /\ UNCHANGED <<running, is_writing, file, issued, wol>> /\ DisconnectFromTv(n)
      /\ Handled /\ from_ws # <<>> /\ ~is_writing /\ Head(from_ws).type = "error"
    BY DEF TvError, IsNext, AtSelect
<1>2. FieldsAgree(mgr) /\ is_writing' = FALSE /\ running' = TRUE
    BY <1>1, UpdatesMeanLive DEF MemoryInv, Types
<1>3. FieldsAgree(n) /\ n.ws_url = mgr.ws_url /\ n.status = mgr.status
    BY <1>2, PrepareAgrees
<1> HIDE DEF n
<1>4. ~Resting(mgr)
    BY <1>1, UpdatesMeanLive DEF IsLate
<1>5. /\ from_ws' \in Seq(Update) /\ EndIsLast(from_ws')
      /\ \A k \in 1 .. Len(from_ws') : IsLate(from_ws'[k])
    BY <1>1, TailAgrees
<1> QED
    BY <1>1, <1>2, <1>3, <1>4, <1>5, DisconnectFromTvAgrees

\* Nothing is behind the end of a connection, and the TV is gone.
LEMMA EndOfUpdates ==
    ASSUME MemoryInv, IsNext("disconnected"), Handled, UNCHANGED <<running, is_writing, link>>
    PROVE  /\ running' = TRUE /\ is_writing' = FALSE /\ link.stage = "none"
           /\ link' \in Link /\ link'.stage = "none"
           /\ from_ws' = <<>> /\ from_ws' \in Seq(Update) /\ EndIsLast(from_ws)'
           /\ \A k \in 1 .. Len(from_ws') : IsLate(from_ws'[k])
           /\ from_ws # <<>> /\ Len(from_ws) = 1
<1>1. /\ from_ws # <<>> /\ Head(from_ws).type = "disconnected"
      /\ Types /\ EndIsLast(from_ws) /\ from_ws \in Seq(Update)
      /\ running' = TRUE /\ is_writing' = FALSE
    BY DEF MemoryInv, Types, UpdatesAgree, IsNext, AtSelect
<1>2. /\ Head(from_ws) = from_ws[1] /\ 1 \in 1 .. Len(from_ws)
      /\ from_ws' \in Seq(Update) /\ Len(from_ws') = Len(from_ws) - 1
    BY <1>1, HandledUpdate
<1>3. link.stage = "none" /\ Len(from_ws) = 1
    BY <1>1, <1>2 DEF EndIsLast
<1>4. from_ws' = <<>>
    BY <1>2, <1>3
<1> QED
    BY <1>1, <1>2, <1>3, <1>4 DEF EndIsLast, Types

LEMMA HandleDisconnectStep == MemoryInv /\ HandleDisconnect => MemoryInv'
<1> SUFFICES ASSUME MemoryInv, HandleDisconnect PROVE MemoryInv'
    OBVIOUS
<1> DEFINE n == IF Head(from_ws).is_lost THEN OptionallyPrepareForReconnect(mgr) ELSE mgr
<1>1. /\ UNCHANGED <<running, is_writing, file, link, issued, wol>> /\ Handled
      /\ IsNext("disconnected") /\ ConnectionReset(HandleDisconnected(n))
    BY DEF HandleDisconnect
<1>2. FieldsAgree(n)
    BY PrepareAgrees DEF MemoryInv
<1> HIDE DEF n
<1>3. AtRest(HandleDisconnected(n))
    BY <1>2, DisconnectedAgrees DEF MemoryInv, Types
<1> QED
    BY <1>1, <1>3, EndOfUpdates, ResetAgrees

LEMMA ResetOnLossStep == MemoryInv /\ ResetOnLoss => MemoryInv'
<1> SUFFICES ASSUME MemoryInv, ResetOnLoss PROVE MemoryInv'
    OBVIOUS
<1> DEFINE n == OptionallyPrepareForReconnect(mgr)
<1>1. /\ UNCHANGED <<running, is_writing, file, link, issued, wol>> /\ Handled
      /\ IsNext("disconnected") /\ ConnectionReset(ForceManagerReset(n))
    BY DEF ResetOnLoss
<1>2. FieldsAgree(n)
    BY PrepareAgrees DEF MemoryInv
<1> HIDE DEF n
<1>3. AtRest(ForceManagerReset(n))
    BY <1>2, ForcedResetAgrees DEF MemoryInv, Types
<1> QED
    BY <1>1, <1>3, EndOfUpdates, ResetAgrees

LEMMA LateDisconnectStep == MemoryInv /\ LateDisconnect => MemoryInv'
<1> SUFFICES ASSUME MemoryInv, LateDisconnect PROVE MemoryInv'
    OBVIOUS
<1> DEFINE n == IF Head(from_ws).is_lost THEN OptionallyPrepareForReconnect(mgr) ELSE mgr
<1>1. /\ UNCHANGED <<running, is_writing, file, link, issued, wol>> /\ Handled
      /\ IsNext("disconnected") /\ IsResting
    BY DEF LateDisconnect
<1>2. Types /\ FieldsAgree(mgr) /\ FilesAgree /\ Resting(mgr)
    BY <1>1 DEF MemoryInv, IsResting, Resting
<1>3. /\ FieldsAgree(n) /\ n.status = mgr.status /\ n.client_key = mgr.client_key
      /\ n.data_dir = mgr.data_dir /\ n.connection_details = mgr.connection_details
    BY <1>2, PrepareAgrees
<1>4. \/ ConnectionReset(HandleConnectError(n))
      \/ mgr' = n /\ UNCHANGED <<answered, leftover>>
    BY DEF LateDisconnect
<1> HIDE DEF n
<1>5. CASE ConnectionReset(HandleConnectError(n))
    <2>1. AtRest(HandleConnectError(n))
        BY <1>2, <1>3, ConnectErrorAgrees DEF Types
    <2> QED
        BY <1>1, <1>5, <2>1, EndOfUpdates, ResetAgrees
<1>6. CASE mgr' = n /\ UNCHANGED <<answered, leftover>>
    <2>1. KeyIsTheFiles(mgr)
        BY <1>1, <1>2, EndOfUpdates, UpdatesMeanLive DEF MemoryInv, LinkAgrees
    <2>2. FieldsAgree(mgr') /\ Resting(mgr') /\ KeyIsTheFiles(mgr)' /\ FilesAgree'
        BY <1>1, <1>2, <1>3, <1>6, <2>1, FilesUnchanged
        DEF Resting, KeyIsTheFiles, KeyIsFrom, IsReadable
    <2>3. /\ file' \in [Dir -> File] /\ answered' \subseteq Detail
          /\ leftover' \in Url \cup {None}
        BY <1>1, <1>2, <1>6 DEF Types
    <2> QED
        BY <1>1, <2>2, <2>3, EndOfUpdates, RestAgrees
<1> QED
    BY <1>4, <1>5, <1>6

-----------------------------------------------------------------------------
(* The TV.                                                                 *)

\* Something is sent on a live connection, which it may be the end of.
LEMMA SendAgrees ==
    ASSUME MemoryInv, link.stage # "none", TvLeavesManagerAlone,
           NEW update \in Update, Sends(update), link' \in Link,
           link'.stage # "registering", link'.stage = "none" \/ link'.tv = link.tv,
           update.type = "disconnected" => link'.stage = "none",
           link.stage \in {"registering", "prompting"} \/ IsLate(update),
           link'.stage = "prompting" => link.stage = "registering" /\ update.type = "pair",
           update.type = "registered" =>
               /\ update.client_key \in issued'[mgr.ws_url]
               /\ update.client_key.client \in {mgr.data_dir, "other"},
           issued' \in [Url -> SUBSET Key], KeysNameTheirTv',
           \A u \in Url : issued[u] \subseteq issued'[u]
    PROVE  MemoryInv'
<1>1. /\ UNCHANGED <<running, mgr, is_writing, file, wol, answered, leftover>>
      /\ from_ws' = Append(from_ws, update)
    BY DEF TvLeavesManagerAlone, Sends
<1>2. /\ Types /\ UpdatesAgree /\ FieldsAgree(mgr) /\ from_ws \in Seq(Update) /\ LinkAgrees
      /\ RequestAgrees
    BY DEF MemoryInv, Types
<1>3. /\ ~Resting(mgr) /\ running /\ mgr.ws_url \in Url /\ link.tv = mgr.ws_url
      /\ link.stage \in {"registering", "prompting"} => Registering(mgr)
    BY <1>2 DEF LinkAgrees, FieldsAgree, NoLink, Resting
<1>4. /\ from_ws' \in Seq(Update) /\ Len(from_ws') = Len(from_ws) + 1 /\ Len(from_ws) \in Nat
      /\ from_ws'[Len(from_ws) + 1] = update
      /\ \A k \in 1 .. Len(from_ws) : from_ws'[k] = from_ws[k]
    BY <1>1, <1>2
<1>5. \A k \in 1 .. Len(from_ws) : from_ws[k].type # "disconnected"
    BY <1>2 DEF UpdatesAgree, EndIsLast
<1>6. Types' /\ FieldsAgree(mgr)' /\ WakesOneTv'
    BY <1>1, <1>2, <1>4 DEF MemoryInv, Types, FieldsAgree, WakesOneTv
<1>7. FilesAgree'
    BY <1>1 DEF MemoryInv, FilesAgree, FileAgrees, IsReadable
<1>8. LinkAgrees' /\ RequestAgrees'
    BY <1>1, <1>2, <1>3 DEF LinkAgrees, RequestAgrees, Resting, Registering
<1>9. EndIsLast(from_ws)'
    BY <1>4, <1>5 DEF EndIsLast
<1>10. ASSUME NEW k \in 1 .. Len(from_ws'), from_ws'[k].type = "registered"
       PROVE  MayPersist(from_ws[k].client_key)'
    <2>1. CASE k = Len(from_ws')
        BY <1>1, <1>4, <1>10, <2>1 DEF MayPersist
    <2>2. CASE k # Len(from_ws')
        <3>1. k \in 1 .. Len(from_ws) /\ from_ws'[k] = from_ws[k]
            BY <1>4, <2>2
        <3>2. MayPersist(from_ws[k].client_key)
            BY <1>2, <1>10, <3>1 DEF UpdatesAgree, KeysMayBeKept
        <3> QED
            BY <1>1, <1>3, <3>1, <3>2 DEF MayPersist
    <2> QED
        BY <2>1, <2>2
<1>11. is_writing' => /\ from_ws' # <<>> /\ Head(from_ws').type = "registered"
                      /\ MayPersist(mgr.client_key)'
    <2> SUFFICES ASSUME is_writing'
                 PROVE  /\ from_ws' # <<>> /\ Head(from_ws').type = "registered"
                        /\ MayPersist(mgr.client_key)'
        OBVIOUS
    <2>1. /\ from_ws # <<>> /\ Head(from_ws).type = "registered"
          /\ MayPersist(mgr.client_key)
        BY <1>1, <1>2 DEF UpdatesAgree, KeysMayBeKept
    <2>2. from_ws' # <<>> /\ Head(from_ws') = Head(from_ws)
        BY <1>2, <1>4, <2>1
    <2>3. MayPersist(mgr.client_key)'
        BY <1>1, <1>3, <2>1 DEF MayPersist
    <2> QED
        BY <2>1, <2>2, <2>3
<1>12. KeysMayBeKept'
    BY <1>10, <1>11 DEF KeysMayBeKept
<1>13. UpdatesInOrder'
    <2>1. ASSUME NEW k \in 1 .. Len(from_ws'), NEW j \in 1 .. Len(from_ws'),
                 j < k, from_ws'[j].type # "pair"
          PROVE  IsLate(from_ws'[k])
        <3>1. j \in 1 .. Len(from_ws) /\ from_ws'[j] = from_ws[j]
            BY <1>4, <2>1
        <3>2. CASE k # Len(from_ws')
            <4>1. k \in 1 .. Len(from_ws) /\ from_ws'[k] = from_ws[k]
                BY <1>4, <3>2
            <4> QED
                BY <1>2, <2>1, <3>1, <4>1 DEF UpdatesAgree, UpdatesInOrder
        <3>3. CASE k = Len(from_ws')
            <4>1. from_ws # <<>> /\ link.stage # "prompting"
                BY <1>2, <2>1, <3>1 DEF UpdatesAgree, UpdatesInOrder
            <4>2. link.stage # "registering"
                BY <1>2, <4>1 DEF RequestAgrees
            <4> QED
                BY <1>4, <3>3, <4>1, <4>2
        <3> QED
            BY <3>2, <3>3
    <2>2. ASSUME ~Registering(mgr), NEW k \in 1 .. Len(from_ws') PROVE IsLate(from_ws'[k])
        <3>1. IsLate(update)
            BY <1>3, <2>2
        <3>2. \A j \in 1 .. Len(from_ws) : IsLate(from_ws[j])
            BY <1>2, <2>2 DEF UpdatesAgree, UpdatesInOrder
        <3> QED
            BY <1>4, <3>1, <3>2
    <2>3. ASSUME link'.stage = "prompting", NEW k \in 1 .. Len(from_ws')
          PROVE  from_ws'[k].type = "pair"
        <3>1. from_ws = <<>> /\ update.type = "pair"
            BY <1>2, <2>3 DEF RequestAgrees
        <3> QED
            BY <1>4, <3>1
    <2> QED
        BY <1>1, <2>1, <2>2, <2>3 DEF UpdatesInOrder, IsLate, Registering
<1> QED
    BY <1>6, <1>7, <1>8, <1>9, <1>12, <1>13 DEF MemoryInv, UpdatesAgree

LEMMA TvRegistersStep == MemoryInv /\ TvRegisters => MemoryInv'
<1> SUFFICES ASSUME MemoryInv, TvRegisters PROVE MemoryInv'
    OBVIOUS
<1>1. /\ link.stage = "registering" /\ TvLeavesManagerAlone /\ UNCHANGED <<issued, mgr>>
    BY DEF TvRegisters, TvLeavesManagerAlone
<1>2. /\ link \in Link /\ issued \in [Url -> SUBSET Key] /\ KeysNameTheirTv
      /\ KeysNameTheirTv'
    BY <1>1 DEF MemoryInv, Types, KeysNameTheirTv
<1>3. /\ link.tv = mgr.ws_url /\ mgr.ws_url \in Url /\ link.request.client_key = mgr.client_key
      /\ FieldsAgree(mgr)
    BY <1>1 DEF MemoryInv, LinkAgrees, RequestAgrees, RegisterRequest, FieldsAgree, Resting
<1>4. CASE IsAccepted(link.request)
    <2> DEFINE update == [type |-> "registered", client_key |-> link.request.client_key]
    <2>1. Sends(update) /\ link' = [link EXCEPT !.stage = "registered"]
        BY <1>4 DEF TvRegisters
    <2>2. mgr.client_key \in issued[mgr.ws_url]
        BY <1>3, <1>4 DEF IsAccepted
    <2>3. mgr.client_key \in Key /\ mgr.client_key # None
        BY <1>2, <1>3, <2>2, MemoryAssumption
    <2>4. update \in Update
        BY <1>3, <2>3 DEF Update
    <2>5. /\ update.client_key \in issued'[mgr.ws_url]
          /\ update.client_key.client \in {mgr.data_dir, "other"}
        BY <1>1, <1>3, <2>2, <2>3 DEF FieldsAgree
    <2>6. link' \in Link /\ link'.stage = "registered" /\ link'.tv = link.tv
        BY <1>2, <2>1 DEF Link
    <2>7. update.type = "registered"
        OBVIOUS
    <2> HIDE DEF update
    <2> QED
        BY <1>1, <1>2, <2>1, <2>4, <2>5, <2>6, <2>7, SendAgrees
<1>5. CASE ~IsAccepted(link.request)
    <2> DEFINE update == [type |-> "pair"]
    <2>1. Sends(update) /\ link' = [link EXCEPT !.stage = "prompting"]
        BY <1>5 DEF TvRegisters
    <2>2. update \in Update /\ update.type = "pair"
        BY DEF Update
    <2>3. link' \in Link /\ link'.stage = "prompting" /\ link'.tv = link.tv
        BY <1>2, <2>1 DEF Link
    <2> HIDE DEF update
    <2> QED
        BY <1>1, <1>2, <2>1, <2>2, <2>3, SendAgrees
<1> QED
    BY <1>4, <1>5

LEMMA TvPairsStep == MemoryInv /\ TvPairs => MemoryInv'
<1> SUFFICES ASSUME MemoryInv, TvPairs PROVE MemoryInv'
    OBVIOUS
<1> DEFINE client_key == [tv |-> link.tv, client |-> mgr.data_dir]
           update == [type |-> "registered", client_key |-> client_key]
<1>1. /\ link.stage = "prompting" /\ TvLeavesManagerAlone /\ UNCHANGED mgr
      /\ Sends(update) /\ link' = [link EXCEPT !.stage = "registered"]
      /\ issued' = [issued EXCEPT ![link.tv] = @ \cup {client_key}]
    BY DEF TvPairs, TvLeavesManagerAlone
<1>2. /\ link \in Link /\ issued \in [Url -> SUBSET Key] /\ KeysNameTheirTv /\ mgr.data_dir \in Dir
    BY DEF MemoryInv, Types, FieldsAgree, Mgr
<1>3. link.tv = mgr.ws_url /\ mgr.ws_url \in Url
    BY <1>1 DEF MemoryInv, LinkAgrees, FieldsAgree, NoLink, Resting
<1>4. client_key \in Key /\ client_key.tv = link.tv /\ client_key.client = mgr.data_dir
    BY <1>2, <1>3 DEF Key
<1>5. update \in Update /\ update.type = "registered" /\ update.client_key = client_key
    BY <1>4 DEF Update
<1> HIDE DEF update, client_key
<1>6. /\ issued' \in [Url -> SUBSET Key] /\ KeysNameTheirTv'
      /\ \A u \in Url : issued[u] \subseteq issued'[u]
      /\ client_key \in issued'[mgr.ws_url]
    BY <1>1, <1>2, <1>3, <1>4 DEF KeysNameTheirTv
<1>7. /\ update.client_key \in issued'[mgr.ws_url]
      /\ update.client_key.client \in {mgr.data_dir, "other"}
    BY <1>4, <1>5, <1>6
<1>8. link' \in Link /\ link'.stage = "registered" /\ link'.tv = link.tv
    BY <1>1, <1>2 DEF Link
<1> QED
    BY <1>1, <1>5, <1>6, <1>7, <1>8, SendAgrees

LEMMA TvDeclinesStep == MemoryInv /\ TvDeclines => MemoryInv'
<1> SUFFICES ASSUME MemoryInv, TvDeclines PROVE MemoryInv'
    OBVIOUS
<1> DEFINE update == [type |-> "error"]
<1>1. /\ link.stage = "prompting" /\ TvLeavesManagerAlone /\ UNCHANGED issued
      /\ Sends(update) /\ link' = [link EXCEPT !.stage = "declined"]
    BY DEF TvDeclines
<1>2. link \in Link /\ issued \in [Url -> SUBSET Key] /\ KeysNameTheirTv /\ KeysNameTheirTv'
    BY <1>1 DEF MemoryInv, Types, KeysNameTheirTv
<1>3. update \in Update /\ update.type = "error"
    BY DEF Update
<1>4. link' \in Link /\ link'.stage = "declined" /\ link'.tv = link.tv
    BY <1>1, <1>2 DEF Link
<1> HIDE DEF update
<1> QED
    BY <1>1, <1>2, <1>3, <1>4, SendAgrees

\* An answer, or a notification of what was subscribed to.
LEMMA AnswerStep ==
    ASSUME MemoryInv, link.stage = "registered", TvLeavesManagerAlone, UNCHANGED issued,
           NEW uri \in Uri, Answer(uri), link' \in Link, link'.stage = "registered",
           link'.tv = link.tv
    PROVE  MemoryInv'
<1>1. PICK fields \in Answers(uri) :
          Sends([type |-> "response", tv |-> link.tv, uri |-> uri, fields |-> fields])
    BY DEF Answer
<1> DEFINE update == [type |-> "response", tv |-> link.tv, uri |-> uri, fields |-> fields]
<1>2. issued \in [Url -> SUBSET Key] /\ KeysNameTheirTv /\ KeysNameTheirTv'
    BY DEF MemoryInv, Types, KeysNameTheirTv
<1>3. link.tv \in Url
    BY DEF MemoryInv, LinkAgrees, FieldsAgree, NoLink, Resting
<1>4. fields \in UNION {Answers(v) : v \in Uri}
    BY <1>1
<1>5. update \in Update /\ update.type = "response" /\ IsLate(update)
    BY <1>3, <1>4 DEF Update, IsLate
<1> HIDE DEF update
<1> QED
    BY <1>1, <1>2, <1>5, SendAgrees DEF update

LEMMA LinkEndsStep == MemoryInv /\ LinkEnds => MemoryInv'
<1> SUFFICES ASSUME MemoryInv, LinkEnds PROVE MemoryInv'
    OBVIOUS
<1> DEFINE update == Disconnected(link.stage # "closing")
<1>1. /\ link.stage # "none" /\ TvLeavesManagerAlone /\ UNCHANGED issued
      /\ Sends(update) /\ link' = NoLink
    BY DEF LinkEnds
<1>2. issued \in [Url -> SUBSET Key] /\ KeysNameTheirTv /\ KeysNameTheirTv'
    BY <1>1 DEF MemoryInv, Types, KeysNameTheirTv
<1>3. update \in Update /\ update.type = "disconnected" /\ IsLate(update)
    BY DEF Disconnected, Update, IsLate
<1>4. link' \in Link /\ link'.stage = "none"
    BY <1>1, NoLinkType DEF NoLink
<1> HIDE DEF update
<1> QED
    BY <1>1, <1>2, <1>3, <1>4, SendAgrees

LEMMA TvStep == MemoryInv /\ Tv => MemoryInv'
<1> SUFFICES ASSUME MemoryInv, Tv PROVE MemoryInv'
    OBVIOUS
<1>1. link \in Link
    BY DEF MemoryInv, Types
<1>2. CASE TvAnswers
    <2> DEFINE request == Head(link.asked)
    <2>1. /\ link.stage = "registered" /\ TvLeavesManagerAlone /\ UNCHANGED issued
          /\ link.asked # <<>> /\ Answer(request.uri)
        BY <1>2 DEF TvAnswers
    <2>2. link' = [link EXCEPT !.asked = Tail(@),
                               !.subscribed = IF request.type = "subscribe"
                                              THEN @ \cup {request.uri} ELSE @]
        BY <1>2 DEF TvAnswers
    <2>3. link.asked \in Seq(TvRequest)
        BY <1>1 DEF Link
    <2>4. request \in TvRequest /\ Tail(link.asked) \in Seq(TvRequest)
        BY <2>1, <2>3
    <2>5. request.uri \in Uri
        BY <2>4 DEF Uri
    <2> HIDE DEF request
    <2>6. link' \in Link /\ link'.stage = link.stage /\ link'.tv = link.tv
        BY <1>1, <2>2, <2>4, <2>5 DEF Link
    <2> QED
        BY <2>1, <2>5, <2>6, AnswerStep
<1>3. CASE TvNotifies
    <2>1. /\ link.stage = "registered" /\ TvLeavesManagerAlone /\ UNCHANGED <<link, issued>>
        BY <1>3 DEF TvNotifies
    <2>2. PICK uri \in link.subscribed : Answer(uri)
        BY <1>3 DEF TvNotifies
    <2>3. uri \in Uri
        BY <1>1, <2>2 DEF Link
    <2> QED
        BY <1>1, <2>1, <2>2, <2>3, AnswerStep
<1> QED
    BY <1>2, <1>3, TvRegistersStep, TvPairsStep, TvDeclinesStep, LinkEndsStep DEF Tv

-----------------------------------------------------------------------------
(* The invariant and what it means.                                        *)

LEMMA MemoryStep == MemoryInv /\ [Next]_mem_vars => MemoryInv'
<1> SUFFICES ASSUME MemoryInv, [Next]_mem_vars PROVE MemoryInv'
    OBVIOUS
<1>1. CASE Next
    BY <1>1, LifetimeStep, CallerStep, TvStep, ConnectErrorStep, ConnectedStep,
       RegisterFailsStep, PairedStep, RegisteredStep, FinishRegisteredStep,
       CommandResponseStep, TvErrorStep, HandleDisconnectStep, ResetOnLossStep,
       LateDisconnectStep
    DEF Next, Manager
<1>2. CASE UNCHANGED mem_vars
    BY <1>2, MemoryUnchanged DEF mem_vars
<1> QED
    BY <1>1, <1>2

THEOREM MemoryInvariant == Spec => []MemoryInv
BY MemoryInit, MemoryStep, PTL DEF Spec

\* Every field, file, update and request has its type, and a live status the URL of
\* its connection: no handler connects without a URL or stores what it should not.
THEOREM MemoryTypes == Spec => []TypeOK
<1>1. MemoryInv => TypeOK
    BY DEF MemoryInv, Types, FieldsAgree, Mgr, File, TypeOK
<1> QED
    BY <1>1, MemoryInvariant, PTL

\* Through reconnects, resets, failed writes and restarts, a URL and a MAC address that
\* are kept together, in memory or in a file, are those of one TV, a Wake-on-LAN packet
\* is for one, and in a file the key is that TV's, too (of the key in memory nothing is
\* said: a Connect to another TV keeps the key of the one before).
THEOREM KeptTogether == Spec => []KeptTogetherMeansOneTv
<1>1. MemoryInv => KeptTogetherMeansOneTv
    BY DEF MemoryInv, FieldsAgree, FilesAgree, FileAgrees, KeysNameTheirTv, WakesOneTv,
           KeptTogetherMeansOneTv
<1> QED
    BY <1>1, MemoryInvariant, PTL

\* No client key passes from one data directory to another.
THEOREM KeysStay == Spec => []KeysStayInTheirDirectory
<1>1. MemoryInv => KeysStayInTheirDirectory
    BY DEF MemoryInv, FieldsAgree, FilesAgree, FileAgrees, KeysStayInTheirDirectory
<1> QED
    BY <1>1, MemoryInvariant, PTL

\* The TV whose key is in the file accepts the register request, and does not ask
\* its user again, whatever has failed or been interrupted before.
THEOREM KnownTv == Spec => []KnownTvIsNotPrompted
<1>1. MemoryInv => KnownTvIsNotPrompted
    <2> SUFFICES ASSUME MemoryInv, link.stage = "registering",
                        IsReadable(file[mgr.data_dir]),
                        file[mgr.data_dir].saved.ws_url = link.tv,
                        mgr.connection_details.client_key = None,
                        ~mgr.connection_details.force_pairing
                 PROVE  IsAccepted(link.request)
        BY DEF KnownTvIsNotPrompted
    <2>1. /\ link.request.client_key = mgr.client_key
          /\ link.request.force_pairing = mgr.connection_details.force_pairing
          /\ mgr.client_key = file[mgr.data_dir].saved.client_key
        BY DEF MemoryInv, RequestAgrees, RegisterRequest, KeyIsTheFiles, KeyIsFrom
    <2>2. mgr.data_dir \in Dir
        BY DEF MemoryInv, FieldsAgree, Mgr
    <2>3. file[mgr.data_dir].saved.client_key \in issued[link.tv]
        BY <2>2 DEF MemoryInv, FilesAgree, FileAgrees
    <2> QED
        BY <2>1, <2>3 DEF IsAccepted
<1> QED
    BY <1>1, MemoryInvariant, PTL
-----------------------------------------------------------------------------
(* What a payload is taken for.                                            *)

\* The well-definedness of Decode: the first variant that fits.
LEMMA FirstFit ==
    ASSUME NEW fields, NEW k \in 1 .. Len(Variants), Decodes(Variants[k], fields),
           \A j \in 1 .. Len(Variants) : j < k => ~Decodes(Variants[j], fields)
    PROVE  Decode(fields) = Variants[k]
<1>1. k \in Fitting(fields)
    BY DEF Fitting
<1>2. Fitting(fields) \subseteq Int /\ k \in Int
    BY DEF Fitting, Variants
<1>3. \A j \in Fitting(fields) : k <= j
    BY <1>2 DEF Fitting
<1>4. Min(Fitting(fields)) = k
    BY <1>1, <1>2, <1>3 DEF Min
<1> QED
    BY <1>1, <1>4 DEF Decode

LEMMA VariantsByPlace ==
    /\ Len(Variants) = 11
    /\ Variants[1] = "CurrentSwInfo" /\ Variants[2] = "GetExternalInputList"
    /\ Variants[3] = "GetPowerState" /\ Variants[4] = "GetSystemInfo"
    /\ Variants[5] = "GetVolumeVariantA" /\ Variants[6] = "GetVolumeVariantB"
    /\ Variants[7] = "Pair" /\ Variants[8] = "PlainReturnValue" /\ Variants[9] = "SetMute"
    /\ Variants[10] = "SetScreenOn" /\ Variants[11] = "SetVolume"
BY DEF Variants

LEMMA SoftwareAnswer ==
    ASSUME NEW fields \in Answers("getCurrentSWInformation")
    PROVE  Decode(fields) = "CurrentSwInfo"
<1>1. fields = RequiredFields("CurrentSwInfo")
    BY DEF Answers
<1>2. Decodes(Variants[1], fields)
    BY <1>1, VariantsByPlace DEF Decodes, DeniesUnknownFields
<1> QED
    BY <1>2, VariantsByPlace, FirstFit

LEMMA VolumeAnswer ==
    ASSUME NEW fields \in Answers("getVolume")
    PROVE  Decode(fields) \in {"GetVolumeVariantA", "GetVolumeVariantB"}
<1>1. CASE fields = RequiredFields("GetVolumeVariantA") \cup {"callerId"}
    <2>1. Decodes(Variants[5], fields)
        BY <1>1, VariantsByPlace DEF Decodes, DeniesUnknownFields
    <2>2. \A j \in 1 .. 4 : ~Decodes(Variants[j], fields)
        BY <1>1, VariantsByPlace DEF Decodes, RequiredFields, OwnFields
    <2> QED
        BY <2>1, <2>2, VariantsByPlace, FirstFit
<1>2. CASE fields = RequiredFields("GetVolumeVariantB") \cup {"soundOutput"}
    <2>1. Decodes(Variants[6], fields)
        BY <1>2, VariantsByPlace DEF Decodes, DeniesUnknownFields
    <2>2. \A j \in 1 .. 5 : ~Decodes(Variants[j], fields)
        BY <1>2, VariantsByPlace DEF Decodes, RequiredFields, OwnFields
    <2> QED
        BY <2>1, <2>2, VariantsByPlace, FirstFit
<1> QED
    BY <1>1, <1>2 DEF Answers

LEMMA InputsAnswer ==
    ASSUME NEW fields \in Answers("getExternalInputList")
    PROVE  Decode(fields) = "GetExternalInputList"
<1>1. fields = RequiredFields("GetExternalInputList")
    BY DEF Answers
<1>2. Decodes(Variants[2], fields)
    BY <1>1, VariantsByPlace DEF Decodes, DeniesUnknownFields
<1>3. \A j \in 1 .. 1 : ~Decodes(Variants[j], fields)
    BY <1>1, VariantsByPlace DEF Decodes, RequiredFields, OwnFields
<1> QED
    BY <1>2, <1>3, VariantsByPlace, FirstFit

LEMMA PowerAnswer ==
    ASSUME NEW fields \in Answers("getPowerState")
    PROVE  Decode(fields) = "GetPowerState"
<1>1. fields \in {RequiredFields("GetPowerState"),
                 RequiredFields("GetPowerState") \cup {"processing"}}
    BY DEF Answers
<1>2. Decodes(Variants[3], fields)
    BY <1>1, VariantsByPlace DEF Decodes, DeniesUnknownFields
<1>3. \A j \in 1 .. 2 : ~Decodes(Variants[j], fields)
    BY <1>1, VariantsByPlace DEF Decodes, RequiredFields, OwnFields
<1> QED
    BY <1>2, <1>3, VariantsByPlace, FirstFit

LEMMA SystemAnswer ==
    ASSUME NEW fields \in Answers("getSystemInfo")
    PROVE  Decode(fields) = "GetSystemInfo"
<1>1. fields = RequiredFields("GetSystemInfo") \cup {"features"}
    BY DEF Answers
<1>2. Decodes(Variants[4], fields)
    BY <1>1, VariantsByPlace DEF Decodes, DeniesUnknownFields
<1>3. \A j \in 1 .. 3 : ~Decodes(Variants[j], fields)
    BY <1>1, VariantsByPlace DEF Decodes, RequiredFields, OwnFields
<1> QED
    BY <1>2, <1>3, VariantsByPlace, FirstFit

\* A screen state has the fields of a power state, which comes first.
LEMMA ScreenAnswer ==
    ASSUME NEW fields \in Answers("turnScreen")
    PROVE  Decode(fields) = "GetPowerState"
<1>1. fields = RequiredFields("SetScreenOn")
    BY DEF Answers
<1>2. Decodes(Variants[3], fields)
    BY <1>1, VariantsByPlace DEF Decodes, DeniesUnknownFields, RequiredFields, OwnFields
<1>3. \A j \in 1 .. 2 : ~Decodes(Variants[j], fields)
    BY <1>1, VariantsByPlace DEF Decodes, RequiredFields, OwnFields
<1> QED
    BY <1>2, <1>3, VariantsByPlace, FirstFit

\* The confirmation of a setting, whatever its form, is no detail.
LEMMA ConfirmationAnswer ==
    ASSUME NEW fields, fields \in {RequiredFields("SetMute"), RequiredFields("SetVolume"),
                                   {"returnValue"}}
    PROVE  Decode(fields) \in {"PlainReturnValue", "SetMute", "SetVolume"}
<1>1. \A j \in 1 .. 7 : ~Decodes(Variants[j], fields)
    BY VariantsByPlace DEF Decodes, RequiredFields, OwnFields
<1>2. CASE fields = {"returnValue"}
    <2>1. Decodes(Variants[8], fields)
        BY <1>2, VariantsByPlace DEF Decodes, RequiredFields, OwnFields
    <2> QED
        BY <1>1, <2>1, VariantsByPlace, FirstFit
<1>3. CASE fields = RequiredFields("SetMute")
    <2>1. Decodes(Variants[9], fields)
        BY <1>3, VariantsByPlace DEF Decodes, DeniesUnknownFields
    <2>2. ~Decodes(Variants[8], fields)
        BY <1>3, VariantsByPlace DEF Decodes, DeniesUnknownFields, RequiredFields, OwnFields
    <2> QED
        BY <1>1, <2>1, <2>2, VariantsByPlace, FirstFit
<1>4. CASE fields = RequiredFields("SetVolume")
    <2>1. Decodes(Variants[11], fields)
        BY <1>4, VariantsByPlace DEF Decodes, DeniesUnknownFields
    <2>2. \A j \in 8 .. 10 : ~Decodes(Variants[j], fields)
        BY <1>4, VariantsByPlace DEF Decodes, DeniesUnknownFields, RequiredFields, OwnFields
    <2> QED
        BY <1>1, <2>1, <2>2, VariantsByPlace, FirstFit
<1> QED
    BY <1>2, <1>3, <1>4

\* Which detail the answer to a request ends up as, if any.
StoredAs(uri) == IF AskedDetail[uri] = "screen" THEN "power" ELSE AskedDetail[uri]

LEMMA AnswersAreStored ==
    ASSUME NEW uri, NEW fields \in Answers(uri)
    PROVE  /\ uri \in DOMAIN AskedDetail =>
                  Decode(fields) \in DOMAIN DetailOf /\ DetailOf[Decode(fields)] = StoredAs(uri)
           /\ uri \notin DOMAIN AskedDetail => Decode(fields) \notin DOMAIN DetailOf
<1>1. CASE uri \notin DOMAIN AskedDetail
    <2>1. fields \in {RequiredFields("SetMute"), RequiredFields("SetVolume"), {"returnValue"}}
        BY <1>1 DEF Answers, AskedDetail
    <2> QED
        BY <1>1, <2>1, ConfirmationAnswer DEF DetailOf
<1>2. CASE uri \in DOMAIN AskedDetail
    <2>1. uri \in {"getCurrentSWInformation", "getExternalInputList", "getPowerState",
                   "getSystemInfo", "getVolume", "turnScreen"}
        BY <1>2 DEF AskedDetail
    <2> QED
        BY <1>2, <2>1, SoftwareAnswer, InputsAnswer, PowerAnswer, SystemAnswer, VolumeAnswer,
           ScreenAnswer
        DEF StoredAs, AskedDetail, DetailOf
<1> QED
    BY <1>1, <1>2


-----------------------------------------------------------------------------
(* The details shown are the answers.                                      *)

\* An answer on its way is the connected TV's, or left over from the TV before; and
\* it is of the kind it was asked for.
AnswerAgrees(answer) ==
    /\ answer.tv = IF Resting(mgr) THEN leftover ELSE mgr.ws_url
    /\ answer.fields \in Answers(answer.uri)

AnswersAgree == \A k \in 1 .. Len(from_ws) : from_ws[k].type = "response" => AnswerAgrees(from_ws[k])

\* Without a connection only what was left over is shown.
RestShowsLeftover ==
    Resting(mgr) => answered = {} /\ \A d \in Detail : mgr.details[d] \in {None, leftover}

DetailsInv == RestShowsLeftover /\ AnswersAgree /\ DetailsAreTheAnswers

\* A reset leaves no details, and a new attempt adds none.
LEMMA ResetLeavesNone ==
    ASSUME NEW m \in Mgr, NEW f
    PROVE  InitializeFrom(f, m).details = NoDetails
<1> DEFINE cleared == [m EXCEPT !.details = NoDetails, !.is_connection_initialized = FALSE]
           forgotten == [cleared EXCEPT
                           !.connection_details = None, !.ws_url = None, !.mac_addr = None,
                           !.session_connection_count = 0, !.is_pairing = FALSE]
<1>1. NoDetails \in [Detail -> Url \cup {None}]
    BY DEF NoDetails
<1>2. cleared \in Mgr /\ cleared.details = NoDetails
    BY <1>1 DEF Mgr
<1>3. forgotten \in Mgr /\ forgotten.details = NoDetails
    BY <1>2 DEF Mgr
<1>4. \A r \in Mgr : ImportFrom(f, r).details = r.details
    BY DEF ImportFrom, Mgr
<1>5. InitializeFrom(f, m) \in {ImportFrom(f, cleared), ImportFrom(f, forgotten)}
    BY DEF InitializeFrom
<1> HIDE DEF cleared, forgotten
<1> QED
    BY <1>2, <1>3, <1>4, <1>5

LEMMA ForcedResetLeavesNone ==
    ASSUME NEW m \in Mgr
    PROVE  ForceManagerReset(m).details = NoDetails
<1> DEFINE n == [m EXCEPT !.status = "Disconnected"]
<1>1. n \in Mgr
    BY DEF Mgr, Status
<1>2. ForceManagerReset(m) = InitializeFrom(file[n.data_dir], n)
    BY DEF ForceManagerReset, InitializeManagerState
<1> HIDE DEF n
<1> QED
    BY <1>1, <1>2, ResetLeavesNone

LEMMA ConnectAddsNone ==
    ASSUME NEW m \in Mgr, NEW connection
    PROVE  InitiateConnect(m, connection).details = m.details
<1> DEFINE keyed == IF connection.client_key = None
                    THEN m ELSE [m EXCEPT !.client_key = connection.client_key]
<1>1. keyed.details = m.details /\ DOMAIN keyed = DOMAIN m
    BY DEF Mgr
<1>2. DOMAIN m = {"data_dir", "ws_url", "client_key", "mac_addr", "status", "details",
                  "connection_details", "reconnect", "is_pairing",
                  "is_connection_initialized", "is_manual_disconnect_requested",
                  "session_connection_count"}
    BY DEF Mgr
<1>3. InitiateConnect(m, connection) \in
          {keyed, [keyed EXCEPT
                     !.connection_details = connection,
                     !.reconnect = IF connection.initial_connect_retries
                                   THEN "Active" ELSE "Inactive",
                     !.status = "Connecting",
                     !.ws_url = connection.url,
                     !.mac_addr = MacAddrFor(m, connection)]}
    BY DEF InitiateConnect
<1> HIDE DEF keyed
<1> QED
    BY <1>1, <1>2, <1>3

LEMMA ReconnectAddsNone ==
    ASSUME NEW m \in Mgr, m.details = NoDetails
    PROVE  InitiateReconnect(m).details = NoDetails
<1> DEFINE n == [m EXCEPT !.reconnect = "Inactive"]
<1>1. n \in Mgr
    BY DEF Mgr
<1>2. InitiateReconnect(m) \in
          {InitializeFrom(file[n.data_dir], n), m, InitiateConnect(m, m.connection_details)}
    BY DEF InitiateReconnect, InitializeManagerState
<1> HIDE DEF n
<1> QED
    BY <1>1, <1>2, ResetLeavesNone, ConnectAddsNone

LEMMA DisconnectedLeavesNone ==
    ASSUME NEW m, FieldsAgree(m), file \in [Dir -> File], FilesAgree
    PROVE  HandleDisconnected(m).details = NoDetails
<1> DEFINE n == [m EXCEPT !.is_manual_disconnect_requested = FALSE]
           i == ForceManagerReset(n)
           p == [i EXCEPT !.reconnect = "Inactive", !.is_pairing = FALSE]
<1>1. FieldsAgree(n)
    BY DEF FieldsAgree, Mgr
<1>2. HandleDisconnected(m) \in {i, p, InitiateReconnect(i)}
    BY DEF HandleDisconnected
<1> HIDE DEF n
<1>3. i \in Mgr /\ i.details = NoDetails
    BY <1>1, ForcedResetAgrees, ForcedResetLeavesNone DEF AtRest, FieldsAgree
<1> HIDE DEF i
<1>4. p.details = NoDetails
    BY <1>3 DEF Mgr
<1> QED
    BY <1>2, <1>3, <1>4, ReconnectAddsNone

LEMMA ConnectErrorLeavesNone ==
    ASSUME NEW m, FieldsAgree(m), file \in [Dir -> File], FilesAgree
    PROVE  HandleConnectError(m).details = NoDetails
<1> DEFINE i == ForceManagerReset(m)
<1>1. i \in Mgr /\ i.details = NoDetails
    BY ForcedResetAgrees, ForcedResetLeavesNone DEF AtRest, FieldsAgree
<1>2. HandleConnectError(m) \in {i, InitiateReconnect(i)}
    BY DEF HandleConnectError
<1> HIDE DEF i
<1> QED
    BY <1>1, <1>2, ReconnectAddsNone

\* A reset shows nothing; what it leaves unread is of the TV of the connection.
LEMMA ResetShowsNothing ==
    ASSUME DetailsInv, NEW m, Resting(m), m.details = NoDetails, ConnectionReset(m),
           \A k \in 1 .. Len(from_ws') : from_ws'[k].type = "response" =>
               ~Resting(mgr) /\ \E l \in 1 .. Len(from_ws) : from_ws'[k] = from_ws[l]
    PROVE  DetailsInv'
<1>1. /\ mgr' = m /\ answered' = {} /\ Resting(m)
      /\ leftover' = IF HasAnswers(from_ws') THEN mgr.ws_url ELSE None
    BY DEF ConnectionReset
<1>2. \A d \in Detail : mgr'.details[d] = None
    BY <1>1 DEF NoDetails
<1>3. RestShowsLeftover' /\ DetailsAreTheAnswers'
    BY <1>1, <1>2 DEF RestShowsLeftover, DetailsAreTheAnswers
<1>4. ASSUME NEW k \in 1 .. Len(from_ws'), from_ws'[k].type = "response"
      PROVE  AnswerAgrees(from_ws[k])'
    <2>1. PICK l \in 1 .. Len(from_ws) : from_ws'[k] = from_ws[l]
        BY <1>4
    <2>2. AnswerAgrees(from_ws[l]) /\ ~Resting(mgr)
        BY <1>4, <2>1 DEF DetailsInv, AnswersAgree
    <2>3. HasAnswers(from_ws')
        BY <1>4 DEF HasAnswers, IsAnswer
    <2>4. leftover' = mgr.ws_url
        BY <1>1, <2>3
    <2> QED
        BY <1>1, <2>1, <2>2, <2>4 DEF AnswerAgrees, Resting
<1> QED
    BY <1>3, <1>4 DEF DetailsInv, AnswersAgree

\* A manager that shows nothing, with nothing to read.
LEMMA RestShowsNothing ==
    ASSUME mgr'.details = NoDetails, answered' = {}, from_ws' = <<>>
    PROVE  DetailsInv'
BY DEF DetailsInv, RestShowsLeftover, AnswersAgree, DetailsAreTheAnswers, NoDetails

\* Steps that look at no answer.
LEMMA DetailsUnchanged ==
    ASSUME Types, DetailsInv, UNCHANGED <<answered, leftover>>, mgr'.details = mgr.details,
           Resting(mgr') <=> Resting(mgr),
           ~Resting(mgr) => /\ mgr'.connection_details = mgr.connection_details
                            /\ mgr'.ws_url = mgr.ws_url,
           UNCHANGED from_ws \/ (from_ws # <<>> /\ Handled)
    PROVE  DetailsInv'
<1>1. RestShowsLeftover'
    BY DEF DetailsInv, RestShowsLeftover, Resting
<1>2. DetailsAreTheAnswers'
    <2>1. CASE Resting(mgr)
        BY <2>1 DEF DetailsInv, RestShowsLeftover, DetailsAreTheAnswers
    <2>2. CASE ~Resting(mgr)
        BY <2>2 DEF DetailsInv, DetailsAreTheAnswers
    <2> QED
        BY <2>1, <2>2
<1>3. ASSUME NEW k \in 1 .. Len(from_ws'), from_ws'[k].type = "response"
      PROVE  AnswerAgrees(from_ws[k])'
    <2>1. PICK l \in 1 .. Len(from_ws) : from_ws'[k] = from_ws[l]
        BY HandledUpdate DEF Types
    <2>2. AnswerAgrees(from_ws[l])
        BY <1>3, <2>1 DEF DetailsInv, AnswersAgree
    <2> QED
        BY <2>1, <2>2 DEF AnswerAgrees, Resting
<1> QED
    BY <1>1, <1>2, <1>3 DEF DetailsInv, AnswersAgree

\* The task is told to disconnect, or the manager reset, live as it is.
LEMMA DisconnectShows ==
    ASSUME MemoryInv, DetailsInv, ~Resting(mgr), NEW m, FieldsAgree(m), m.ws_url = mgr.ws_url,
           m.details = mgr.details, m.connection_details = mgr.connection_details,
           DisconnectFromTv(m), UNCHANGED from_ws \/ (from_ws # <<>> /\ Handled)
    PROVE  DetailsInv'
<1>1. Types /\ file \in [Dir -> File] /\ FilesAgree /\ m \in Mgr
    BY DEF MemoryInv, Types, FieldsAgree
<1>2. CASE link.stage # "none"
    <2>1. mgr' = [m EXCEPT !.status = "Disconnecting"] /\ UNCHANGED <<answered, leftover>>
        BY <1>2 DEF DisconnectFromTv
    <2>2. /\ mgr'.details = mgr.details /\ mgr'.connection_details = mgr.connection_details
          /\ mgr'.ws_url = mgr.ws_url /\ ~Resting(mgr')
        BY <1>1, <2>1 DEF Mgr, Resting
    <2> QED
        BY <1>1, <2>1, <2>2, DetailsUnchanged
<1>3. CASE link.stage = "none"
    <2>1. ConnectionReset(ForceManagerReset(m))
        BY <1>3 DEF DisconnectFromTv
    <2>2. AtRest(ForceManagerReset(m)) /\ ForceManagerReset(m).details = NoDetails
        BY <1>1, ForcedResetAgrees, ForcedResetLeavesNone
    <2>3. \A k \in 1 .. Len(from_ws') : \E l \in 1 .. Len(from_ws) : from_ws'[k] = from_ws[l]
        BY <1>1, HandledUpdate DEF Types
    <2> QED
        BY <2>1, <2>2, <2>3, ResetShowsNothing DEF AtRest
<1> QED
    BY <1>2, <1>3

\* The one step at which details and answers both move on, by the same detail; an
\* answer that a reset has left unread only becomes what was left over.
LEMMA ResponseShowsAnswer == MemoryInv /\ DetailsInv /\ CommandResponse => DetailsInv'
<1> SUFFICES ASSUME MemoryInv, DetailsInv, CommandResponse PROVE DetailsInv'
    OBVIOUS
<1> DEFINE answer == Head(from_ws)
           variant == Decode(answer.fields)
           stored == StoreDetail(mgr, variant, answer.tv)
           u == mgr.connection_details.url
<1>1. Handled /\ from_ws # <<>> /\ answer.type = "response" /\ UNCHANGED leftover
    BY DEF CommandResponse, IsNext, AtSelect
<1>2. Types /\ mgr \in Mgr /\ from_ws \in Seq(Update) /\ FieldsAgree(mgr)
    BY DEF MemoryInv, FieldsAgree, Types
<1>3. answer = from_ws[1] /\ 1 \in 1 .. Len(from_ws) /\ answer \in Update
    BY <1>1, <1>2, HandledUpdate
<1>4. AnswerAgrees(answer) /\ answer.tv \in Url
    BY <1>1, <1>3 DEF DetailsInv, AnswersAgree, Update
<1>5. ~Resting(mgr) => mgr.ws_url = u
    BY <1>1, UpdatesMeanLive
<1>6. /\ stored \in Mgr /\ stored.status = mgr.status /\ stored.ws_url = mgr.ws_url
      /\ stored.connection_details = mgr.connection_details
    BY <1>2, <1>4, StoreDetailAgrees DEF FieldsAgree
<1>7. /\ mgr'.details = stored.details /\ mgr'.connection_details = mgr.connection_details
      /\ mgr'.ws_url = mgr.ws_url /\ (Resting(mgr') <=> Resting(mgr))
    <2>1. \/ mgr' = stored
          \/ mgr' = [stored EXCEPT
                       !.is_connection_initialized = TRUE,
                       !.status = IF @ = "Initializing" /\ ~mgr.is_connection_initialized
                                  THEN "Communicating" ELSE @]
        BY DEF CommandResponse
    <2> HIDE DEF stored
    <2>2. CASE mgr' = stored
        BY <1>6, <2>2 DEF Resting
    <2>3. CASE mgr' = [stored EXCEPT
                         !.is_connection_initialized = TRUE,
                         !.status = IF @ = "Initializing" /\ ~mgr.is_connection_initialized
                                    THEN "Communicating" ELSE @]
        BY <1>6, <2>3 DEF Mgr, Resting
    <2> QED
        BY <2>1, <2>2, <2>3
<1>8. mgr.details \in [Detail -> Url \cup {None}] /\ answered \subseteq Detail
    BY <1>2 DEF Mgr, Types
<1>9. /\ variant \in DOMAIN DetailOf =>
             /\ DetailOf[variant] \in Detail
             /\ mgr'.details = [mgr.details EXCEPT ![DetailOf[variant]] = answer.tv]
      /\ variant \notin DOMAIN DetailOf => mgr'.details = mgr.details
    <2>1. CASE variant \in DOMAIN DetailOf
        <3>1. stored = [mgr EXCEPT !.details[DetailOf[variant]] = answer.tv]
            BY <2>1 DEF StoreDetail
        <3>2. stored.details = [mgr.details EXCEPT ![DetailOf[variant]] = answer.tv]
            BY <1>2, <3>1 DEF Mgr
        <3>3. DetailOf[variant] \in Detail
            BY <2>1 DEF DetailOf, Detail
        <3> QED
            BY <1>7, <2>1, <3>2, <3>3
    <2>2. CASE variant \notin DOMAIN DetailOf
        BY <1>7, <2>2 DEF StoreDetail
    <2> QED
        BY <2>1, <2>2
<1> HIDE DEF stored
<1>10. ASSUME Resting(mgr)
       PROVE  RestShowsLeftover' /\ DetailsAreTheAnswers'
    <2>1. answered' = answered /\ answered = {} /\ answer.tv = leftover
        BY <1>4, <1>10 DEF CommandResponse, IsResting, Resting, AnswerAgrees, DetailsInv,
                           RestShowsLeftover
    <2>2. \A d \in Detail : mgr.details[d] \in {None, leftover}
        BY <1>10 DEF DetailsInv, RestShowsLeftover
    <2>3. \A d \in Detail : mgr'.details[d] \in {None, leftover}
        BY <1>8, <1>9, <2>1, <2>2
    <2> QED
        BY <1>1, <2>1, <2>3 DEF RestShowsLeftover, DetailsAreTheAnswers
<1>11. ASSUME ~Resting(mgr)
       PROVE  RestShowsLeftover' /\ DetailsAreTheAnswers'
    <2>1. answer.tv = u /\ answer.fields \in Answers(answer.uri)
        BY <1>4, <1>5, <1>11 DEF AnswerAgrees
    <2>2. answered' = IF answer.uri \in DOMAIN AskedDetail
                      THEN answered \cup {AskedDetail[answer.uri]} ELSE answered
        BY <1>11 DEF CommandResponse, IsResting, Resting
    <2>3. CASE answer.uri \notin DOMAIN AskedDetail
        <3>1. mgr'.details = mgr.details /\ answered' = answered
            BY <1>9, <2>1, <2>2, <2>3, AnswersAreStored
        <3> QED
            BY <1>1, <1>7, <1>11, <3>1 DEF DetailsInv, DetailsAreTheAnswers, RestShowsLeftover
    <2>4. CASE answer.uri \in DOMAIN AskedDetail
        <3> DEFINE asked == AskedDetail[answer.uri]
        <3>1. answered' = answered \cup {asked}
            BY <2>2, <2>4
        <3>2. /\ StoredAs(answer.uri) = IF asked = "screen" THEN "power" ELSE asked
              /\ asked \in Detail
            BY <2>4 DEF StoredAs, AskedDetail, Detail
        <3>3. mgr'.details = [mgr.details EXCEPT ![StoredAs(answer.uri)] = u]
            BY <1>9, <2>1, <2>4, AnswersAreStored
        <3> HIDE DEF asked
        <3>4. ASSUME NEW d \in Detail
              PROVE  mgr'.details[d] \in
                         IF d \in answered' \ {"screen"} THEN {u}
                         ELSE {None, leftover}
                                  \cup IF d = "power" /\ "screen" \in answered' THEN {u} ELSE {}
            <4>1. mgr'.details[d] = IF d = StoredAs(answer.uri) THEN u ELSE mgr.details[d]
                BY <1>8, <3>3
            <4>2. mgr.details[d] \in
                      IF d \in answered \ {"screen"} THEN {u}
                      ELSE {None, leftover}
                               \cup IF d = "power" /\ "screen" \in answered THEN {u} ELSE {}
                BY DEF DetailsInv, DetailsAreTheAnswers
            <4>3. CASE asked = "screen"
                BY <3>1, <3>2, <4>1, <4>2, <4>3
            <4>4. CASE asked # "screen"
                BY <3>1, <3>2, <4>1, <4>2, <4>4
            <4> QED
                BY <4>3, <4>4
        <3> QED
            BY <1>1, <1>7, <1>11, <3>4 DEF DetailsAreTheAnswers, RestShowsLeftover
    <2> QED
        BY <2>3, <2>4
<1>12. RestShowsLeftover' /\ DetailsAreTheAnswers'
    BY <1>10, <1>11
<1>13. ASSUME NEW k \in 1 .. Len(from_ws'), from_ws'[k].type = "response"
       PROVE  AnswerAgrees(from_ws[k])'
    <2>1. PICK l \in 1 .. Len(from_ws) : from_ws'[k] = from_ws[l]
        BY <1>1, <1>2, HandledUpdate
    <2>2. AnswerAgrees(from_ws[l])
        BY <1>13, <2>1 DEF DetailsInv, AnswersAgree
    <2> QED
        BY <1>1, <1>7, <2>1, <2>2 DEF AnswerAgrees, Resting
<1> QED
    BY <1>12, <1>13 DEF DetailsInv, AnswersAgree

\* What the TV sends agrees with what the manager knows of the connection.
LEMMA SentDetailsAgree ==
    ASSUME MemoryInv, DetailsInv, TvLeavesManagerAlone, NEW update, Sends(update),
           update.type = "response" => AnswerAgrees(update)
    PROVE  DetailsInv'
<1>1. UNCHANGED <<mgr, answered, leftover>> /\ from_ws' = Append(from_ws, update)
    BY DEF TvLeavesManagerAlone, Sends
<1>2. from_ws \in Seq(Update)
    BY DEF MemoryInv, Types
<1>3. /\ Len(from_ws') = Len(from_ws) + 1 /\ Len(from_ws) \in Nat
      /\ from_ws'[Len(from_ws) + 1] = update
      /\ \A k \in 1 .. Len(from_ws) : from_ws'[k] = from_ws[k]
    BY <1>1, <1>2
<1>4. ASSUME NEW k \in 1 .. Len(from_ws'), from_ws'[k].type = "response"
      PROVE  AnswerAgrees(from_ws[k])'
    <2>1. CASE k = Len(from_ws) + 1
        BY <1>1, <1>3, <1>4, <2>1 DEF AnswerAgrees, Resting
    <2>2. CASE k # Len(from_ws) + 1
        <3>1. k \in 1 .. Len(from_ws) /\ from_ws'[k] = from_ws[k]
            BY <1>3, <2>2
        <3>2. AnswerAgrees(from_ws[k])
            BY <1>4, <3>1 DEF DetailsInv, AnswersAgree
        <3> QED
            BY <1>1, <3>1, <3>2 DEF AnswerAgrees, Resting
    <2> QED
        BY <2>1, <2>2
<1> QED
    BY <1>1, <1>4
    DEF DetailsInv, AnswersAgree, RestShowsLeftover, DetailsAreTheAnswers, Resting

LEMMA TvDetailsStep == MemoryInv /\ DetailsInv /\ Tv => DetailsInv'
<1> SUFFICES ASSUME MemoryInv, DetailsInv, Tv PROVE DetailsInv'
    OBVIOUS
<1>1. ASSUME link.stage = "registered", TvLeavesManagerAlone, NEW uri, Answer(uri)
      PROVE  DetailsInv'
    <2>1. PICK fields \in Answers(uri) :
              Sends([type |-> "response", tv |-> link.tv, uri |-> uri, fields |-> fields])
        BY <1>1 DEF Answer
    <2> DEFINE update == [type |-> "response", tv |-> link.tv, uri |-> uri, fields |-> fields]
    <2>2. link.tv = mgr.ws_url /\ ~Resting(mgr)
        BY <1>1 DEF MemoryInv, LinkAgrees
    <2>3. AnswerAgrees(update)
        BY <2>2 DEF AnswerAgrees
    <2> HIDE DEF update
    <2> QED
        BY <1>1, <2>1, <2>3, SentDetailsAgree DEF update
<1>2. ASSUME TvLeavesManagerAlone, NEW update, Sends(update), update.type # "response"
      PROVE  DetailsInv'
    BY <1>2, SentDetailsAgree
<1>3. CASE TvRegisters \/ TvPairs \/ TvDeclines \/ LinkEnds
    <2>1. TvLeavesManagerAlone
        BY <1>3 DEF TvRegisters, TvPairs, TvDeclines, LinkEnds
    <2>2. \E update : Sends(update) /\ update.type # "response"
        BY <1>3 DEF TvRegisters, TvPairs, TvDeclines, LinkEnds, Disconnected
    <2> QED
        BY <1>2, <2>1, <2>2
<1>4. CASE TvAnswers \/ TvNotifies
    BY <1>1, <1>4 DEF TvAnswers, TvNotifies
<1> QED
    BY <1>3, <1>4 DEF Tv

LEMMA LifetimeDetailsStep ==
    ASSUME MemoryInv, DetailsInv, Lifetime
    PROVE  DetailsInv'
<1>1. CASE Stop
    BY <1>1, RestShowsNothing DEF Stop, Blank
<1>2. CASE Start
    <2>1. \A r \in Mgr : ImportPersistedState(r).details = r.details
        BY DEF ImportPersistedState, ImportFrom, Mgr
    <2>2. FieldsAgree(New) /\ New.details = NoDetails
        <3>1. FilesAgree /\ file \in [Dir -> File]
            BY DEF MemoryInv, Types
        <3>2. Blank \in Mgr /\ Blank.details = NoDetails
            BY BlankAgrees DEF FieldsAgree, Blank
        <3> QED
            BY <2>1, <3>1, <3>2, BlankAgrees, ImportRests DEF New, AtRest
    <2>3. ASSUME NEW dir \in Dir
          PROVE  WithDataDir(New, dir).details = NoDetails
        <3> DEFINE c == [New EXCEPT !.data_dir = dir, !.ws_url = None,
                                    !.client_key = None, !.mac_addr = None]
        <3>1. c \in Mgr /\ c.details = NoDetails
            BY <2>2 DEF FieldsAgree, Mgr
        <3>2. WithDataDir(New, dir) = ImportPersistedState(c)
            BY DEF WithDataDir
        <3> HIDE DEF c
        <3> QED
            BY <2>1, <3>1, <3>2
    <2>4. mgr'.details = NoDetails
        BY <1>2, <2>2, <2>3 DEF Start
    <2>5. ~running /\ UNCHANGED <<from_ws, answered>>
        BY <1>2 DEF Start
    <2>6. from_ws' = <<>> /\ answered' = {}
        BY <2>5 DEF MemoryInv, LinkAgrees, DetailsInv, RestShowsLeftover, Blank, Resting
    <2> QED
        BY <2>4, <2>6, RestShowsNothing
<1> QED
    BY <1>1, <1>2 DEF Lifetime

LEMMA CallerDetailsStep ==
    ASSUME MemoryInv, DetailsInv, Caller
    PROVE  DetailsInv'
<1>1. Types /\ mgr \in Mgr /\ FieldsAgree(mgr) /\ FilesAgree /\ file \in [Dir -> File]
    BY DEF MemoryInv, FieldsAgree, Types
<1>2. CASE Connect
    <2>1. PICK connection \in Connection :
              MayConnect(connection) /\ mgr' = InitiateConnect(mgr, connection)
        BY <1>2 DEF Connect
    <2>2. UNCHANGED <<from_ws, answered, leftover>>
        BY <1>2 DEF Connect
    <2>3. CASE mgr.status = "Disconnected"
        <3>1. AtRest(mgr) /\ (connection.client_key # None => connection.url # None)
            BY <1>1, <1>2, <2>1, <2>3
            DEF Connect, AtSelect, MemoryInv, LinkAgrees, AtRest, Resting, MayConnect
        <3>2. Resting(mgr') /\ Resting(mgr)
            BY <1>1, <2>1, <2>3, <3>1, ConnectAgrees DEF AtRest
        <3>3. mgr'.details = mgr.details
            BY <1>1, <2>1, ConnectAddsNone
        <3> QED
            BY <1>1, <2>2, <3>2, <3>3, DetailsUnchanged
    <2>4. CASE mgr.status # "Disconnected"
        <3>1. mgr' = mgr
            BY <2>1, <2>4 DEF MayConnect, InitiateConnect
        <3> QED
            BY <1>1, <2>2, <3>1, DetailsUnchanged
    <2> QED
        BY <2>3, <2>4
<1>3. CASE SendTvCommand
    <2>1. UNCHANGED from_ws /\ ~Resting(mgr)
        BY <1>3 DEF SendTvCommand, Resting
    <2>2. \/ UNCHANGED <<mgr, answered, leftover>>
          \/ ConnectionReset(ForceManagerReset(mgr))
        BY <1>3 DEF SendTvCommand
    <2>3. CASE UNCHANGED <<mgr, answered, leftover>>
        BY <1>1, <2>1, <2>3, DetailsUnchanged
    <2>4. CASE ConnectionReset(ForceManagerReset(mgr))
        <3>1. AtRest(ForceManagerReset(mgr)) /\ ForceManagerReset(mgr).details = NoDetails
            BY <1>1, ForcedResetAgrees, ForcedResetLeavesNone
        <3> QED
            BY <2>1, <2>4, <3>1, ResetShowsNothing DEF AtRest
    <2> QED
        BY <2>2, <2>3, <2>4
<1>4. CASE Disconnect
    <2> DEFINE n == [mgr EXCEPT !.is_manual_disconnect_requested = TRUE]
    <2>1. UNCHANGED from_ws /\ ~Resting(mgr) /\ DisconnectFromTv(n)
        BY <1>4 DEF Disconnect, Resting
    <2>2. /\ FieldsAgree(n) /\ n.ws_url = mgr.ws_url /\ n.details = mgr.details
          /\ n.connection_details = mgr.connection_details
        BY <1>1 DEF FieldsAgree, Mgr
    <2> HIDE DEF n
    <2> QED
        BY <2>1, <2>2, DisconnectShows
<1>5. CASE WakeLastSeenTv
    <2>1. UNCHANGED <<mgr, from_ws, answered, leftover>>
        BY <1>5 DEF WakeLastSeenTv
    <2> QED
        BY <1>1, <2>1, DetailsUnchanged
<1> QED
    BY <1>2, <1>3, <1>4, <1>5 DEF Caller

\* An attempt that fails, and one that succeeds.
LEMMA AttemptDetailsStep ==
    ASSUME MemoryInv, DetailsInv, ConnectError \/ Connected \/ RegisterFails
    PROVE  DetailsInv'
<1>1. Types /\ mgr \in Mgr /\ FieldsAgree(mgr) /\ FilesAgree /\ file \in [Dir -> File]
    BY DEF MemoryInv, FieldsAgree, Types
<1>2. CASE ConnectError
    <2> DEFINE n == OptionallyPrepareForReconnect(mgr)
    <2>1. FieldsAgree(n)
        BY <1>1, PrepareAgrees
    <2>2. ConnectionReset(HandleConnectError(n)) /\ from_ws' = <<>>
        BY <1>2 DEF ConnectError
    <2> HIDE DEF n
    <2>3. AtRest(HandleConnectError(n)) /\ HandleConnectError(n).details = NoDetails
        BY <1>1, <2>1, ConnectErrorAgrees, ConnectErrorLeavesNone
    <2> QED
        BY <2>2, <2>3, ResetShowsNothing DEF AtRest
<1>3. CASE Connected
    <2>1. /\ from_ws' = <<>> /\ UNCHANGED <<answered, leftover>> /\ Resting(mgr)
          /\ mgr' = [mgr EXCEPT !.status = "Connected", !.reconnect = "Inactive",
                                !.session_connection_count = 1]
        BY <1>3 DEF Connected, Resting
    <2>2. mgr'.details = mgr.details /\ ~Resting(mgr')
        BY <1>1, <2>1 DEF Mgr, Resting
    <2>3. answered = {} /\ \A d \in Detail : mgr.details[d] \in {None, leftover}
        BY <2>1 DEF DetailsInv, RestShowsLeftover
    <2> QED
        BY <2>1, <2>2, <2>3
        DEF DetailsInv, RestShowsLeftover, AnswersAgree, DetailsAreTheAnswers, Resting
<1>4. CASE RegisterFails
    <2> DEFINE n == [mgr EXCEPT !.reconnect = "Inactive"]
    <2>1. FieldsAgree(n)
        BY <1>1 DEF FieldsAgree, Mgr
    <2>2. ConnectionReset(ForceManagerReset(n)) /\ from_ws' = <<Disconnected(TRUE)>>
        BY <1>4 DEF RegisterFails
    <2> HIDE DEF n
    <2>3. AtRest(ForceManagerReset(n)) /\ ForceManagerReset(n).details = NoDetails
        BY <1>1, <2>1, ForcedResetAgrees, ForcedResetLeavesNone DEF FieldsAgree
    <2>4. \A k \in 1 .. Len(from_ws') : from_ws'[k].type # "response"
        BY <2>2 DEF Disconnected
    <2> QED
        BY <2>2, <2>3, <2>4, ResetShowsNothing DEF AtRest
<1> QED
    BY <1>2, <1>3, <1>4

\* The end of a connection.
LEMMA EndDetailsStep ==
    ASSUME MemoryInv, DetailsInv, HandleDisconnect \/ ResetOnLoss \/ LateDisconnect
    PROVE  DetailsInv'
<1> DEFINE n == OptionallyPrepareForReconnect(mgr)
           m == IF Head(from_ws).is_lost THEN n ELSE mgr
<1>1. Types /\ mgr \in Mgr /\ FieldsAgree(mgr) /\ FilesAgree /\ file \in [Dir -> File]
    BY DEF MemoryInv, FieldsAgree, Types
<1>2. /\ FieldsAgree(n) /\ FieldsAgree(m) /\ m.status = mgr.status /\ m.ws_url = mgr.ws_url
      /\ m.details = mgr.details /\ m.connection_details = mgr.connection_details
    BY <1>1, PrepareAgrees
<1>3. from_ws' = <<>> /\ from_ws # <<>> /\ Handled
    BY EndOfUpdates DEF HandleDisconnect, ResetOnLoss, LateDisconnect
<1>4. /\ AtRest(HandleDisconnected(m)) /\ HandleDisconnected(m).details = NoDetails
      /\ AtRest(HandleConnectError(m)) /\ HandleConnectError(m).details = NoDetails
    BY <1>1, <1>2, DisconnectedAgrees, DisconnectedLeavesNone, ConnectErrorAgrees,
       ConnectErrorLeavesNone
<1>5. AtRest(ForceManagerReset(n)) /\ ForceManagerReset(n).details = NoDetails
    BY <1>1, <1>2, ForcedResetAgrees, ForcedResetLeavesNone DEF FieldsAgree
<1>6. \/ ConnectionReset(HandleDisconnected(m)) \/ ConnectionReset(HandleConnectError(m))
      \/ ConnectionReset(ForceManagerReset(n))
      \/ mgr' = m /\ UNCHANGED <<answered, leftover>>
    BY DEF HandleDisconnect, ResetOnLoss, LateDisconnect
<1> HIDE DEF n, m
<1>7. CASE mgr' = m /\ UNCHANGED <<answered, leftover>>
    BY <1>1, <1>2, <1>3, <1>7, DetailsUnchanged DEF Resting
<1> QED
    BY <1>3, <1>4, <1>5, <1>6, <1>7, ResetShowsNothing DEF AtRest

\* The updates of the registration.
LEMMA RegistrationDetailsStep ==
    ASSUME MemoryInv, DetailsInv, Paired \/ Registered \/ FinishRegistered \/ TvError
    PROVE  DetailsInv'
<1>1. Types /\ mgr \in Mgr /\ FieldsAgree(mgr) /\ FilesAgree /\ file \in [Dir -> File]
    BY DEF MemoryInv, FieldsAgree, Types
<1>2. CASE Paired
    <2>1. UNCHANGED <<answered, leftover>> /\ from_ws # <<>> /\ Handled
        BY <1>2 DEF Paired, IsNext
    <2>2. \/ mgr' = mgr
          \/ mgr.status = "Connected" /\ mgr' = [mgr EXCEPT !.status = "Pairing", !.is_pairing = TRUE]
        BY <1>2 DEF Paired
    <2>3. /\ mgr'.details = mgr.details /\ mgr'.connection_details = mgr.connection_details
          /\ mgr'.ws_url = mgr.ws_url /\ (Resting(mgr') <=> Resting(mgr))
        BY <1>1, <2>2 DEF Mgr, Resting
    <2> QED
        BY <1>1, <2>1, <2>3, DetailsUnchanged
<1>3. ASSUME NEW m, FieldsAgree(m), NEW f, FileAgrees(f, m.data_dir), f \in File,
             InitializeConnection(f, m), from_ws # <<>>, Head(from_ws).type = "registered",
             m.details = mgr.details, m.connection_details = mgr.connection_details,
             m.ws_url = mgr.ws_url, m.status = mgr.status
      PROVE  DetailsInv'
    <2>1. m \in Mgr /\ ~Resting(mgr) /\ Handled
        BY <1>3, UpdatesMeanLive DEF FieldsAgree, IsLate, InitializeConnection
    <2>2. CASE link.stage # "none"
        <3>1. /\ mgr' = [m EXCEPT !.status = "Initializing", !.is_pairing = FALSE]
              /\ UNCHANGED <<answered, leftover>>
            BY <1>3, <2>2 DEF InitializeConnection
        <3>2. /\ mgr'.details = mgr.details /\ mgr'.connection_details = mgr.connection_details
              /\ mgr'.ws_url = mgr.ws_url /\ ~Resting(mgr')
            BY <1>3, <2>1, <3>1 DEF Mgr, Resting
        <3> QED
            BY <1>1, <1>3, <2>1, <3>1, <3>2, DetailsUnchanged
    <2>3. CASE link.stage = "none"
        <3> DEFINE n == [m EXCEPT !.status = "Disconnected", !.is_pairing = FALSE]
                   r == InitializeFrom(f, n)
        <3>1. ConnectionReset(r)
            BY <1>3, <2>3 DEF InitializeConnection
        <3>2. FieldsAgree(n) /\ n.status = "Disconnected" /\ n.data_dir = m.data_dir
            BY <1>3, <2>1 DEF FieldsAgree, Mgr, Status
        <3> HIDE DEF n
        <3>3. FieldsAgree(r) /\ r.status = "Disconnected" /\ r.details = NoDetails
            BY <1>3, <3>2, InitializeAgrees, ResetLeavesNone DEF FieldsAgree
        <3>4. \A k \in 1 .. Len(from_ws') :
                  \E l \in 1 .. Len(from_ws) : from_ws'[k] = from_ws[l]
            BY <1>1, <1>3, <2>1, HandledUpdate DEF Types
        <3> HIDE DEF r
        <3> QED
            BY <2>1, <3>1, <3>3, <3>4, ResetShowsNothing DEF Resting
    <2> QED
        BY <2>2, <2>3
<1>4. CASE Registered
    <2> DEFINE keyed == [mgr EXCEPT !.client_key = Head(from_ws).client_key]
    <2>1. from_ws # <<>> /\ Head(from_ws).type = "registered"
        BY <1>4 DEF Registered, IsNext
    <2>2. Head(from_ws) \in Update /\ Head(from_ws) = from_ws[1] /\ 1 \in 1 .. Len(from_ws)
        BY <1>1, <2>1 DEF Types
    <2>3. Head(from_ws).client_key \in Key
        BY <2>1, <2>2 DEF Update
    <2>4. MayPersist(Head(from_ws).client_key)
        BY <2>1, <2>2 DEF MemoryInv, UpdatesAgree, KeysMayBeKept
    <2>5. /\ FieldsAgree(keyed) /\ keyed.details = mgr.details /\ keyed.status = mgr.status
          /\ keyed.connection_details = mgr.connection_details /\ keyed.ws_url = mgr.ws_url
          /\ keyed.data_dir = mgr.data_dir
        BY <1>1, <2>3, <2>4 DEF FieldsAgree, Mgr, MayPersist
    <2> HIDE DEF keyed
    <2>6. \/ mgr' = keyed /\ UNCHANGED <<from_ws, answered, leftover>>
          \/ InitializeConnection(file[mgr.data_dir], keyed)
        BY <1>4 DEF Registered, keyed
    <2>7. CASE mgr' = keyed /\ UNCHANGED <<from_ws, answered, leftover>>
        BY <1>1, <2>1, <2>5, <2>7, DetailsUnchanged DEF Resting
    <2>8. CASE InitializeConnection(file[mgr.data_dir], keyed)
        BY <1>1, <1>3, <2>1, <2>5, <2>8, TheFileAgrees
    <2> QED
        BY <2>6, <2>7, <2>8
<1>5. CASE FinishRegistered
    <2>1. is_writing
        BY <1>5 DEF FinishRegistered
    <2>2. from_ws # <<>> /\ Head(from_ws).type = "registered" /\ MayPersist(mgr.client_key)
        BY <2>1 DEF MemoryInv, UpdatesAgree, KeysMayBeKept
    <2>3. mgr.ws_url \in Url
        BY <2>2, UpdatesMeanLive DEF IsLate
    <2>4. mgr.client_key \in Key
        BY <1>1, <2>2, <2>3 DEF Types, MayPersist
    <2>5. Saved(mgr) \in File /\ FileAgrees(Saved(mgr), mgr.data_dir)
        BY <1>1, <2>2, <2>3, <2>4
        DEF FieldsAgree, Mgr, Saved, File, PersistedState, MayPersist, FileAgrees
    <2>6. PICK f \in {Saved(mgr), file[mgr.data_dir]} : InitializeConnection(f, mgr)
        BY <1>5 DEF FinishRegistered
    <2>7. f \in File /\ FileAgrees(f, mgr.data_dir)
        BY <1>1, <2>5, TheFileAgrees
    <2> QED
        BY <1>1, <1>3, <2>2, <2>6, <2>7
<1>6. CASE TvError
    <2> DEFINE n == OptionallyPrepareForReconnect(mgr)
    <2>1. /\ from_ws # <<>> /\ Handled /\ Head(from_ws).type = "error"
          /\ DisconnectFromTv(n)
        BY <1>6 DEF TvError, IsNext
    <2>2. /\ FieldsAgree(n) /\ n.details = mgr.details /\ n.ws_url = mgr.ws_url
          /\ n.connection_details = mgr.connection_details
        BY <1>1, PrepareAgrees
    <2>3. ~Resting(mgr)
        BY <2>1, UpdatesMeanLive DEF IsLate
    <2> HIDE DEF n
    <2> QED
        BY <2>1, <2>2, <2>3, DisconnectShows
<1> QED
    BY <1>2, <1>4, <1>5, <1>6

\* Whatever the TV answers, in whatever shape its firmware has, and however connections
\* end in between: what the connected TV has answered is shown as its answer, stored as
\* the detail that was asked for; and nothing else is shown, but for the answers of a
\* connection that a forced reset has left unread, and the answer to turnOnScreen as
\* the power state.
THEOREM DetailsAreAnswers == Spec => []DetailsAreTheAnswers
<1>1. Init => DetailsInv
    BY DEF Init, DetailsInv, RestShowsLeftover, AnswersAgree, DetailsAreTheAnswers, Blank, NoDetails
<1>2. MemoryInv /\ DetailsInv /\ [Next]_mem_vars => DetailsInv'
    <2> SUFFICES ASSUME MemoryInv, DetailsInv, [Next]_mem_vars PROVE DetailsInv'
        OBVIOUS
    <2>1. CASE Manager
        BY <2>1, AttemptDetailsStep, EndDetailsStep, RegistrationDetailsStep, ResponseShowsAnswer
        DEF Manager
    <2>2. CASE Lifetime \/ Caller \/ Tv
        BY <2>2, LifetimeDetailsStep, CallerDetailsStep, TvDetailsStep
    <2>3. CASE UNCHANGED mem_vars
        <3>1. Types
            BY DEF MemoryInv
        <3> QED
            BY <2>3, <3>1, DetailsUnchanged DEF mem_vars, Resting
    <2> QED
        BY <2>1, <2>2, <2>3 DEF Next
<1>3. DetailsInv => DetailsAreTheAnswers
    BY DEF DetailsInv
<1> QED
    BY <1>1, <1>2, <1>3, MemoryInvariant, PTL DEF Spec
=============================================================================
