------------------------------- MODULE TvCommands -------------------------------
(***************************************************************************)
(* What the manager writes to the TV: the request each TvCommand becomes,  *)
(* and the register request.  A request is its type and the endpoint of    *)
(* its URI; arguments and message ids are abstracted.                      *)
(***************************************************************************)

Request(type, uri) == [type |-> type, uri |-> uri]

\* impl From<TvCommand> for String.
RequestFor ==
    [ GetCurrentSWInfo       |-> Request("request", "getCurrentSWInformation"),
      GetExternalInputList   |-> Request("request", "getExternalInputList"),
      GetPowerState          |-> Request("request", "getPowerState"),
      GetSystemInfo          |-> Request("request", "getSystemInfo"),
      GetVolume              |-> Request("request", "getVolume"),
      MediaFastForward       |-> Request("request", "fastForward"),
      MediaPause             |-> Request("request", "pause"),
      MediaPlay              |-> Request("request", "play"),
      MediaRewind            |-> Request("request", "rewind"),
      MediaStop              |-> Request("request", "stop"),
      SetMute                |-> Request("request", "setMute"),
      SetScreenOn            |-> Request("request", "turnScreen"),
      SetVolume              |-> Request("request", "setVolume"),
      SubscribeGetVolume     |-> Request("subscribe", "getVolume"),
      SubscribeGetPowerState |-> Request("subscribe", "getPowerState"),
      SwitchInput            |-> Request("request", "switchInput"),
      TurnOff                |-> Request("request", "turnOff"),
      VolumeDown             |-> Request("request", "volumeDown"),
      VolumeUp               |-> Request("request", "volumeUp") ]

TvCommand == DOMAIN RequestFor

\* The requests of initialize_connection, in its order.
InitialCommands ==
    << "GetCurrentSWInfo", "GetExternalInputList", "GetPowerState", "GetSystemInfo",
       "SubscribeGetVolume", "SubscribeGetPowerState" >>

\* generate_register_request.
RegisterRequest(client_key, force_pairing) ==
    [type |-> "register", client_key |-> client_key, force_pairing |-> force_pairing]
=============================================================================
