------------------------------ MODULE SsapPayloads ------------------------------
(***************************************************************************)
(* How the payload of a command response is decoded.  It does not say what *)
(* it answers: LgTvResponsePayload is an untagged enum, so serde takes the *)
(* first variant, in the order of the declaration, whose required fields   *)
(* are all there.  A payload is the set of its field names; the fields of  *)
(* a nested object carry its name.  Unknown fields are ignored, but for    *)
(* PlainReturnValue.                                                       *)
(***************************************************************************)
EXTENDS Sequences, FiniteSetsExt

Variants ==
    << "CurrentSwInfo", "GetExternalInputList", "GetPowerState", "GetSystemInfo",
       "GetVolumeVariantA", "GetVolumeVariantB", "Pair", "PlainReturnValue",
       "SetMute", "SetScreenOn", "SetVolume" >>

\* Every variant requires returnValue; these are the other fields it requires.
OwnFields ==
    [ CurrentSwInfo |->
        {"product_name", "model_name", "sw_type", "major_ver", "minor_ver", "country",
         "country_group", "device_id", "auth_flag", "ignore_disable", "eco_info",
         "config_key", "language_code"},
      GetExternalInputList |-> {"devices"},
      GetPowerState        |-> {"state"},
      GetSystemInfo        |-> {"receiverType", "modelName", "programMode"},
      GetVolumeVariantA    |->
        {"volumeStatus", "volumeStatus.maxVolume", "volumeStatus.volume",
         "volumeStatus.muteStatus", "volumeStatus.adjustVolume"},
      GetVolumeVariantB    |-> {"volumeMax", "muted", "volume", "supportvolume"},
      Pair                 |-> {"pairingType"},
      PlainReturnValue     |-> {},
      SetMute              |-> {"muteStatus", "soundOutput"},
      SetScreenOn          |-> {"state"},
      SetVolume            |-> {"volume", "soundOutput"} ]

RequiredFields(variant) == {"returnValue"} \cup OwnFields[variant]

DeniesUnknownFields(variant) == variant = "PlainReturnValue"

Decodes(variant, fields) ==
    /\ RequiredFields(variant) \subseteq fields
    /\ DeniesUnknownFields(variant) => fields = RequiredFields(variant)

Fitting(fields) == {k \in 1 .. Len(Variants) : Decodes(Variants[k], fields)}

\* Mutant of Decode: the last variant that fits.
DecodeLast(fields) ==
    IF Fitting(fields) = {} THEN "unrecognized" ELSE Variants[Max(Fitting(fields))]

\* serde_json::from_str; a payload that fits no variant is reported and dropped.
Decode(fields) ==
    IF Fitting(fields) = {} THEN "unrecognized" ELSE Variants[Min(Fitting(fields))]
=============================================================================
