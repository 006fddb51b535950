--------------------------- MODULE RtpConverters ---------------------------
(***************************************************************************)
(* The two converters between the JSON of libmediasoupclient and the       *)
(* protobuf messages of the engines: JsonToProto, which reads, and         *)
(* ProtoToJson, which writes.                                              *)
(*                                                                         *)
(* A media description goes from JSON to a message and back: one engine    *)
(* reads what its own library offers, another writes it for its own.  JSON *)
(* objects and messages are functions on the fields that are present,      *)
(* under the JSON names; a field of the wrong type is one that is absent.  *)
(* A mimeType is a pair of its two halves.  A value of fmtp parameters is  *)
(* tagged with its type.  A fingerprint is a sequence of hex digits and    *)
(* colons in JSON, and of bytes in a message.                              *)
(***************************************************************************)
EXTENDS Integers, Sequences

CONSTANTS Offer,         \* what the library may offer: descriptions in JSON,
                         \* each with the type of its message
          kUintModulus,  \* 2^32, the width of uint32_t
          kHexBase,      \* 16, the base of the digits of a fingerprint
          MaxHops        \* bound: conversions of one description

Colon == kHexBase        \* ':' in a fingerprint, where 0..kHexBase-1 are digits
Empty == "(empty)"       \* the empty string

VARIABLES type,     \* the message the description belongs to
          form,     \* what it is now: "json", "proto" or "refused"
          doc,      \* the description
          hops,     \* how often it has been written
          sent      \* history: the JSON that was last read, at first the original

converter_vars == <<type, form, doc, hops, sent>>

-----------------------------------------------------------------------------
(* Objects. *)

IsObject(j) == j = [f \in DOMAIN j |-> j[f]]

(* The fields of f, and those of g that f lacks. *)
f ?? g == [x \in DOMAIN f \cup DOMAIN g |-> IF x \in DOMAIN f THEN f[x] ELSE g[x]]

Has(j, fields)    == fields \subseteq DOMAIN j
Copy(j, fields)   == [f \in fields \cap DOMAIN j |-> j[f]]
Get(j, f, absent) == IF f \in DOMAIN j THEN j[f] ELSE absent
Each(Op(_), s)    == [i \in DOMAIN s |-> Op(s[i])]
All(Test(_), s)   == \A i \in DOMAIN s : Test(s[i])
ListOf(Test(_), s) == IsObject(s) /\ All(Test, s)

(* A name that no case lists is the default of its function. *)
Lookup(table, name, default) ==
  IF \E row \in table : row[1] = name
  THEN (CHOOSE row \in table : row[1] = name)[2]
  ELSE default

-----------------------------------------------------------------------------
(* The names, as they are read ... *)

DtlsRoleRead ==
  {<<"auto", "AUTO">>, <<"client", "CLIENT">>, <<"server", "SERVER">>}

StringToDtlsRole(s) == Lookup(DtlsRoleRead, s, "AUTO")

DtlsFingerprintAlgorithmRead ==
  {<<"sha-1", "SHA1">>, <<"sha-224", "SHA224">>, <<"sha-256", "SHA256">>,
   <<"sha-384", "SHA384">>, <<"sha-512", "SHA512">>}

StringToDtlsFingerprintAlgorithm(s) == Lookup(DtlsFingerprintAlgorithmRead, s, "SHA256")

(* The URIs stand under the ends that tell them apart. *)
RtpHeaderExtensionUriRead ==
  {<<"mid", "MID">>, <<"rtp-stream-id", "RTP_STREAM_ID">>,
   <<"repaired-rtp-stream-id", "REPAIR_RTP_STREAM_ID">>,
   <<"ssrc-audio-level", "AUDIO_LEVEL">>, <<"video-orientation", "VIDEO_ORIENTATION">>,
   <<"toffset", "TIME_OFFSET">>, <<"transport-wide-cc", "TRANSPORT_WIDE_CC_DRAFT01">>,
   <<"abs-send-time", "ABS_SEND_TIME">>, <<"abs-capture-time", "ABS_CAPTURE_TIME">>,
   <<"playout-delay", "PLAYOUT_DELAY">>,
   <<"dependency-descriptor", "DEPENDENCY_DESCRIPTOR">>}

StringToRtpHeaderExtensionUri(s) == Lookup(RtpHeaderExtensionUriRead, s, "UNSPECIFIED")

RtpHeaderExtensionDirectionRead ==
  {<<"sendrecv", "SEND_RECV">>, <<"sendonly", "SEND_ONLY">>,
   <<"recvonly", "RECV_ONLY">>, <<"inactive", "INACTIVE">>}

StringToRtpHeaderExtensionDirection(s) == Lookup(RtpHeaderExtensionDirectionRead, s, "UNSPECIFIED")

MediaKindRead ==
  {<<"audio", "AUDIO">>, <<"video", "VIDEO">>}

StringToMediaKind(s) == Lookup(MediaKindRead, s, "UNSPECIFIED")

MimeTypeAudioRead ==
  {<<"opus", "OPUS">>, <<"multiopus", "MULTI_CHANNEL_OPUS">>, <<"PCMU", "PCMU">>,
   <<"PCMA", "PCMA">>, <<"ISAC", "ISAC">>, <<"G722", "G722">>, <<"iLBC", "ILBC">>,
   <<"SILK", "SILK">>, <<"CN", "CN">>, <<"telephone-event", "TELEPHONE_EVENT">>,
   <<"rtx", "RTX">>, <<"red", "RED">>}

StringToMimeTypeAudio(s) == Lookup(MimeTypeAudioRead, s, "UNSPECIFIED")

MimeTypeVideoRead ==
  {<<"VP8", "VP8">>, <<"VP9", "VP9">>, <<"H264", "H264">>, <<"Av1", "AV1">>,
   <<"rtx", "RTX">>, <<"red", "RED">>, <<"ulpfec", "ULPFEC">>}

StringToMimeTypeVideo(s) == Lookup(MimeTypeVideoRead, s, "UNSPECIFIED")

ScalabilityModeRead ==
  {<<"L1T1", "NONE">>, <<"L1T2", "L1T2">>, <<"L1T2h", "L1T2H">>, <<"L1T3", "L1T3">>,
   <<"L1T3h", "L1T3H">>, <<"L2T1", "L2T1">>, <<"L2T1h", "L2T1H">>,
   <<"L2T1_KEY", "L2T1_KEY">>, <<"L2T2", "L2T2">>, <<"L2T2h", "L2T2H">>,
   <<"L2T2_KEY", "L2T2_KEY">>, <<"L2T2_KEY_SHIFT", "L2T2_KEY_SHIFT">>,
   <<"L2T3", "L2T3">>, <<"L2T3h", "L2T3H">>, <<"L2T3_KEY", "L2T3_KEY">>,
   <<"L2T3_KEY_SHIFT", "L2T3_KEY_SHIFT">>, <<"L3T1", "L3T1">>, <<"L3T1h", "L3T1H">>,
   <<"L3T1_KEY", "L3T1_KEY">>, <<"L3T2", "L3T2">>, <<"L3T2h", "L3T2H">>,
   <<"L3T2_KEY", "L3T2_KEY">>, <<"L3T2_KEY_SHIFT", "L3T2_KEY_SHIFT">>,
   <<"L3T3", "L3T3">>, <<"L3T3h", "L3T3H">>, <<"L3T3_KEY", "L3T3_KEY">>,
   <<"L3T3_KEY_SHIFT", "L3T3_KEY_SHIFT">>, <<"S2T1", "S2T1">>, <<"S2T1h", "S2T1H">>,
   <<"S2T2", "S2T2">>, <<"S2T2h", "S2T2H">>, <<"S2T3", "S2T3">>, <<"S2T3h", "S2T3H">>,
   <<"S3T1", "S3T1">>, <<"S3T1h", "S3T1H">>, <<"S3T2", "S3T2">>, <<"S3T2h", "S3T2H">>,
   <<"S3T3", "S3T3">>, <<"S3T3h", "S3T3H">>}

StringToScalabilityModeEnum(s) == Lookup(ScalabilityModeRead, s, "UNSPECIFIED")

-----------------------------------------------------------------------------
(* ... and as they are written. *)

DtlsRoleWritten ==
  {<<"AUTO", "auto">>, <<"CLIENT", "client">>, <<"SERVER", "server">>}

DtlsRoleToString(e) == Lookup(DtlsRoleWritten, e, "auto")

DtlsFingerprintAlgorithmWritten ==
  {<<"SHA1", "sha-1">>, <<"SHA224", "sha-224">>, <<"SHA256", "sha-256">>,
   <<"SHA384", "sha-384">>, <<"SHA512", "sha-512">>}

DtlsFingerprintAlgorithmToString(e) == Lookup(DtlsFingerprintAlgorithmWritten, e, "sha-256")

RtpHeaderExtensionUriWritten ==
  {<<"MID", "mid">>, <<"RTP_STREAM_ID", "rtp-stream-id">>,
   <<"REPAIR_RTP_STREAM_ID", "repaired-rtp-stream-id">>,
   <<"AUDIO_LEVEL", "ssrc-audio-level">>, <<"VIDEO_ORIENTATION", "video-orientation">>,
   <<"TIME_OFFSET", "toffset">>, <<"TRANSPORT_WIDE_CC_DRAFT01", "transport-wide-cc">>,
   <<"ABS_SEND_TIME", "abs-send-time">>, <<"ABS_CAPTURE_TIME", "abs-capture-time">>,
   <<"PLAYOUT_DELAY", "playout-delay">>,
   <<"DEPENDENCY_DESCRIPTOR", "dependency-descriptor">>}

RtpHeaderExtensionUriToString(e) == Lookup(RtpHeaderExtensionUriWritten, e, Empty)

RtpHeaderExtensionDirectionWritten ==
  {<<"SEND_RECV", "sendrecv">>, <<"SEND_ONLY", "sendonly">>,
   <<"RECV_ONLY", "recvonly">>, <<"INACTIVE", "inactive">>}

RtpHeaderExtensionDirectionToString(e) == Lookup(RtpHeaderExtensionDirectionWritten, e, "sendrecv")

MediaKindWritten ==
  {<<"AUDIO", "audio">>, <<"VIDEO", "video">>}

MediaKindToString(e) == Lookup(MediaKindWritten, e, "audio")

MimeTypeAudioWritten ==
  {<<"OPUS", "opus">>, <<"MULTI_CHANNEL_OPUS", "multiopus">>, <<"PCMU", "PCMU">>,
   <<"PCMA", "PCMA">>, <<"ISAC", "ISAC">>, <<"G722", "G722">>, <<"ILBC", "iLBC">>,
   <<"SILK", "SILK">>, <<"CN", "CN">>, <<"TELEPHONE_EVENT", "telephone-event">>,
   <<"RTX", "rtx">>, <<"RED", "red">>}

MimeTypeAudioToString(e) == Lookup(MimeTypeAudioWritten, e, "opus")

MimeTypeVideoWritten ==
  {<<"VP8", "VP8">>, <<"VP9", "VP9">>, <<"H264", "H264">>, <<"AV1", "Av1">>,
   <<"RTX", "rtx">>, <<"RED", "red">>, <<"ULPFEC", "ulpfec">>}

MimeTypeVideoToString(e) == Lookup(MimeTypeVideoWritten, e, "VP8")

ScalabilityModeWritten ==
  {<<"NONE", "L1T1">>, <<"L1T2", "L1T2">>, <<"L1T2H", "L1T2h">>, <<"L1T3", "L1T3">>,
   <<"L1T3H", "L1T3h">>, <<"L2T1", "L2T1">>, <<"L2T1H", "L2T1h">>,
   <<"L2T1_KEY", "L2T1_KEY">>, <<"L2T2", "L2T2">>, <<"L2T2H", "L2T2h">>,
   <<"L2T2_KEY", "L2T2_KEY">>, <<"L2T2_KEY_SHIFT", "L2T2_KEY_SHIFT">>,
   <<"L2T3", "L2T3">>, <<"L2T3H", "L2T3h">>, <<"L2T3_KEY", "L2T3_KEY">>,
   <<"L2T3_KEY_SHIFT", "L2T3_KEY_SHIFT">>, <<"L3T1", "L3T1">>, <<"L3T1H", "L3T1h">>,
   <<"L3T1_KEY", "L3T1_KEY">>, <<"L3T2", "L3T2">>, <<"L3T2H", "L3T2h">>,
   <<"L3T2_KEY", "L3T2_KEY">>, <<"L3T2_KEY_SHIFT", "L3T2_KEY_SHIFT">>,
   <<"L3T3", "L3T3">>, <<"L3T3H", "L3T3h">>, <<"L3T3_KEY", "L3T3_KEY">>,
   <<"L3T3_KEY_SHIFT", "L3T3_KEY_SHIFT">>, <<"S2T1", "S2T1">>, <<"S2T1H", "S2T1h">>,
   <<"S2T2", "S2T2">>, <<"S2T2H", "S2T2h">>, <<"S2T3", "S2T3">>, <<"S2T3H", "S2T3h">>,
   <<"S3T1", "S3T1">>, <<"S3T1H", "S3T1h">>, <<"S3T2", "S3T2">>, <<"S3T2H", "S3T2h">>,
   <<"S3T3", "S3T3">>, <<"S3T3H", "S3T3h">>}

ScalabilityModeEnumToString(e) == Lookup(ScalabilityModeWritten, e, "L1T1")

-----------------------------------------------------------------------------
(* Fingerprints and DTLS parameters. *)

(* hex_clean: what is left of the first n characters when the colons are erased. *)
Digits(hex) ==
  LET clean[n \in 0..Len(hex)] ==
        IF n = 0 THEN <<>>
        ELSE IF hex[n] = Colon THEN clean[n - 1] ELSE Append(clean[n - 1], hex[n])
  IN clean[Len(hex)]

(* The last of an odd number of digits is a byte of its own. *)
PairsToBytes(digits) ==
  [i \in 1..((Len(digits) + 1) \div 2) |->
     IF 2 * i <= Len(digits) THEN digits[2 * i - 1] * kHexBase + digits[2 * i]
                             ELSE digits[2 * i - 1]]

(* Bug: the colons are read as digits. *)
HexWithColons(hex) == PairsToBytes(hex)

HexStringToBytes(hex) == PairsToBytes(Digits(hex))

BytesToHexString(bytes) ==
  [i \in 1..(IF bytes = <<>> THEN 0 ELSE 3 * Len(bytes) - 1) |->
     LET byte == bytes[(i + 2) \div 3] IN
       CASE i % 3 = 1 -> byte \div kHexBase
         [] i % 3 = 2 -> byte % kHexBase
         [] i % 3 = 0 -> Colon]

FingerprintToProto(j) ==
  [algorithm |-> StringToDtlsFingerprintAlgorithm(j.algorithm),
   value     |-> HexStringToBytes(j.value)]

FingerprintToJson(p) ==
  [algorithm |-> DtlsFingerprintAlgorithmToString(p.algorithm),
   value     |-> BytesToHexString(p.value)]

DtlsReadable(j) ==
  /\ Has(j, {"fingerprints"})
  /\ j.fingerprints # <<>>
  /\ All(LAMBDA f : Has(f, {"algorithm", "value"}), j.fingerprints)

DtlsToProto(j) ==
  [role         |-> IF Has(j, {"role"}) THEN StringToDtlsRole(j.role) ELSE "UNSPECIFIED",
   fingerprints |-> Each(FingerprintToProto, j.fingerprints)]

DtlsToJson(p) ==
  [role         |-> DtlsRoleToString(p.role),
   fingerprints |-> Each(FingerprintToJson, p.fingerprints)]

-----------------------------------------------------------------------------
(* Codecs. *)

(* A value that is neither a string nor a number leaves the parameter without
   a value; a negative number is taken modulo 2^32. *)
JsonObjectToParameters(params) ==
  [key \in DOMAIN params |->
     CASE params[key][1] = "string" -> params[key]
       [] params[key][1] = "number" -> <<"number", params[key][2] % kUintModulus>>
       [] OTHER -> <<"unset">>]

(* Bug: only strings are written. *)
StringParametersToJson(params) ==
  [key \in {k \in DOMAIN params : params[k][1] = "string"} |-> params[key]]

(* A parameter without a value is not written. *)
ParametersToJsonObject(params) ==
  [key \in {k \in DOMAIN params : params[k][1] # "unset"} |-> params[key]]

FeedbackToProto(j) == [type |-> j.type, parameter |-> Get(j, "parameter", Empty)]
FeedbackToJson(p)  == [type |-> p.type, parameter |-> p.parameter]

(* The fields a codec must have, and its kind, which its mimeType decides. *)
CodecReadable(j, required) ==
  /\ Has(j, required)
  /\ j.mimeType[1] \in {"audio", "video"}
  /\ All(LAMBDA fb : Has(fb, {"type"}), Get(j, "rtcpFeedback", <<>>))

(* Only a capability that is not finalized may lack its payload type. *)
CapabilityReadable(j) == CodecReadable(j, {"mimeType", "clockRate"})
FinalizedReadable(j)  == CodecReadable(j, {"mimeType", "clockRate", "preferredPayloadType"})
ParametersReadable(j) == CodecReadable(j, {"mimeType", "clockRate", "payloadType"})

StringToMimeType(mime) ==
  <<mime[1], IF mime[1] = "audio" THEN StringToMimeTypeAudio(mime[2])
                                  ELSE StringToMimeTypeVideo(mime[2])>>

MimeTypeToString(mime) ==
  <<mime[1], IF mime[1] = "audio" THEN MimeTypeAudioToString(mime[2])
                                  ELSE MimeTypeVideoToString(mime[2])>>

(* What the six codec messages share; video has no channels. *)
CodecToProto(j, numbers) ==
  [mimeType     |-> StringToMimeType(j.mimeType),
   parameters   |-> JsonObjectToParameters(Get(j, "parameters", <<>>)),
   rtcpFeedback |-> Each(FeedbackToProto, Get(j, "rtcpFeedback", <<>>))]
  ?? Copy(j, numbers)
  ?? (IF j.mimeType[1] = "audio" THEN [channels |-> Get(j, "channels", 1)] ELSE <<>>)

CapabilityToProto(j) == CodecToProto(j, {"preferredPayloadType", "clockRate"})
FinalizedToProto(j)  == CodecToProto(j, {"preferredPayloadType", "clockRate"})
ParametersToProto(j) == CodecToProto(j, {"payloadType", "clockRate"})

CodecToJson(p, numbers) ==
  [mimeType     |-> MimeTypeToString(p.mimeType),
   parameters   |-> ParametersToJsonObject(p.parameters),
   rtcpFeedback |-> Each(FeedbackToJson, p.rtcpFeedback)]
  ?? Copy(p, numbers \cup {"channels"})

(* Loading a device adds the kind of each codec to the router's capabilities. *)
AddKind(codec) == codec ?? [kind |-> codec.mimeType[1]]

CapabilityToJson(p) == CodecToJson(p, {"preferredPayloadType", "clockRate"})
FinalizedToJson(p)  == AddKind(CodecToJson(p, {"preferredPayloadType", "clockRate"}))
ParametersToJson(p) == CodecToJson(p, {"payloadType", "clockRate"})

-----------------------------------------------------------------------------
(* Header extensions: of capabilities, and of parameters. *)

ExtensionReadable(j)           == Has(j, {"uri", "preferredId", "kind"})
ExtensionParametersReadable(j) == Has(j, {"id", "uri"})

ExtensionToProto(j) ==
  [uri  |-> StringToRtpHeaderExtensionUri(j.uri),
   kind |-> StringToMediaKind(j.kind),
   direction |-> IF Has(j, {"direction"})
                 THEN StringToRtpHeaderExtensionDirection(j.direction)
                 ELSE "UNSPECIFIED"]
  ?? Copy(j, {"preferredId", "preferredEncrypt"})

ExtensionParametersToProto(j) ==
  [uri |-> StringToRtpHeaderExtensionUri(j.uri)] ?? Copy(j, {"id", "encrypt"})

ExtensionToJson(p) ==
  [uri  |-> RtpHeaderExtensionUriToString(p.uri),
   kind |-> MediaKindToString(p.kind),
   direction |-> RtpHeaderExtensionDirectionToString(p.direction),
   preferredEncrypt |-> Get(p, "preferredEncrypt", FALSE)]
  ?? Copy(p, {"preferredId"})

ExtensionParametersToJson(p) ==
  [uri     |-> RtpHeaderExtensionUriToString(p.uri),
   encrypt |-> Get(p, "encrypt", FALSE)]
  ?? Copy(p, {"id"})

-----------------------------------------------------------------------------
(* Encodings: every field is optional, and keeps whether it is present. *)

LayerFields == {"scalabilityMode", "spatialLayers", "temporalLayers", "ksvc"}

LayersReadable(j) ==
  /\ Has(j, LayerFields)
  /\ j.spatialLayers # 0
  /\ j.temporalLayers # 0

EncodingReadable(j) ==
  Has(j, {"scalabilityMode"}) /\ j.scalabilityMode[1] = "object"
    => LayersReadable(j.scalabilityMode[2])

ScalabilityModeToProto(mode) ==
  CASE mode[1] = "string" -> <<"predefined", StringToScalabilityModeEnum(mode[2])>>
    [] mode[1] = "object" -> <<"custom", mode[2]>>
    [] OTHER -> <<"predefined", "NONE">>

ScalabilityModeToJson(mode) ==
  IF mode[1] = "predefined"
  THEN <<"string", ScalabilityModeEnumToString(mode[2])>>
  ELSE <<"object", Copy(mode[2], LayerFields)>>

EncodingFields == {"ssrc", "rid", "codecPayloadType", "dtx", "maxBitrate"}

(* An rtx without an ssrc is written with the default of its field. *)
EncodingWith(Mode(_), e) ==
  Copy(e, EncodingFields)
  ?? (IF Has(e, {"rtx"}) THEN [rtx |-> [ssrc |-> Get(e.rtx, "ssrc", 0)]] ELSE <<>>)
  ?? (IF Has(e, {"scalabilityMode"})
      THEN [scalabilityMode |-> Mode(e.scalabilityMode)] ELSE <<>>)

EncodingToProto(j) == EncodingWith(ScalabilityModeToProto, j)
EncodingToJson(p)  == EncodingWith(ScalabilityModeToJson, p)

-----------------------------------------------------------------------------
(* Whole descriptions. *)

ListsReadable(j, Codec(_), Extension(_)) ==
  /\ All(Codec, j.codecs)
  /\ All(Extension, Get(j, "headerExtensions", <<>>))

CapabilitiesReadable(j, Codec(_)) ==
  Has(j, {"codecs", "headerExtensions"}) /\ ListsReadable(j, Codec, ExtensionReadable)

RtpReadable(j) ==
  /\ Has(j, {"codecs"})
  /\ ListsReadable(j, ParametersReadable, ExtensionParametersReadable)
  /\ All(EncodingReadable, Get(j, "encodings", <<>>))

Lists(d, Codec(_), Extension(_)) ==
  [codecs           |-> Each(Codec, d.codecs),
   headerExtensions |-> Each(Extension, Get(d, "headerExtensions", <<>>))]

RtcpOf(rtcp) == [reducedSize |-> Get(rtcp, "reducedSize", FALSE)] ?? Copy(rtcp, {"cname"})

RtpToProto(j) ==
  Lists(j, ParametersToProto, ExtensionParametersToProto)
  ?? [encodings |-> Each(EncodingToProto, Get(j, "encodings", <<>>))]
  ?? (IF Has(j, {"rtcp"}) THEN [rtcp |-> RtcpOf(j.rtcp)] ELSE <<>>)
  ?? Copy(j, {"mid"})

(* The rtcp of a message without one is that of its default, written anyway. *)
RtpToJson(p) ==
  Lists(p, ParametersToJson, ExtensionParametersToJson)
  ?? [encodings |-> Each(EncodingToJson, p.encodings), rtcp |-> RtcpOf(Get(p, "rtcp", <<>>))]
  ?? Copy(p, {"mid"})

Readable(t, j) ==
  CASE t = "DtlsParameters"           -> DtlsReadable(j)
    [] t = "RtpParameters"            -> RtpReadable(j)
    [] t = "RtpCapabilities"          -> CapabilitiesReadable(j, CapabilityReadable)
    [] t = "RtpCapabilitiesFinalized" -> CapabilitiesReadable(j, FinalizedReadable)

ToProto(t, j) ==
  CASE t = "DtlsParameters"           -> DtlsToProto(j)
    [] t = "RtpParameters"            -> RtpToProto(j)
    [] t = "RtpCapabilities"          -> Lists(j, CapabilityToProto, ExtensionToProto)
    [] t = "RtpCapabilitiesFinalized" -> Lists(j, FinalizedToProto, ExtensionToProto)

ToJson(t, p) ==
  CASE t = "DtlsParameters"           -> DtlsToJson(p)
    [] t = "RtpParameters"            -> RtpToJson(p)
    [] t = "RtpCapabilities"          -> Lists(p, CapabilityToJson, ExtensionToJson)
    [] t = "RtpCapabilitiesFinalized" -> Lists(p, FinalizedToJson, ExtensionToJson)

-----------------------------------------------------------------------------
(* What the library may offer has lists, digits and numbers where they belong. *)

FingerprintTyped(f) == Has(f, {"value"}) => f.value \in Seq(0..kHexBase)

CodecTyped(c) ==
  \A key \in DOMAIN Get(c, "parameters", <<>>) :
    c.parameters[key][1] = "number" => c.parameters[key][2] \in Int

Typed(t, j) ==
  IF t = "DtlsParameters"
  THEN Has(j, {"fingerprints"}) => ListOf(FingerprintTyped, j.fingerprints)
  ELSE Has(j, {"codecs"}) => All(CodecTyped, j.codecs)

DescriptionType == {"DtlsParameters", "RtpParameters", "RtpCapabilities",
                    "RtpCapabilitiesFinalized"}

ASSUME ConvertersAssumption ==
  /\ \A o \in Offer : o.type \in DescriptionType /\ Typed(o.type, o.doc)
  /\ kUintModulus \in Nat \ {0}
  /\ kHexBase \in Nat \ {0}
  /\ MaxHops \in Nat

ConverterInit ==
  /\ \E o \in Offer : type = o.type /\ doc = o.doc
  /\ form = "json"
  /\ hops = 0
  /\ sent = doc

(* A missing required field is a runtime_error, which the caller catches. *)
JsonToProtoThrows ==
  /\ form = "json"
  /\ hops < MaxHops
  /\ ~Readable(type, doc)
  /\ form' = "refused"
  /\ UNCHANGED <<type, doc, hops, sent>>

JsonToProto ==
  /\ form = "json"
  /\ hops < MaxHops
  /\ Readable(type, doc)
  /\ form' = "proto"
  /\ sent' = doc
  /\ doc' = ToProto(type, doc)
  /\ UNCHANGED <<type, hops>>

ProtoToJson ==
  /\ form = "proto"
  /\ form' = "json"
  /\ doc' = ToJson(type, doc)
  /\ hops' = hops + 1
  /\ UNCHANGED <<type, sent>>

ConverterNext == JsonToProtoThrows \/ JsonToProto \/ ProtoToJson

ConverterSpec == ConverterInit /\ [][ConverterNext]_converter_vars

-----------------------------------------------------------------------------
(* A reference: the standard descriptions, with the names and the fields that the
   engines know, typed as they expect. *)

Roles      == {"auto", "client", "server"}
Algorithms == {"sha-1", "sha-224", "sha-256", "sha-384", "sha-512"}
MediaKinds == {"audio", "video"}
Directions == {"sendrecv", "sendonly", "recvonly", "inactive"}
Uris == {"mid", "rtp-stream-id", "repaired-rtp-stream-id", "ssrc-audio-level",
         "video-orientation", "toffset", "transport-wide-cc", "abs-send-time",
         "abs-capture-time", "playout-delay", "dependency-descriptor", Empty}
AudioTypes == {"opus", "multiopus", "PCMU", "PCMA", "ISAC", "G722", "iLBC", "SILK", "CN",
               "telephone-event", "rtx", "red"}
VideoTypes == {"VP8", "VP9", "H264", "Av1", "rtx", "red", "ulpfec"}
MimeTypes  == ({"audio"} \X AudioTypes) \cup ({"video"} \X VideoTypes)
ScalabilityModes ==
  {"L1T1", "L1T2", "L1T2h", "L1T3", "L1T3h", "L2T1", "L2T1h", "L2T1_KEY", "L2T2", "L2T2h",
   "L2T2_KEY", "L2T2_KEY_SHIFT", "L2T3", "L2T3h", "L2T3_KEY", "L2T3_KEY_SHIFT", "L3T1",
   "L3T1h", "L3T1_KEY", "L3T2", "L3T2h", "L3T2_KEY", "L3T2_KEY_SHIFT", "L3T3", "L3T3h",
   "L3T3_KEY", "L3T3_KEY_SHIFT", "S2T1", "S2T1h", "S2T2", "S2T2h", "S2T3", "S2T3h", "S3T1",
   "S3T1h", "S3T2", "S3T2h", "S3T3", "S3T3h"}

Fields(j, required, optional) ==
  IsObject(j) /\ Has(j, required) /\ DOMAIN j \subseteq required \cup optional

(* Two digits for each byte, between colons. *)
IsHex(v) ==
  /\ v \in Seq(0..kHexBase)
  /\ v = <<>> \/ Len(v) % 3 = 2
  /\ \A i \in DOMAIN v : v[i] = Colon <=> i % 3 = 0

StandardFingerprint(f) ==
  /\ Fields(f, {"algorithm", "value"}, {})
  /\ f.algorithm \in Algorithms
  /\ IsHex(f.value)

StandardDtls(j) ==
  /\ Fields(j, {"fingerprints"}, {"role"})
  /\ Get(j, "role", "auto") \in Roles
  /\ j.fingerprints # <<>>
  /\ ListOf(StandardFingerprint, j.fingerprints)

StandardParameter(v) ==
  v[1] = "string" \/ v \in {"number"} \X (0..(kUintModulus - 1))

PayloadType(t) == IF t = "RtpParameters" THEN "payloadType" ELSE "preferredPayloadType"

StandardCodec(t, c) ==
  /\ Fields(c, {"mimeType", "clockRate"} \cup (IF t = "RtpCapabilities" THEN {} ELSE {PayloadType(t)}),
               {PayloadType(t), "parameters", "rtcpFeedback"}
               \cup (IF c.mimeType[1] = "audio" THEN {"channels"} ELSE {})
               \cup (IF t = "RtpCapabilitiesFinalized" THEN {"kind"} ELSE {}))
  /\ c.mimeType \in MimeTypes
  /\ Get(c, "kind", c.mimeType[1]) = c.mimeType[1]
  /\ ListOf(StandardParameter, Get(c, "parameters", <<>>))
  /\ ListOf(LAMBDA fb : Fields(fb, {"type"}, {"parameter"}), Get(c, "rtcpFeedback", <<>>))

StandardExtension(t, e) ==
  /\ IF t = "RtpParameters"
     THEN Fields(e, {"id", "uri"}, {"encrypt"})
     ELSE /\ Fields(e, {"preferredId", "uri", "kind"}, {"direction", "preferredEncrypt"})
          /\ e.kind \in MediaKinds
          /\ Get(e, "direction", "sendrecv") \in Directions
  /\ e.uri \in Uris

StandardMode(mode) ==
  \/ mode \in {"string"} \X ScalabilityModes
  \/ /\ mode[1] = "object"
     /\ mode = <<"object", mode[2]>>
     /\ Fields(mode[2], LayerFields, {})
     /\ LayersReadable(mode[2])

StandardEncoding(e) ==
  /\ Fields(e, {}, EncodingFields \cup {"rtx", "scalabilityMode"})
  /\ Has(e, {"rtx"}) => Fields(e.rtx, {"ssrc"}, {})
  /\ Has(e, {"scalabilityMode"}) => StandardMode(e.scalabilityMode)

StandardRtp(t, j) ==
  /\ IF t = "RtpParameters"
     THEN Fields(j, {"codecs"}, {"headerExtensions", "encodings", "rtcp", "mid"})
     ELSE Fields(j, {"codecs", "headerExtensions"}, {})
  /\ ListOf(LAMBDA c : StandardCodec(t, c), j.codecs)
  /\ ListOf(LAMBDA e : StandardExtension(t, e), Get(j, "headerExtensions", <<>>))
  /\ ListOf(StandardEncoding, Get(j, "encodings", <<>>))
  /\ Has(j, {"rtcp"}) => Fields(j.rtcp, {}, {"cname", "reducedSize"})

Standard(t, j) == IF t = "DtlsParameters" THEN StandardDtls(j) ELSE StandardRtp(t, j)

(* What the defaults of the messages complete a description to. *)

CompleteFeedback(fb) == fb ?? [parameter |-> Empty]

CompleteCodec(t, c) ==
  [rtcpFeedback |-> Each(CompleteFeedback, Get(c, "rtcpFeedback", <<>>))]
  ?? c
  ?? [parameters |-> <<>>]
  ?? (IF t = "RtpCapabilitiesFinalized" THEN [kind |-> c.mimeType[1]] ELSE <<>>)
  ?? (IF c.mimeType[1] = "audio" THEN [channels |-> 1] ELSE <<>>)

CompleteExtension(t, e) ==
  e ?? (IF t = "RtpParameters" THEN [encrypt |-> FALSE]
        ELSE [preferredEncrypt |-> FALSE, direction |-> "sendrecv"])

Complete(t, j) ==
  IF t = "DtlsParameters" THEN j ?? [role |-> "auto"]
  ELSE Lists(j, LAMBDA c : CompleteCodec(t, c), LAMBDA e : CompleteExtension(t, e))
       ?? (IF Has(j, {"rtcp"}) THEN [rtcp |-> j.rtcp ?? [reducedSize |-> FALSE]] ELSE <<>>)
       ?? j
       ?? (IF t = "RtpParameters"
           THEN [encodings |-> <<>>, rtcp |-> [reducedSize |-> FALSE]] ELSE <<>>)

(* A standard description comes through reading and writing with every name,
   number and parameter it had, and gains only the defaults of the fields it
   left out: the two converters, which list all names and fields separately,
   are each other's inverse. *)
Faithful ==
  form = "json" /\ hops = 1 /\ Standard(type, sent) => doc = Complete(type, sent)

(* What one engine wrote another can read and forwards unchanged: every field
   that reading requires is written, so that only an original is ever refused;
   and whatever the original lost on its way (unknown names, parameters of other
   types, negative numbers), it loses in the first conversion, and the next one
   finds a fixed point. *)
Stable ==
  /\ form = "json" /\ hops >= 2 => doc = sent
  /\ form = "refused" => hops = 0
=============================================================================
