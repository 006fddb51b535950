-------------------------- MODULE MCRtpConverters --------------------------
(* Descriptions with one or two elements in each list.  One element varies   *)
(* at a time, over all names, all combinations of present and absent fields  *)
(* that are read together, and the values on which reading depends.          *)
EXTENDS RtpConverters, SequencesExt

(* Every way of leaving out some of the fields of an object. *)
Parts(j, fields) == {Copy(j, (DOMAIN j \ fields) \cup kept) : kept \in SUBSET fields}

-----------------------------------------------------------------------------
Feedbacks == {<<>>, <<[type |-> "nack"], [type |-> "nack", parameter |-> "pli"]>>}

Params == {<<>>, [apt |-> <<"number", 5>>, cfg |-> <<"string", "x">>]}
OddParams == {[apt |-> <<"number", -1>>, cfg |-> <<"boolean">>]}

Codec(t, mime, params, fb) ==
  [f \in {PayloadType(t)} |-> 7]
  ?? [mimeType |-> mime, clockRate |-> 9, parameters |-> params, rtcpFeedback |-> fb]

SomeCodecs(t) ==
  UNION {Parts(Codec(t, m, p, fb), {"parameters", "rtcpFeedback"}) :
           m \in MimeTypes, p \in Params, fb \in Feedbacks}
  \cup {Codec(t, <<"audio", "opus">>, p, fb) ?? [channels |-> 2] :
         p \in Params, fb \in Feedbacks}
  \cup (IF t = "RtpCapabilities"
        THEN {Copy(Codec(t, m, <<>>, <<>>), {"mimeType", "clockRate", "parameters",
                                            "rtcpFeedback"}) : m \in MimeTypes}
        ELSE {})

OddMimes == {<<"audio", "opus">>, <<"audio", "x">>, <<"video", "x">>, <<"text", "x">>}

OddCodecs(t) ==
  UNION {Parts(Codec(t, m, p, fb), {PayloadType(t), "clockRate", "parameters", "rtcpFeedback"}) :
           m \in OddMimes, p \in OddParams, fb \in Feedbacks \cup {<<[parameter |-> "pli"]>>}}
  \cup {[clockRate |-> 9]}

OneCodec(t) == Codec(t, <<"audio", "opus">>, <<>>, <<>>)

-----------------------------------------------------------------------------
ParameterExtensions(names) ==
  UNION {Parts([id |-> 3, uri |-> u, encrypt |-> b], {"encrypt"}) : u \in names, b \in BOOLEAN}

CapabilityExtensions(names, kinds, directions) ==
  UNION {Parts([uri |-> u, preferredId |-> 3, kind |-> k, direction |-> d,
                preferredEncrypt |-> TRUE], {"direction", "preferredEncrypt"}) :
           u \in names, k \in kinds, d \in directions}

SomeExtensions(t) ==
  IF t = "RtpParameters" THEN ParameterExtensions(Uris)
  ELSE CapabilityExtensions({"mid"}, MediaKinds, Directions)
       \cup CapabilityExtensions(Uris, {"audio"}, {"sendrecv"})

OddExtensions(t) ==
  IF t = "RtpParameters"
  THEN ParameterExtensions({"x"}) \cup Parts([id |-> 3, uri |-> "mid"], {"id", "uri"})
  ELSE CapabilityExtensions({"x"}, {"audio", "x"}, {"x"})
       \cup Parts([uri |-> "mid", preferredId |-> 3, kind |-> "audio"],
                  {"uri", "preferredId", "kind"})

-----------------------------------------------------------------------------
Layers == [scalabilityMode |-> "S4T1", spatialLayers |-> 4, temporalLayers |-> 1, ksvc |-> FALSE]

SomeEncodings ==
  Parts([ssrc |-> 1, rid |-> "r", codecPayloadType |-> 7, dtx |-> TRUE, maxBitrate |-> 5,
         rtx |-> [ssrc |-> 2], scalabilityMode |-> <<"object", Layers>>],
        {"ssrc", "rid", "codecPayloadType", "dtx", "maxBitrate", "rtx", "scalabilityMode"})
  \cup {[scalabilityMode |-> <<"string", n>>] : n \in ScalabilityModes}

OddEncodings ==
  {[scalabilityMode |-> m] :
     m \in {<<"string", "x">>, <<"null">>,
            <<"object", [Layers EXCEPT !.spatialLayers = 0]>>,
            <<"object", [Layers EXCEPT !.temporalLayers = 0]>>}
          \cup {<<"object", l>> : l \in Parts(Layers, DOMAIN Layers)}}
  \cup {[rtx |-> <<>>]}

-----------------------------------------------------------------------------
Hex == 0..(kHexBase - 1)

(* As the library writes them: two digits for each byte, between colons. *)
Canonical == {<<a, b, Colon, c, d>> : a, b, c, d \in {0, kHexBase - 1}}
               \cup {<<a, b>> : a, b \in Hex}

SomeDtls ==
  UNION {Parts([role |-> r, fingerprints |-> <<[algorithm |-> al, value |-> <<1, 0>>],
                                              [algorithm |-> "sha-256", value |-> v]>>],
               {"role"}) :
           r \in Roles, al \in Algorithms, v \in Canonical}

OddDtls ==
  {[role |-> "x", fingerprints |-> <<[algorithm |-> al, value |-> v]>>] :
     al \in {"x", "sha-1"}, v \in BoundedSeq({0, kHexBase - 1, Colon}, 5)}
  \cup {[role |-> "auto"], [fingerprints |-> <<>>]}
  \cup {[fingerprints |-> <<f>>] :
         f \in Parts([algorithm |-> "sha-1", value |-> <<1, 0>>], {"algorithm", "value"})}

-----------------------------------------------------------------------------
Rtp(t, codecs, extensions) == [codecs |-> codecs, headerExtensions |-> extensions]

Descriptions(t, someCodecs, someExtensions) ==
  {Rtp(t, <<c, OneCodec(t)>>, <<>>) : c \in someCodecs}
  \cup {Rtp(t, <<OneCodec(t)>>, <<e>>) : e \in someExtensions}

Extras(t) ==
  IF t # "RtpParameters" THEN {}
  ELSE {Rtp(t, <<OneCodec(t)>>, <<>>) ?? [encodings |-> <<[rid |-> "r"], e>>] :
          e \in SomeEncodings}
       \cup UNION {Parts(Rtp(t, <<OneCodec(t)>>, <<>>) ?? [mid |-> "m", rtcp |-> r],
                         {"mid", "rtcp", "headerExtensions"}) :
                     r \in Parts([cname |-> "c", reducedSize |-> TRUE],
                                 {"cname", "reducedSize"})}

OddExtras(t) ==
  {<<>>, [codecs |-> <<OneCodec(t)>>], [headerExtensions |-> <<>>]}
  \cup (IF t # "RtpParameters" THEN {}
        ELSE {Rtp(t, <<OneCodec(t)>>, <<>>) ?? [encodings |-> <<e>>] : e \in OddEncodings})

RtpType == {"RtpParameters", "RtpCapabilities", "RtpCapabilitiesFinalized"}

Described(t, docs) == {[type |-> t, doc |-> d] : d \in docs}

SomeOffers ==
  Described("DtlsParameters", SomeDtls)
  \cup Described("DtlsParameters", OddDtls)
  \cup UNION {Described(t, Descriptions(t, SomeCodecs(t), SomeExtensions(t)) \cup Extras(t))
               \cup Described(t, Descriptions(t, OddCodecs(t), OddExtensions(t)) \cup OddExtras(t)) :
              t \in RtpType}
=============================================================================
