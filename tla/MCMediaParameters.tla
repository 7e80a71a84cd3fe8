-------------------------- MODULE MCMediaParameters --------------------------
(***************************************************************************)
(* MediaParameters for TLC.  The URIs are those of the router's            *)
(* capabilities in config.json, by their last word.                        *)
(***************************************************************************)
EXTENDS MediaParameters, TLC

Uris == [mid |-> {"mid"}, rid |-> {"rtp-stream-id"},
         rrid |-> {"repaired-rtp-stream-id", "rtp-stream-id"},
         level |-> {"ssrc-audio-level"}]
    @@ "dependency-descriptor" :> {} @@ "packet-id" :> {}

Ids == [mid |-> 1, rid |-> 2, rrid |-> 3, level |-> 6]
    @@ "dependency-descriptor" :> 7 @@ "packet-id" :> 12

Offer(kind, types, uris, fb, hasRtx) ==
    [kind |-> kind, pts |-> types, feedback |-> fb, rtx |-> hasRtx, params |-> TRUE,
     extensions |-> [i \in DOMAIN uris |-> [uri |-> uris[i], id |-> 20 + i]]]

\* a browser's audio and video, a video that has no second codec, an audio that
\* has none, a video whose second codec has no parameters, and an audio whose
\* payload type is below the distance it is mapped by; feedback lists with
\* goog-remb first, twice and last
SomeOffers == {
    Offer("audio", <<111>>, <<"level", "packet-id">>, <<"nack", "transport-cc">>, FALSE),
    Offer("video", <<96, 97>>, <<"rid", "rrid">>,
          <<"goog-remb", "goog-remb", "transport-cc", "ccm">>, FALSE),
    Offer("video", <<96, 97>>, <<"mid", "dependency-descriptor">>,
          <<"nack", "transport-cc", "goog-remb">>, TRUE),
    Offer("video", <<96>>, <<>>, <<>>, TRUE),
    Offer("audio", <<>>, <<>>, <<>>, FALSE),
    [Offer("video", <<96, 97>>, <<>>, <<>>, TRUE) EXCEPT !.params = FALSE],
    Offer("audio", <<8>>, <<>>, <<>>, FALSE)}

CONSTANTS v1, v2

\* one of the peers has not created its transports
TwoForOne == [v \in Peers |-> IF v = v1 THEN 2 ELSE 0]
=============================================================================
