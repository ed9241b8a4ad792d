--------------------------- MODULE VideoPlayback ---------------------------
(***************************************************************************)
(* Viewers of the api_gateway on top of the pipeline: Search, GetVideo,    *)
(* GetRecommendations, GetIndexM3U8 and GetHlsSegment.  Each is a request  *)
(* of its own, so uploads and consumers move between them; the two that    *)
(* read MinIO do not look at the status of the row.                        *)
(*                                                                         *)
(* Any of these reads may fail: PostgreSQL or MinIO returns an error, no   *)
(* instance is there, or the gateway's five seconds pass first.  What the  *)
(* client is answered then is a disjunct of the request.  A search or      *)
(* recommendation that fails leaves the viewer where it is.                *)
(***************************************************************************)
EXTENDS VideoPipeline

CONSTANT Viewers

VARIABLE viewer   \* viewer[v]: what the client of viewer v does

playVars == <<vars, viewer>>

\* offered: GetVideo has answered with the address of the playlist.
Listed   == {"found", "offered"}
Watching == Listed \cup {"playing"}
Verdicts == {"refused", "blank", "broken", "unreachable"}

\* cleared: the service has told this viewer that the video is ready.
\* failed: the playback ended because a read of its own failed.
Viewing(at, video, next, cleared, failed) ==
    [at |-> at, video |-> video, next |-> next, cleared |-> cleared,
     failed |-> failed]

Browsing == Viewing("browsing", None, 0, FALSE, FALSE)

ViewerStates == [at : {"browsing"} \cup Watching \cup Verdicts,
                 video : Requests \cup {None},
                 next : 0..(Segments + 1),
                 cleared : BOOLEAN,
                 failed : BOOLEAN]

PlayTypeOK == TypeOK /\ viewer \in [Viewers -> ViewerStates]

PlayInit == Init /\ viewer = [v \in Viewers |-> Browsing]

Become(v, state) == viewer' = [viewer EXCEPT ![v] = state]

\* The player gives up and forgets the video.
EndWith(v, verdict) ==
    Become(v, Viewing(verdict, None, 0, viewer[v].cleared, FALSE))

\* The same after a read that failed.
FailWith(v, verdict) ==
    Become(v, Viewing(verdict, None, 0, viewer[v].cleared, TRUE))

\* Some instance takes the call of the gateway.
Served == up # {}

\* SearchVideos returns ready rows only.
Search(v) ==
    /\ viewer[v].at = "browsing"
    /\ Served
    /\ \E r \in Requests :
          /\ Ready(r)
          /\ Become(v, Viewing("found", r, 0, TRUE, FALSE))

\* RecommendVideos returns rows of any status.
Recommend(v) ==
    /\ viewer[v].at = "browsing"
    /\ Served
    /\ \E r \in Requests :
          /\ row[r].status # "none"
          /\ Become(v, Viewing("found", r, 0, FALSE, FALSE))

\* GetVideo answers with the address of the playlist, or with an error,
\* status 500, unless the row is ready; so does every failure.
GetVideo(v) ==
    /\ viewer[v].at = "found"
    /\ \/ /\ Served /\ Ready(viewer[v].video)
          /\ Become(v, Viewing("offered", viewer[v].video, 0, TRUE, FALSE))
       \/ /\ Served /\ ~Ready(viewer[v].video)
          /\ EndWith(v, "refused")
       \/ FailWith(v, "refused")

\* The player opens the address GetVideo has answered with:
\* http://127.0.0.1:8083/video/hls/<id>/index.m3u8.  That is the port of the
\* gRPC server, and no server of the system has a route of this name.
FollowHlsURL(v) ==
    /\ viewer[v].at = "offered"
    /\ EndWith(v, "unreachable")

\* GetIndexM3U8 by the gateway's own route.  Whenever the use case has an
\* error - no such playlist, or MinIO fails - the gRPC handler answers
\* Success = false with a nil error, and the gateway, which looks at the
\* error only, sends the empty Content with status 200.  A call without an
\* answer in five seconds is an error, status 500.
GetIndexM3U8(v) ==
    /\ viewer[v].at \in Listed
    /\ \/ /\ Served /\ 0 \in processed[viewer[v].video]
          /\ Become(v, Viewing("playing", viewer[v].video, 1,
                               viewer[v].cleared, FALSE))
       \/ /\ Served /\ 0 \notin processed[viewer[v].video]
          /\ EndWith(v, "blank")
       \/ Served /\ FailWith(v, "blank")
       \/ FailWith(v, "broken")

PlayOn(v) ==
    Become(v, Viewing("playing", viewer[v].video, viewer[v].next + 1,
                      viewer[v].cleared, FALSE))

\* Mutant: the client is sent on past a missing segment.
GetHlsSegmentAnyway(v) ==
    /\ viewer[v].at = "playing"
    /\ PlayOn(v)

\* GetHlsSegment: a missing segment is an error, status 500, and so is every
\* failure of MinIO and of the call.
GetHlsSegment(v) ==
    /\ viewer[v].at = "playing"
    /\ viewer[v].next <= Segments
    /\ \/ /\ Served /\ viewer[v].next \in processed[viewer[v].video]
          /\ PlayOn(v)
       \/ /\ Served /\ viewer[v].next \notin processed[viewer[v].video]
          /\ EndWith(v, "broken")
       \/ FailWith(v, "broken")

\* The viewer goes back to the list, at the end of the video or before.
Leave(v) ==
    /\ viewer[v].at # "browsing"
    /\ Become(v, Browsing)

Watch(v) ==
    \/ Search(v)       \/ Recommend(v)
    \/ GetVideo(v)     \/ FollowHlsURL(v)
    \/ GetIndexM3U8(v) \/ GetHlsSegment(v)
    \/ Leave(v)

PlayNext ==
    \/ Next /\ UNCHANGED viewer
    \/ \E v \in Viewers : Watch(v) /\ UNCHANGED vars

PlaySpec == PlayInit /\ [][PlayNext]_playVars

-----------------------------------------------------------------------------
(* Properties *)

(* Whoever was told that a video is ready, by Search or by GetVideo, plays *)
(* it to the end through the routes of the gateway, unless a read of this  *)
(* playback itself fails: no refusal, no empty playlist and no missing     *)
(* segment comes of what uploads and consumers do, or how they fail.       *)
ClearedPlaybackNeverBreaks ==
    \A v \in Viewers :
        viewer[v].cleared /\ ~viewer[v].failed =>
            viewer[v].at \notin {"refused", "blank", "broken"}
=============================================================================
