----------------------------- MODULE VideoPlaylist -----------------------------
(***************************************************************************)
(* The videos an admin keeps for the kiosk, the Display TV or both         *)
(* (service.VideoService, repository.VideoRepository), and the playlists   *)
(* the screens poll, cached by the target they ask for.                    *)
(*                                                                         *)
(* A video that is moved leaves one playlist and enters another, so a      *)
(* change concerns lists cached under several keys.  A row is reduced to   *)
(* its target and its duration, which may be NULL; the random keys of      *)
(* videos are never given twice.  Every statement is one step.             *)
(***************************************************************************)
CONSTANTS
  Videos, Seconds,
  Editors,         \* HTTP requests
  NotYet, Erased,  \* a key not given yet, or deleted
  NoDuration,      \* duration_seconds NULL
  NoEdit, NoPlaylist

VARIABLES
  video,     \* the videos table
  playlist,  \* VideoService.listCache, by target
  point,     \* the statement each request is at
  edit,      \* what it was asked for, until it is over
  gotten,    \* the list it fetched and has not stored
  excused    \* history: the keys and requests whose list may be old: a change since its fetch
             \* was followed by no Invalidate, or an Invalidate has already come

playlistVars == <<video, playlist, point, edit, gotten, excused>>

Targets == {"kiosk", "display", "both"}

Keys == Targets \cup {""}

Video == [target : Targets, duration : Seconds \cup {NoDuration}]

\* videoBody: a column and its new value, null clearing the duration, or a body that changes none.
VideoPatch ==
  [column : {"target"}, to : Targets] \cup [column : {"duration"}, to : Seconds \cup {NoDuration}]
    \cup [column : {"none"}]

Edit ==
  [op : {"create"}, v : Videos, row : Video]
    \cup [op : {"update"}, v : Videos, patch : VideoPatch]
    \cup [op : {"delete"}, v : Videos]
    \cup [op : {"list"}, key : Keys]

ASSUME PlaylistAssumption ==
  /\ Erased # NotYet /\ Video \cap {NotYet, Erased} = {}
  /\ NoEdit \notin Edit /\ \A list \in SUBSET (Videos \X Video) : list # NoPlaylist
  /\ Keys \cap Editors = {}

Stored(v) == video[v] \notin {NotYet, Erased}

\* repository.List: a screen's playlist has its own videos and those for both; "" has them all.
Playlist(key) ==
  {<<v, video[v]>> : v \in {x \in Videos : Stored(x) /\ (key = "" \/ video[x].target \in {key, "both"})}}

Playlists == {NoPlaylist} \cup SUBSET (Videos \X Video)

PlaylistTypeOK ==
  /\ video \in [Videos -> Video \cup {NotYet, Erased}]
  /\ playlist \in [Keys -> Playlists]
  /\ point \in [Editors -> {"new", "find", "write", "get", "invalidate", "cache", "fetch", "store", "over"}]
  /\ edit \in [Editors -> Edit \cup {NoEdit}]
  /\ gotten \in [Editors -> Playlists]
  /\ excused \subseteq Keys \cup Editors

PlaylistInit ==
  /\ video \in [Videos -> Video \cup {NotYet}]
  /\ playlist = [key \in Keys |-> NoPlaylist]
  /\ point = [r \in Editors |-> "new"]
  /\ edit = [r \in Editors |-> NoEdit]
  /\ gotten = [r \in Editors |-> NoPlaylist]
  /\ excused = {}

At(r, where, op) == point[r] = where /\ edit[r].op = op

Proceed(r, where) ==
  /\ point' = [point EXCEPT ![r] = where]
  /\ edit' = IF where = "over" THEN [edit EXCEPT ![r] = NoEdit] ELSE edit

\* Whoever holds a list: the keys and the requests that have still to store theirs.
Holders == {key \in Keys : playlist[key] # NoPlaylist} \cup {r \in Editors : gotten[r] # NoPlaylist}

Take(r, q) ==
  /\ point[r] = "new"
  /\ edit' = [edit EXCEPT ![r] = q]
  /\ point' = [point EXCEPT ![r] = CASE q.op = "list" -> "cache" [] q.op = "update" -> "find" [] OTHER -> "write"]
  /\ UNCHANGED <<video, playlist, gotten, excused>>

-------------------------------------------------------------------------------
(* Changes.                                                                  *)

\* INSERT INTO videos.
CreateVideo(r) ==
  /\ At(r, "write", "create")
  /\ IF video[edit[r].v] = NotYet
       THEN video' = [video EXCEPT ![edit[r].v] = edit[r].row] /\ Proceed(r, "get")
       ELSE UNCHANGED video /\ Proceed(r, "over")
  /\ UNCHANGED <<playlist, gotten, excused>>

\* Get(id) of Update; with no column to change, Get(id) again is all there is.
FindVideo(r) ==
  /\ At(r, "find", "update")
  /\ Proceed(r, IF ~Stored(edit[r].v) THEN "over"
                ELSE IF edit[r].patch.column = "none" THEN "get" ELSE "write")
  /\ UNCHANGED <<video, playlist, gotten, excused>>

\* The row with the column that the body gives.
VideoWith(row, p) ==
  IF p.column = "target" THEN [row EXCEPT !.target = p.to] ELSE [row EXCEPT !.duration = p.to]

\* UPDATE videos SET the columns given WHERE id; no row is affected when the video has gone.
UpdateVideo(r) ==
  /\ At(r, "write", "update")
  /\ LET v == edit[r].v IN
       video' = IF Stored(v) THEN [video EXCEPT ![v] = VideoWith(@, edit[r].patch)] ELSE video
  /\ Proceed(r, "get")
  /\ UNCHANGED <<playlist, gotten, excused>>

\* DELETE FROM videos; its acknowledgement may be lost.
DeleteVideo(r) ==
  /\ At(r, "write", "delete")
  /\ IF Stored(edit[r].v)
       THEN /\ video' = [video EXCEPT ![edit[r].v] = Erased]
            /\ \/ Proceed(r, "invalidate") /\ UNCHANGED excused
               \/ Proceed(r, "over") /\ excused' = excused \cup Holders
       ELSE UNCHANGED <<video, excused>> /\ Proceed(r, "over")
  /\ UNCHANGED <<playlist, gotten>>

\* Get(id), the answer: another request may have deleted the video.
AnswerVideo(r) ==
  /\ point[r] = "get"
  /\ Proceed(r, IF Stored(edit[r].v) THEN "invalidate" ELSE "over")
  /\ UNCHANGED <<video, playlist, gotten, excused>>

\* Only the playlists that show the video as it is now.
InvalidateItsScreens(r) ==
  /\ point[r] = "invalidate"
  /\ LET v == edit[r].v
         its == {key \in Keys : ~Stored(v) \/ key = "" \/ video[v].target \in {key, "both"}} IN
       /\ playlist' = [key \in Keys |-> IF key \in its THEN NoPlaylist ELSE playlist[key]]
       /\ excused' = (excused \ its) \cup {q \in Editors : q \in Holders}
  /\ Proceed(r, "over")
  /\ UNCHANGED <<video, gotten>>

\* listCache.Invalidate(): every key.
InvalidatePlaylists(r) ==
  /\ point[r] = "invalidate"
  /\ playlist' = [key \in Keys |-> NoPlaylist]
  /\ excused' = Holders \cap Editors
  /\ Proceed(r, "over")
  /\ UNCHANGED <<video, gotten>>

-------------------------------------------------------------------------------
(* List, and failures.                                                       *)

LookUpPlaylist(r) ==
  /\ point[r] = "cache"
  /\ Proceed(r, IF playlist[edit[r].key] = NoPlaylist THEN "fetch" ELSE "over")
  /\ UNCHANGED <<video, playlist, gotten, excused>>

FetchPlaylist(r) ==
  /\ point[r] = "fetch"
  /\ gotten' = [gotten EXCEPT ![r] = Playlist(edit[r].key)]
  /\ Proceed(r, "store")
  /\ UNCHANGED <<video, playlist, excused>>

\* listCache.Set(target, v).
StorePlaylist(r) ==
  /\ point[r] = "store"
  /\ playlist' = [playlist EXCEPT ![edit[r].key] = gotten[r]]
  /\ gotten' = [gotten EXCEPT ![r] = NoPlaylist]
  /\ excused' = (excused \ {r, edit[r].key}) \cup IF r \in excused THEN {edit[r].key} ELSE {}
  /\ Proceed(r, "over")
  /\ UNCHANGED video

\* A statement fails, or its caller has left.
VideoStatementFails(r) ==
  /\ point[r] \in {"find", "write", "get", "fetch"}
  /\ excused' = IF point[r] = "get" THEN excused \cup Holders ELSE excused
  /\ Proceed(r, "over")
  /\ UNCHANGED <<video, playlist, gotten>>

PlaylistNext ==
  \E r \in Editors :
    \/ \E q \in Edit : Take(r, q)
    \/ CreateVideo(r) \/ FindVideo(r) \/ UpdateVideo(r) \/ DeleteVideo(r) \/ AnswerVideo(r)
    \/ InvalidatePlaylists(r)
    \/ LookUpPlaylist(r) \/ FetchPlaylist(r) \/ StorePlaylist(r) \/ VideoStatementFails(r)

PlaylistSpec == PlaylistInit /\ [][PlaylistNext]_playlistVars

-------------------------------------------------------------------------------
(* Properties.                                                               *)

(***************************************************************************)
(* A video that is moved, cut or deleted is gone from the playlists it was *)
(* on, and on those it belongs to, whichever of them are cached: one       *)
(* differs from the table only while a change is on its way to Invalidate, *)
(* after one failed on that way, or when it had been fetched before an     *)
(* Invalidate that its storing follows.                                    *)
(***************************************************************************)
PlaylistStaleIsExplained ==
  \A key \in Keys :
    playlist[key] \notin {NoPlaylist, Playlist(key)}
      => key \in excused \/ \E r \in Editors : point[r] \in {"get", "invalidate"}

===============================================================================
