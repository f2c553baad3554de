---------------------------- MODULE ScreensProofs -----------------------------
(***************************************************************************)
(* Proofs about TicketBoard, VideoPlaylist and TicketReports, for every    *)
(* number of tickets, calls and instants, every set of videos, durations   *)
(* and requests, and every page size, filter and length of a report's      *)
(* lists.                                                                  *)
(***************************************************************************)
EXTENDS MCScreens, OrderLemmas, TLAPS

-------------------------------------------------------------------------------
(* TicketBoard.                                                              *)

\* Every time that is written lies in the past; NULL is 0.
TimesArePast ==
  /\ \A r \in Requests : began[r] < clock
  /\ \A t \in Tickets : /\ createdAt[t] < clock /\ calledAt[t] < clock /\ completedAt[t] < clock
                        /\ completing[t] < clock /\ finishedAt[t] < clock

\* completed_at is written once, by the step that ends a ticket for good.
CompletedForGood == \A t \in Tickets : completedAt[t] # Null => status[t] = "completed"

\* An UPDATE that completes a ticket starts after the ticket was called.
CompletingIsCalled ==
  \A t \in Tickets :
    completing[t] # Null => status[t] \notin {"absent", "waiting"} /\ calledAt[t] < completing[t]

\* The times of a finished ticket are older than the step that finished it.
FinishedLast ==
  \A t \in Tickets :
    status[t] \in {"completed", "skipped"} =>
      /\ createdAt[t] < finishedAt[t] /\ calledAt[t] < finishedAt[t]
      /\ completedAt[t] < finishedAt[t]

BoardInv ==
  /\ TypeOK /\ TimesArePast /\ CompletedForGood /\ CompletingIsCalled /\ FinishedLast
  /\ ServiceTimeIsPositive

LEMMA BoardInitially == Init => BoardInv
  BY BoardAssumption
  DEF Init, BoardInv, TypeOK, TimesArePast, CompletedForGood, CompletingIsCalled, FinishedLast,
      ServiceTimeIsPositive, Null, Instants, Store!Init, Store!Statuses

(***************************************************************************)
(* A step of the clock keeps the past in the past; CallNext stamps the     *)
(* start of its transaction, before now, on a ticket with no completed_at  *)
(* that nothing completes yet; Complete stamps an instant after the call.  *)
(***************************************************************************)
LEMMA BoardStep == ASSUME BoardInv, [Next]_vars PROVE BoardInv'
<1> USE BoardAssumption DEF BoardInv, TypeOK, TimesArePast, CompletedForGood, CompletingIsCalled,
      FinishedLast, ServiceTimeIsPositive, Null, Instants, Store!Statuses
<1>1. ASSUME NEW r \in Requests, BeginCall(r) PROVE BoardInv'
  BY <1>1 DEF BeginCall, Tick, table, times
<1>2. ASSUME NEW r \in Requests, NEW t \in Tickets, CallNext(r, t) PROVE BoardInv'
  BY <1>2 DEF CallNext, Tick, Store!Call, Store!Move
<1>3. ASSUME NEW t \in Tickets, Create(t) PROVE BoardInv'
  <2>1. PICK start \in 1 .. clock : createdAt' = [createdAt EXCEPT ![t] = start]
    BY <1>3 DEF Create
  <2>2. QED
    BY <1>3, <2>1 DEF Create, Tick, Store!Arrive, Store!Move
<1>4. ASSUME NEW t \in Tickets, BeginComplete(t) PROVE BoardInv'
  BY <1>4 DEF BeginComplete, Tick, table, times
<1>5. ASSUME NEW t \in Tickets, Complete(t) PROVE BoardInv'
  BY <1>5 DEF Complete, Tick, Store!Complete, Store!Move
<1>6. ASSUME NEW t \in Tickets, Skip(t) \/ Recall(t) PROVE BoardInv'
  BY <1>6 DEF Skip, Recall, Tick, Store!Skip, Store!Recall, Store!Move, times
<1>7. CASE UNCHANGED vars
  BY <1>7 DEF vars, table, times
<1>8. QED
  BY <1>1, <1>2, <1>3, <1>4, <1>5, <1>6, <1>7 DEF Next

LEMMA BoardInvariant == Spec => []BoardInv
  BY BoardInitially, BoardStep, PTL DEF Spec

\* The times of a ticket are well typed, and a ticket that exists has its created_at.
THEOREM BoardTypes == Spec => []TypeOK
  BY BoardInvariant, PTL DEF BoardInv

\* The service time of a completed ticket is positive.
THEOREM ServiceTimes == Spec => []ServiceTimeIsPositive
  BY BoardInvariant, PTL DEF BoardInv

(***************************************************************************)
(* The ticket that is completed carries the start of its UPDATE, and every *)
(* ticket finished before that carries an earlier time.                    *)
(***************************************************************************)
LEMMA CompletedStep ==
  ASSUME BoardInv, [Next]_vars, NEW t \in Tickets, status[t] # "completed", status'[t] = "completed",
         \A u \in Finished' \ {t} : ~(finishedAt'[u] > completing[t])
  PROVE  Last' = {t}
<1> USE BoardAssumption DEF BoardInv, TypeOK, Null, Instants
<1>1. Complete(t)
  BY DEF Next, vars, table, times, BeginCall, CallNext, Create, BeginComplete, Complete, Skip, Recall,
     Store!Call, Store!Arrive, Store!Complete, Store!Skip, Store!Recall, Store!Move
<1>2. Stamp(t)' = completing[t] /\ t \in Finished' /\ completing[t] \in Int
  BY <1>1 DEF Complete, Stamp, Finished, Store!Complete, Store!Move
<1>3. ASSUME NEW u \in Finished' \ {t} PROVE Stamp(u)' \in Int /\ Stamp(u)' < completing[t]
  <2>1. u \in Tickets /\ status[u] \in {"completed", "skipped"}
    BY <1>1, <1>3 DEF Finished, Complete, Store!Complete, Store!Move
  <2>2. finishedAt'[u] = finishedAt[u] /\ finishedAt[u] <= completing[t]
    BY <1>1, <1>2, <1>3, <2>1 DEF Complete
  <2>3. /\ createdAt'[u] = createdAt[u] /\ calledAt'[u] = calledAt[u]
        /\ completedAt'[u] = completedAt[u]
    BY <1>1, <1>3, <2>1 DEF Complete
  <2>4. Stamp(u)' \in Int /\ Stamp(u)' < finishedAt[u]
    BY <2>1, <2>3 DEF Stamp, FinishedLast
  <2>5. QED
    BY <1>2, <2>1, <2>2, <2>4
<1>4. QED
  BY <1>2, <1>3 DEF Last

(***************************************************************************)
(* Completing a ticket puts it on the board at once, unless another was    *)
(* finished while the UPDATE that completes it waited.                     *)
(***************************************************************************)
THEOREM CompletedOnTheBoard == Spec => CompletedIsShown
<1>1. BoardInv /\ [Next]_vars => [\A t \in Tickets :
         status[t] # "completed" /\ status'[t] = "completed" =>
           \/ Last' = {t}
           \/ \E u \in Finished' \ {t} : finishedAt'[u] > completing[t]]_vars
  BY CompletedStep
<1>2. QED
  BY <1>1, BoardInvariant, PTL DEF Spec, CompletedIsShown

-------------------------------------------------------------------------------
(* VideoPlaylist.                                                            *)

\* What a request that has come was asked for, and what it holds on its way.
WellFormed ==
  \A r \in Editors :
    /\ point[r] \in {"new", "over"} => edit[r] = NoEdit
    /\ point[r] \in {"find", "write", "get", "invalidate"} =>
         edit[r] \in Edit /\ edit[r].op \in {"create", "update", "delete"}
    /\ point[r] = "find" => edit[r].op = "update"
    /\ point[r] = "write" /\ edit[r].op = "update" => edit[r].patch.column # "none"
    /\ point[r] \in {"cache", "fetch", "store"} => edit[r] \in Edit /\ edit[r].op = "list"
    /\ gotten[r] # NoPlaylist => point[r] = "store"

\* Whether a playlist has this row of this video.
Plays(key, v, row) == Stored(v) /\ video[v] = row /\ (key = "" \/ row.target \in {key, "both"})

\* A change of this video has still to reach Invalidate, and will unless the video is deleted.
Changing(v) ==
  \E q \in Editors :
    /\ point[q] \in {"get", "invalidate"} /\ edit[q].v = v
    /\ point[q] = "get" => Stored(v)

\* A list that is not excused differs from the table only in videos being changed.
Explained(list, key, holder) ==
  list # NoPlaylist /\ holder \notin excused =>
    \A v \in Videos, row \in Video : (<<v, row>> \in list <=> Plays(key, v, row)) \/ Changing(v)

ListsExplained ==
  /\ \A key \in Keys : Explained(playlist[key], key, key)
  /\ \A r \in Editors : Explained(gotten[r], edit[r].key, r)

PlaylistInv == PlaylistTypeOK /\ WellFormed /\ ListsExplained

\* What the requests ask for.
LEMMA EditFields ==
  ASSUME NEW e \in Edit
  PROVE  /\ e.op \in {"create", "update", "delete", "list"}
         /\ e.op # "list" => e.v \in Videos
         /\ e.op = "create" => e.row \in Video
         /\ e.op = "update" => /\ e.patch.column \in {"target", "duration", "none"}
                               /\ e.patch.column = "target" => e.patch.to \in Targets
                               /\ e.patch.column = "duration" => e.patch.to \in Seconds \cup {NoDuration}
         /\ e.op = "list" => e.key \in Keys
  BY DEF Edit, VideoPatch

\* The rows of the playlist under a key.
LEMMA PlaylistRows ==
  ASSUME PlaylistTypeOK, NEW key \in Keys
  PROVE  /\ Playlist(key) \in SUBSET (Videos \X Video)
         /\ \A v \in Videos, row \in Video : <<v, row>> \in Playlist(key) <=> Plays(key, v, row)
<1>1. \A v \in Videos : Stored(v) => video[v] \in Video
  BY DEF PlaylistTypeOK, Stored
<1>2. ASSUME NEW e \in Playlist(key) PROVE e \in Videos \X Video
  <2>1. PICK x \in Videos : Stored(x) /\ e = <<x, video[x]>>
    BY DEF Playlist
  <2>2. QED
    BY <1>1, <2>1
<1>3. ASSUME NEW v \in Videos, NEW row \in Video
      PROVE  <<v, row>> \in Playlist(key) <=> Plays(key, v, row)
  <2>1. ASSUME <<v, row>> \in Playlist(key) PROVE Plays(key, v, row)
    <3>1. PICK x \in Videos : /\ Stored(x) /\ (key = "" \/ video[x].target \in {key, "both"})
                              /\ <<v, row>> = <<x, video[x]>>
      BY <2>1 DEF Playlist
    <3>2. QED
      BY <3>1 DEF Plays
  <2>2. ASSUME Plays(key, v, row) PROVE <<v, row>> \in Playlist(key)
    BY <2>2 DEF Playlist, Plays
  <2>3. QED
    BY <2>1, <2>2
<1>4. QED
  BY <1>2, <1>3

LEMMA PlaylistInitially == PlaylistInit => PlaylistInv
<1>1. ASSUME PlaylistInit PROVE PlaylistTypeOK
  <2>1. video \in [Videos -> Video \cup {NotYet, Erased}]
    BY <1>1 DEF PlaylistInit
  <2>2. NoPlaylist \in Playlists
    BY DEF Playlists
  <2>3. QED
    BY <1>1, <2>1, <2>2 DEF PlaylistInit, PlaylistTypeOK
<1>2. PlaylistInit => ListsExplained
  BY DEF PlaylistInit, ListsExplained, Explained
<1>3. PlaylistInit => WellFormed
  BY DEF PlaylistInit, WellFormed
<1>4. QED
  BY <1>1, <1>2, <1>3 DEF PlaylistInv

-------------------------------------------------------------------------------
(* Types.                                                                    *)

LEMMA UpdatedVideo ==
  ASSUME PlaylistTypeOK, WellFormed, NEW r \in Editors, UpdateVideo(r)
  PROVE  /\ edit[r].v \in Videos
         /\ video' \in [Videos -> Video \cup {NotYet, Erased}]
         /\ \A v \in Videos \ {edit[r].v} : video'[v] = video[v]
         /\ \A v \in Videos : Stored(v)' <=> Stored(v)
         /\ Stored(edit[r].v) \/ video' = video
<1> DEFINE v == edit[r].v
           p == edit[r].patch
<1>1. /\ v \in Videos
      /\ p.column = "target" => p.to \in Targets
      /\ p.column # "target" => p.to \in Seconds \cup {NoDuration}
  BY EditFields DEF UpdateVideo, At, WellFormed
<1>2. CASE ~Stored(v)
  BY <1>1, <1>2 DEF UpdateVideo, Stored, PlaylistTypeOK
<1>3. CASE Stored(v)
  <2>1. video[v] \in Video
    BY <1>1, <1>3 DEF Stored, PlaylistTypeOK
  <2>2. VideoWith(video[v], p) \in Video
    BY <1>1, <2>1 DEF VideoWith, Video
  <2>3. video' = [video EXCEPT ![v] = VideoWith(video[v], p)]
    BY <1>3 DEF UpdateVideo
  <2> HIDE DEF v, p
  <2>4. video' \in [Videos -> Video \cup {NotYet, Erased}]
    BY <1>1, <2>2, <2>3 DEF PlaylistTypeOK
  <2>5. video'[v] \notin {NotYet, Erased} /\ \A w \in Videos \ {v} : video'[w] = video[w]
    BY <1>1, <2>2, <2>3, PlaylistAssumption DEF PlaylistTypeOK
  <2>6. \A w \in Videos : Stored(w)' <=> Stored(w)
    BY <1>1, <1>3, <2>5 DEF Stored
  <2>7. QED
    BY <1>1, <1>3, <2>4, <2>5, <2>6 DEF v
<1>4. QED
  BY <1>2, <1>3

\* Every step keeps the types and what is well formed.
LEMMA PlaylistTypeStep ==
  ASSUME PlaylistTypeOK, WellFormed, [PlaylistNext]_playlistVars
  PROVE  PlaylistTypeOK' /\ WellFormed'
<1> USE PlaylistAssumption DEF PlaylistTypeOK, WellFormed, Proceed, At
<1>1. ASSUME NEW r \in Editors, NEW q \in Edit, Take(r, q) PROVE PlaylistTypeOK' /\ WellFormed'
  BY <1>1, EditFields DEF Take
<1>2. ASSUME NEW r \in Editors, CreateVideo(r) PROVE PlaylistTypeOK' /\ WellFormed'
  BY <1>2, EditFields DEF CreateVideo
<1>3. ASSUME NEW r \in Editors, FindVideo(r) PROVE PlaylistTypeOK' /\ WellFormed'
  BY <1>3, EditFields DEF FindVideo
<1>4. ASSUME NEW r \in Editors, UpdateVideo(r) PROVE PlaylistTypeOK' /\ WellFormed'
  BY <1>4, UpdatedVideo DEF UpdateVideo
<1>5. ASSUME NEW r \in Editors, DeleteVideo(r) PROVE PlaylistTypeOK' /\ WellFormed'
  BY <1>5, EditFields DEF DeleteVideo, Holders
<1>6. ASSUME NEW r \in Editors, AnswerVideo(r) PROVE PlaylistTypeOK' /\ WellFormed'
  BY <1>6 DEF AnswerVideo
<1>7. ASSUME NEW r \in Editors, InvalidatePlaylists(r) PROVE PlaylistTypeOK' /\ WellFormed'
  BY <1>7 DEF InvalidatePlaylists, Playlists
<1>8. ASSUME NEW r \in Editors, LookUpPlaylist(r) PROVE PlaylistTypeOK' /\ WellFormed'
  BY <1>8 DEF LookUpPlaylist
<1>9. ASSUME NEW r \in Editors, FetchPlaylist(r) PROVE PlaylistTypeOK' /\ WellFormed'
  BY <1>9, EditFields, PlaylistRows DEF FetchPlaylist, Playlists
<1>10. ASSUME NEW r \in Editors, StorePlaylist(r) PROVE PlaylistTypeOK' /\ WellFormed'
  <2>1. edit[r].key \in Keys /\ NoPlaylist \in Playlists /\ gotten[r] \in Playlists
    BY <1>10, EditFields DEF StorePlaylist, Playlists
  <2>2. excused' \subseteq Keys \cup Editors
    BY <1>10, <2>1 DEF StorePlaylist
  <2>3. QED
    BY <1>10, <2>1, <2>2 DEF StorePlaylist
<1>11. ASSUME NEW r \in Editors, VideoStatementFails(r) PROVE PlaylistTypeOK' /\ WellFormed'
  BY <1>11 DEF VideoStatementFails, Holders
<1>12. CASE UNCHANGED playlistVars
  BY <1>12 DEF playlistVars
<1>13. QED
  BY <1>1, <1>2, <1>3, <1>4, <1>5, <1>6, <1>7, <1>8, <1>9, <1>10, <1>11, <1>12 DEF PlaylistNext

-------------------------------------------------------------------------------
(* The lists.                                                                *)

(***************************************************************************)
(* A step that neither writes a video nor ends a change before Invalidate, *)
(* and fetches, stores and excuses nothing, leaves every list explained.   *)
(***************************************************************************)
LEMMA QuietStep ==
  ASSUME PlaylistInv, UNCHANGED <<video, playlist, gotten, excused>>,
         \A r \in Editors : gotten[r] # NoPlaylist => edit'[r] = edit[r],
         \A v \in Videos : Changing(v) => Changing(v)'
  PROVE  ListsExplained'
<1> USE DEF PlaylistInv, ListsExplained, Explained, Plays, Stored
<1>1. ASSUME NEW key \in Keys PROVE Explained(playlist[key], key, key)'
  OBVIOUS
<1>2. ASSUME NEW r \in Editors PROVE Explained(gotten[r], edit[r].key, r)'
  OBVIOUS
<1>3. QED
  BY <1>1, <1>2

\* When everybody who holds a list is excused, there is nothing to explain.
LEMMA ExcusedStep ==
  ASSUME PlaylistInv, UNCHANGED <<playlist, gotten>>, Holders \subseteq excused'
  PROVE  ListsExplained'
  BY DEF ListsExplained, Explained, Holders

\* A change that is under way stays so when another request takes a step.
LEMMA ChangeGoesOn ==
  ASSUME PlaylistInv, NEW r \in Editors, NEW where,
         edit[r].op = "list" \/ point[r] \in {"new", "find", "write"},
         Proceed(r, where), NEW v \in Videos, Changing(v), Stored(v)' <=> Stored(v)
  PROVE  Changing(v)'
<1>1. PICK q \in Editors : /\ point[q] \in {"get", "invalidate"} /\ edit[q].v = v
                           /\ point[q] = "get" => Stored(v)
  BY DEF Changing
<1>2. q # r
  BY <1>1 DEF PlaylistInv, WellFormed
<1>3. point'[q] = point[q] /\ edit'[q] = edit[q]
  BY <1>2 DEF Proceed, PlaylistInv, PlaylistTypeOK
<1>4. QED
  BY <1>1, <1>3 DEF Changing

\* One video is written by a request that then has to invalidate: it is the video being changed.
LEMMA WriteStep ==
  ASSUME PlaylistInv, NEW v \in Videos, UNCHANGED <<playlist, gotten, edit, excused>>,
         \A w \in Videos \ {v} : video'[w] = video[w] /\ (Changing(w) => Changing(w)'),
         Changing(v)'
  PROVE  ListsExplained'
<1> USE DEF PlaylistInv, ListsExplained, Explained, Plays, Stored
<1>1. ASSUME NEW key \in Keys PROVE Explained(playlist[key], key, key)'
  OBVIOUS
<1>2. ASSUME NEW q \in Editors PROVE Explained(gotten[q], edit[q].key, q)'
  OBVIOUS
<1>3. QED
  BY <1>1, <1>2

LEMMA ListStep == ASSUME PlaylistInv, [PlaylistNext]_playlistVars PROVE ListsExplained'
<1> USE DEF PlaylistInv
<1>1. ASSUME NEW r \in Editors, NEW q \in Edit, Take(r, q) PROVE ListsExplained'
  <2>1. \A v \in Videos : Changing(v) => Changing(v)'
    BY <1>1 DEF Take, Changing, PlaylistTypeOK, Stored
  <2>2. \A o \in Editors : gotten[o] # NoPlaylist => edit'[o] = edit[o]
    BY <1>1 DEF Take, WellFormed, PlaylistTypeOK
  <2>3. QED
    BY <1>1, <2>1, <2>2, QuietStep DEF Take
<1>2. ASSUME NEW r \in Editors, FindVideo(r) \/ LookUpPlaylist(r) PROVE ListsExplained'
  <2>1. PICK where : Proceed(r, where)
    BY <1>2 DEF FindVideo, LookUpPlaylist
  <2>2. /\ edit[r].op = "list" \/ point[r] \in {"new", "find", "write"}
        /\ \A v \in Videos : Stored(v)' <=> Stored(v)
        /\ gotten[r] = NoPlaylist
    BY <1>2 DEF FindVideo, LookUpPlaylist, WellFormed, At, Stored
  <2>3. \A v \in Videos : Changing(v) => Changing(v)'
    BY <2>1, <2>2, ChangeGoesOn
  <2>4. \A o \in Editors : gotten[o] # NoPlaylist => edit'[o] = edit[o]
    BY <2>1, <2>2 DEF Proceed, PlaylistTypeOK
  <2>5. QED
    BY <1>2, <2>3, <2>4, QuietStep DEF FindVideo, LookUpPlaylist
<1>3. ASSUME NEW r \in Editors, CreateVideo(r) PROVE ListsExplained'
  <2> DEFINE v == edit[r].v
  <2>1. v \in Videos /\ point[r] = "write" /\ edit[r].op = "create" /\ edit[r].row \in Video
        /\ gotten[r] = NoPlaylist
    BY <1>3, EditFields DEF CreateVideo, At, WellFormed
  <2>2. CASE video[v] = NotYet
    <3>1. /\ video' = [video EXCEPT ![v] = edit[r].row]
          /\ point' = [point EXCEPT ![r] = "get"] /\ edit' = edit
      BY <1>3, <2>2 DEF CreateVideo, Proceed
    <3>2. video'[v] \notin {NotYet, Erased} /\ \A w \in Videos \ {v} : video'[w] = video[w]
      BY <2>1, <3>1, PlaylistAssumption DEF PlaylistTypeOK
    <3>3. \A w \in Videos \ {v} : Changing(w) => Changing(w)'
      BY <2>1, <3>1, <3>2 DEF Changing, Stored, PlaylistTypeOK
    <3>4. \A w \in {v} : Changing(w)'
      BY <2>1, <3>1, <3>2 DEF Changing, Stored, PlaylistTypeOK
    <3>5. QED
      BY <1>3, <2>1, <3>1, <3>2, <3>3, <3>4, WriteStep DEF CreateVideo
  <2>3. CASE video[v] # NotYet
    <3>1. Proceed(r, "over") /\ UNCHANGED <<video, playlist, gotten, excused>>
      BY <1>3, <2>3 DEF CreateVideo
    <3>2. \A w \in Videos : Changing(w) => Changing(w)'
      BY <2>1, <3>1, ChangeGoesOn DEF Stored
    <3>3. \A o \in Editors : gotten[o] # NoPlaylist => edit'[o] = edit[o]
      BY <2>1, <3>1 DEF Proceed, PlaylistTypeOK
    <3>4. QED
      BY <3>1, <3>2, <3>3, QuietStep
  <2>4. QED
    BY <2>2, <2>3
<1>4. ASSUME NEW r \in Editors, UpdateVideo(r) PROVE ListsExplained'
  <2> DEFINE v == edit[r].v
  <2>1. /\ v \in Videos /\ point[r] = "write" /\ edit[r].op = "update"
        /\ point' = [point EXCEPT ![r] = "get"] /\ edit' = edit
    BY <1>4, UpdatedVideo DEF UpdateVideo, At, Proceed
  <2>2. /\ \A w \in Videos \ {v} : video'[w] = video[w]
        /\ \A w \in Videos : Stored(w)' <=> Stored(w)
        /\ Stored(v) \/ video' = video
    BY <1>4, UpdatedVideo
  <2>3. \A w \in Videos : Changing(w) => Changing(w)'
    BY <2>1, <2>2 DEF Changing, PlaylistTypeOK
  <2>4. CASE Stored(v)
    <3>1. \A w \in {v} : Changing(w)'
      BY <2>1, <2>2, <2>4 DEF Changing, PlaylistTypeOK
    <3>2. QED
      BY <1>4, <2>1, <2>2, <2>3, <3>1, WriteStep DEF UpdateVideo
  <2>5. CASE video' = video
    BY <1>4, <2>1, <2>3, <2>5, QuietStep DEF UpdateVideo
  <2>6. QED
    BY <2>2, <2>4, <2>5
<1>5. ASSUME NEW r \in Editors, DeleteVideo(r) PROVE ListsExplained'
  <2> DEFINE v == edit[r].v
  <2>1. v \in Videos /\ point[r] = "write" /\ edit[r].op = "delete" /\ gotten[r] = NoPlaylist
    BY <1>5, EditFields DEF DeleteVideo, At, WellFormed
  <2>2. CASE Stored(v) /\ Proceed(r, "invalidate") /\ UNCHANGED excused
    <3>1. /\ video' = [video EXCEPT ![v] = Erased]
          /\ point' = [point EXCEPT ![r] = "invalidate"] /\ edit' = edit
      BY <1>5, <2>2 DEF DeleteVideo, Proceed
    <3>2. \A w \in Videos \ {v} : video'[w] = video[w] /\ (Changing(w) => Changing(w)')
      BY <2>1, <3>1 DEF Changing, Stored, PlaylistTypeOK
    <3>3. \A w \in {v} : Changing(w)'
      BY <2>1, <3>1 DEF Changing, PlaylistTypeOK
    <3>4. QED
      BY <1>5, <2>1, <2>2, <3>1, <3>2, <3>3, WriteStep DEF DeleteVideo
  <2>3. CASE excused' = excused \cup Holders
    BY <1>5, <2>3, ExcusedStep DEF DeleteVideo
  <2>4. CASE ~Stored(v)
    <3>1. Proceed(r, "over") /\ UNCHANGED <<video, playlist, gotten, excused>>
      BY <1>5, <2>4 DEF DeleteVideo
    <3>2. \A w \in Videos : Changing(w) => Changing(w)'
      BY <2>1, <3>1, ChangeGoesOn DEF Stored
    <3>3. \A o \in Editors : gotten[o] # NoPlaylist => edit'[o] = edit[o]
      BY <2>1, <3>1 DEF Proceed, PlaylistTypeOK
    <3>4. QED
      BY <3>1, <3>2, <3>3, QuietStep
  <2>5. QED
    BY <1>5, <2>2, <2>3, <2>4 DEF DeleteVideo
<1>6. ASSUME NEW r \in Editors, AnswerVideo(r) PROVE ListsExplained'
  <2>1. /\ \A w \in Videos : Stored(w)' <=> Stored(w)
        /\ point[r] = "get" /\ gotten[r] = NoPlaylist
    BY <1>6 DEF AnswerVideo, Stored, WellFormed
  <2>2. \A w \in Videos : Changing(w) => Changing(w)'
    BY <1>6, <2>1 DEF AnswerVideo, Proceed, Changing, PlaylistTypeOK
  <2>3. \A o \in Editors : gotten[o] # NoPlaylist => edit'[o] = edit[o]
    BY <1>6, <2>1 DEF AnswerVideo, Proceed, PlaylistTypeOK
  <2>4. QED
    BY <1>6, <2>2, <2>3, QuietStep DEF AnswerVideo
<1>7. ASSUME NEW r \in Editors, InvalidatePlaylists(r) PROVE ListsExplained'
  BY <1>7 DEF InvalidatePlaylists, ListsExplained, Explained, Holders
<1>8. ASSUME NEW r \in Editors, FetchPlaylist(r) PROVE ListsExplained'
  <2>1. /\ edit[r].op = "list" /\ edit[r].key \in Keys
        /\ \A w \in Videos : Stored(w)' <=> Stored(w)
    BY <1>8, EditFields DEF FetchPlaylist, WellFormed, Stored
  <2>2. /\ gotten' = [gotten EXCEPT ![r] = Playlist(edit[r].key)] /\ edit' = edit
        /\ UNCHANGED <<video, playlist, excused>>
    BY <1>8 DEF FetchPlaylist, Proceed
  <2>3. \A w \in Videos : Changing(w) => Changing(w)'
    BY <1>8, <2>1, ChangeGoesOn DEF FetchPlaylist
  <2>4. ASSUME NEW key \in Keys PROVE Explained(playlist[key], key, key)'
    BY <2>2, <2>3 DEF ListsExplained, Explained, Plays, Stored
  <2>5. ASSUME NEW q \in Editors \ {r} PROVE Explained(gotten[q], edit[q].key, q)'
    <3>1. gotten'[q] = gotten[q] /\ edit'[q] = edit[q]
      BY <2>2 DEF PlaylistTypeOK
    <3>2. Explained(gotten[q], edit[q].key, q)
      BY DEF ListsExplained
    <3>3. QED
      BY <2>2, <2>3, <3>1, <3>2 DEF Explained, Plays, Stored
  <2>6. Explained(gotten[r], edit[r].key, r)'
    <3>1. gotten'[r] = Playlist(edit[r].key)
      BY <2>2 DEF PlaylistTypeOK
    <3>2. \A w \in Videos, row \in Video : <<w, row>> \in gotten'[r] <=> Plays(edit[r].key, w, row)
      BY <2>1, <3>1, PlaylistRows
    <3>3. QED
      BY <2>2, <3>2 DEF Explained, Plays, Stored
  <2>7. QED
    BY <2>4, <2>5, <2>6 DEF ListsExplained
<1>9. ASSUME NEW r \in Editors, StorePlaylist(r) PROVE ListsExplained'
  <2> DEFINE k == edit[r].key
  <2>1. /\ edit[r].op = "list" /\ k \in Keys
        /\ \A w \in Videos : Stored(w)' <=> Stored(w)
    BY <1>9, EditFields DEF StorePlaylist, WellFormed, Stored
  <2>2. /\ playlist' = [playlist EXCEPT ![k] = gotten[r]]
        /\ gotten' = [gotten EXCEPT ![r] = NoPlaylist]
        /\ edit' = [edit EXCEPT ![r] = NoEdit]
        /\ video' = video
    BY <1>9 DEF StorePlaylist, Proceed
  <2>3. \A h \in (Keys \cup Editors) \ {k, r} : h \in excused' <=> h \in excused
    BY <1>9 DEF StorePlaylist
  <2>4. r \in excused => k \in excused'
    BY <1>9 DEF StorePlaylist
  <2>5. \A w \in Videos : Changing(w) => Changing(w)'
    BY <1>9, <2>1, ChangeGoesOn DEF StorePlaylist
  <2>6. k \notin Editors /\ r \notin Keys
    BY <2>1, PlaylistAssumption
  <2> HIDE DEF k
  <2>7. ASSUME NEW key \in Keys \ {k} PROVE Explained(playlist[key], key, key)'
    BY <2>2, <2>3, <2>5, <2>6 DEF ListsExplained, Explained, Plays, Stored, PlaylistTypeOK
  <2>8. ASSUME NEW key \in {k} PROVE Explained(playlist[key], key, key)'
    <3>1. playlist'[key] = gotten[r] /\ key = edit[r].key
      BY <2>1, <2>2 DEF PlaylistTypeOK, k
    <3>2. QED
      BY <2>1, <2>2, <2>4, <2>5, <3>1 DEF ListsExplained, Explained, Plays, Stored
  <2>9. ASSUME NEW q \in Editors PROVE Explained(gotten[q], edit[q].key, q)'
    <3>1. CASE q = r
      BY <2>2, <3>1 DEF Explained, PlaylistTypeOK
    <3>2. CASE q # r
      <4>1. gotten'[q] = gotten[q] /\ edit'[q] = edit[q]
        BY <2>2, <3>2 DEF PlaylistTypeOK
      <4>2. q \in excused' <=> q \in excused
        BY <2>1, <2>3, <2>6, <3>2
      <4>3. QED
        BY <2>2, <2>5, <4>1, <4>2 DEF ListsExplained, Explained, Plays, Stored
    <3>3. QED
      BY <3>1, <3>2
  <2>10. QED
    BY <2>7, <2>8, <2>9 DEF ListsExplained
<1>10. ASSUME NEW r \in Editors, VideoStatementFails(r) PROVE ListsExplained'
  <2>1. CASE point[r] = "get"
    BY <1>10, <2>1, ExcusedStep DEF VideoStatementFails
  <2>2. CASE point[r] # "get"
    <3>1. /\ edit[r].op = "list" \/ point[r] \in {"new", "find", "write"}
          /\ gotten[r] = NoPlaylist
          /\ \A w \in Videos : Stored(w)' <=> Stored(w)
      BY <1>10, <2>2 DEF VideoStatementFails, WellFormed, Stored
    <3>2. \A w \in Videos : Changing(w) => Changing(w)'
      BY <1>10, <3>1, ChangeGoesOn DEF VideoStatementFails
    <3>3. \A o \in Editors : gotten[o] # NoPlaylist => edit'[o] = edit[o]
      BY <1>10, <3>1 DEF VideoStatementFails, Proceed, PlaylistTypeOK
    <3>4. QED
      BY <1>10, <2>2, <3>2, <3>3, QuietStep DEF VideoStatementFails
  <2>3. QED
    BY <2>1, <2>2
<1>11. CASE UNCHANGED playlistVars
  BY <1>11, QuietStep DEF playlistVars, Changing, Stored
<1>12. QED
  BY <1>1, <1>2, <1>3, <1>4, <1>5, <1>6, <1>7, <1>8, <1>9, <1>10, <1>11 DEF PlaylistNext

LEMMA PlaylistInvariant == PlaylistSpec => []PlaylistInv
<1>1. PlaylistInv /\ [PlaylistNext]_playlistVars => PlaylistInv'
  BY PlaylistTypeStep, ListStep DEF PlaylistInv
<1>2. QED
  BY PlaylistInitially, <1>1, PTL DEF PlaylistSpec

\* The variables keep their types.
THEOREM PlaylistTypes == PlaylistSpec => []PlaylistTypeOK
  BY PlaylistInvariant, PTL DEF PlaylistInv

(***************************************************************************)
(* A cached playlist that differs from the table differs in some row, so a *)
(* change of that video is on its way to Invalidate, or it is excused.     *)
(***************************************************************************)
THEOREM StalePlaylists == PlaylistSpec => []PlaylistStaleIsExplained
<1>1. ASSUME PlaylistInv PROVE PlaylistStaleIsExplained
  <2> USE <1>1 DEF PlaylistInv
  <2>1. SUFFICES ASSUME NEW key \in Keys, playlist[key] \notin {NoPlaylist, Playlist(key)}, key \notin excused
                 PROVE  \E r \in Editors : point[r] \in {"get", "invalidate"}
    BY DEF PlaylistStaleIsExplained
  <2>2. playlist[key] \in SUBSET (Videos \X Video)
    BY <2>1 DEF PlaylistTypeOK, Playlists
  <2>3. PICK v \in Videos, row \in Video : ~(<<v, row>> \in playlist[key] <=> <<v, row>> \in Playlist(key))
    <3>1. PICK e : ~(e \in playlist[key] <=> e \in Playlist(key))
      BY <2>1
    <3>2. e \in Videos \X Video
      BY <2>2, <3>1, PlaylistRows
    <3>3. QED
      BY <3>1, <3>2
  <2>4. Changing(v)
    BY <2>1, <2>3, PlaylistRows DEF ListsExplained, Explained
  <2>5. QED
    BY <2>4 DEF Changing
<1>2. QED
  BY <1>1, PlaylistInvariant, PTL

-------------------------------------------------------------------------------
(* TicketReports.                                                            *)

\* A ticket that was not called has no user.
UncalledHaveNoOfficer == \A t \in Issued : state[t] \in {"absent", "waiting"} => officer[t] = Unset

\* The tickets, as ReportTypeOK has them.
TableInv ==
  /\ state \in [Issued -> Desk!Statuses]
  /\ officer \in [Issued -> Officers \cup {Unset}]
  /\ survey \in [Issued -> Surveys \cup {Unset}]
  /\ started \in 0 .. MaxCompletions /\ ended \in [Issued -> 0 .. started]
  /\ \A t, u \in Issued : ended[t] = ended[u] => t = u \/ ended[t] = 0
  /\ \A t \in Issued : state[t] = "completed" => ended[t] # 0
  /\ \A t \in Issued : survey[t] # Unset => state[t] = "completed"
  /\ UncalledHaveNoOfficer

\* What happens to the tickets, other than ratings.
DeskStep ==
  \E t \in Issued :
    \/ CreateTicket(t) \/ SkipTicket(t) \/ RecallTicket(t)
    \/ BeginCompletion(t) \/ CompleteTicket(t)
    \/ \E u \in Officers : CallTicket(t, u)

\* A completed ticket is done with but for its rating; one that is called was not called before.
TicketsGoOn ==
  \A t \in Issued :
    /\ state[t] # "absent" => state'[t] # "absent"
    /\ state[t] = "completed" => state'[t] = "completed" /\ ended'[t] = ended[t]
    /\ state[t] \notin {"absent", "waiting"} => officer'[t] = officer[t]

LEMMA DeskStepFacts ==
  ASSUME TableInv, DeskStep PROVE TableInv' /\ TicketsGoOn /\ UNCHANGED <<survey, reading>>
<1> USE DEF Desk!Statuses, Desk!Move
<1>1. ASSUME NEW t \in Issued, CreateTicket(t) \/ SkipTicket(t) \/ RecallTicket(t) \/ CompleteTicket(t)
      PROVE  TableInv' /\ TicketsGoOn /\ UNCHANGED <<survey, reading>>
  <2>1. UNCHANGED <<officer, survey, started, ended, reading>>
    BY <1>1 DEF CreateTicket, SkipTicket, RecallTicket, CompleteTicket
  <2>2. /\ state[t] # "completed"
        /\ \E to \in {"waiting", "skipped", "calling", "completed"} :
             /\ state' = [state EXCEPT ![t] = to]
             /\ to = "waiting" => state[t] = "absent"
             /\ to # "waiting" /\ state[t] = "waiting" => to = "skipped"
             /\ state[t] = "absent" => to = "waiting"
             /\ to = "completed" => ended[t] # 0
    BY <1>1 DEF CreateTicket, SkipTicket, RecallTicket, CompleteTicket, Desk!Arrive, Desk!Skip,
                Desk!Recall, Desk!Complete
  <2>3. TableInv'
    BY <2>1, <2>2 DEF TableInv, UncalledHaveNoOfficer
  <2>4. TicketsGoOn
    BY <2>1, <2>2 DEF TableInv, TicketsGoOn
  <2>5. QED
    BY <2>1, <2>3, <2>4
<1>2. ASSUME NEW t \in Issued, BeginCompletion(t)
      PROVE  TableInv' /\ TicketsGoOn /\ UNCHANGED <<survey, reading>>
  <2>1. /\ UNCHANGED <<state, officer, survey, reading>> /\ state[t] \in {"calling", "serving"}
        /\ started < MaxCompletions /\ started' = started + 1
        /\ ended' = [ended EXCEPT ![t] = started + 1]
    BY <1>2 DEF BeginCompletion
  <2>2. started \in Nat /\ started' \in 0 .. MaxCompletions /\ \A u \in Issued : ended[u] \in 0 .. started
    BY <2>1, ReportAssumption DEF TableInv
  <2>3. ended' \in [Issued -> 0 .. started']
    BY <2>1, <2>2 DEF TableInv
  <2>4. ASSUME NEW u \in Issued, NEW v \in Issued, ended'[u] = ended'[v] PROVE u = v \/ ended'[u] = 0
    BY <2>1, <2>2, <2>4 DEF TableInv
  <2>5. \A u \in Issued : state'[u] = "completed" => ended'[u] # 0
    BY <2>1, <2>2 DEF TableInv
  <2>6. TableInv'
    BY <2>1, <2>2, <2>3, <2>4, <2>5 DEF TableInv, UncalledHaveNoOfficer
  <2>7. TicketsGoOn
    BY <2>1 DEF TableInv, TicketsGoOn
  <2>8. QED
    BY <2>1, <2>6, <2>7
<1>3. ASSUME NEW t \in Issued, NEW u \in Officers, CallTicket(t, u)
      PROVE  TableInv' /\ TicketsGoOn /\ UNCHANGED <<survey, reading>>
  <2>1. /\ UNCHANGED <<survey, started, ended, reading>> /\ officer' = [officer EXCEPT ![t] = u]
        /\ state[t] = "waiting" /\ state' = [state EXCEPT ![t] = "calling"]
    BY <1>3 DEF CallTicket
  <2>2. TableInv'
    BY <2>1 DEF TableInv, UncalledHaveNoOfficer
  <2>3. TicketsGoOn
    BY <2>1 DEF TableInv, TicketsGoOn
  <2>4. QED
    BY <2>1, <2>2, <2>3
<1>4. QED
  BY <1>1, <1>2, <1>3 DEF DeskStep

\* A rating changes the answer of a completed ticket, and nothing else.
LEMMA RateFacts ==
  ASSUME TableInv, NEW t \in Issued, NEW s \in Surveys, RateTicket(t, s)
  PROVE  /\ TableInv' /\ UNCHANGED <<state, officer, started, ended>>
         /\ UNCHANGED <<query, filter, headline, page, unread>>
         /\ state[t] = "completed" /\ survey' = [survey EXCEPT ![t] = s]
<1>1. /\ UNCHANGED <<state, officer, started, ended>>
      /\ UNCHANGED <<query, filter, headline, page, unread>>
      /\ state[t] = "completed" /\ survey' = [survey EXCEPT ![t] = s]
  BY DEF RateTicket, Desk!Rate
<1>2. TableInv'
  BY <1>1 DEF TableInv, UncalledHaveNoOfficer
<1>3. QED
  BY <1>1, <1>2

-------------------------------------------------------------------------------
(* What the queries of a reader see.                                         *)

\* But for ratings, what a filter lets through goes through it for good, and no answer is added.
LEMMA QueriesGrow ==
  ASSUME TableInv, TableInv', TicketsGoOn, UNCHANGED <<survey, filter>>
  PROVE  /\ Counted \subseteq Counted' /\ Completed \subseteq Completed' /\ Answered' = Answered
<1>1. ASSUME NEW t \in Issued, Where(t) PROVE Where(t)'
  <2>1. state'[t] # "absent"
    BY <1>1 DEF Where, TicketsGoOn
  <2>2. ASSUME filter.officer # Unset PROVE officer'[t] = filter.officer
    <3>1. officer[t] = filter.officer /\ officer[t] # Unset
      BY <1>1, <2>2 DEF Where
    <3>2. officer'[t] = officer[t]
      BY <3>1 DEF TicketsGoOn, TableInv, UncalledHaveNoOfficer
    <3>3. QED
      BY <3>1, <3>2
  <2>3. QED
    BY <1>1, <2>1, <2>2 DEF Where
<1>2. ASSUME NEW t \in Issued, survey[t] # Unset, Where(t)' PROVE Where(t)
  <2>1. state[t] = "completed" /\ officer'[t] = officer[t]
    BY <1>2 DEF TableInv, TicketsGoOn
  <2>2. QED
    BY <1>2, <2>1 DEF Where
<1>3. \A t \in Issued : state[t] = "completed" => state'[t] = "completed"
  BY DEF TicketsGoOn
<1>4. QED
  BY <1>1, <1>2, <1>3 DEF Counted, Completed, Answered

\* The tickets with answers are completed ones, no more than there are tickets.
LEMMA AnsweredFacts ==
  ASSUME TableInv
  PROVE  /\ \A t \in Answered : t \in Issued /\ state[t] = "completed"
         /\ IsFiniteSet(Answered) /\ Cardinality(Answered) \in 0 .. MaxTickets
<1>1. Answered \in SUBSET (1 .. MaxTickets)
  BY DEF Answered, Counted, Issued
<1>2. IsFiniteSet(1 .. MaxTickets) /\ Cardinality(1 .. MaxTickets) = MaxTickets /\ MaxTickets \in Nat
  <2>1. 1 \in Int /\ MaxTickets \in Int /\ MaxTickets \in Nat
    BY ReportAssumption
  <2>2. QED
    BY <2>1, FS_Interval
<1>3. IsFiniteSet(Answered) /\ Cardinality(Answered) \in Nat /\ Cardinality(Answered) <= MaxTickets
  BY <1>1, <1>2, FS_Subset, FS_CardinalityType
<1>4. \A t \in Answered : t \in Issued /\ state[t] = "completed"
  BY DEF Answered, Counted, TableInv
<1>5. QED
  BY <1>2, <1>3, <1>4

\* Completed tickets have places of their own, and the newest of them are n or all.
LEMMA NewestIsFull ==
  ASSUME TableInv, NEW rows, \A t \in rows : t \in Issued /\ state[t] = "completed", NEW n \in Nat
  PROVE  /\ started \in Nat /\ Places(rows) \in SUBSET (1 .. started)
         /\ Newest(rows, n) \subseteq rows
         /\ Newest(rows, n) = rows \/ Cardinality(Newest(rows, n)) = n
         /\ Cardinality(rows) <= n => Newest(rows, n) = rows
<1> DEFINE P == Places(rows)
<1>1. started \in Nat /\ \A t \in rows : ended[t] \in 1 .. started
  BY ReportAssumption DEF TableInv
<1>2. P \in SUBSET (1 .. started)
  BY <1>1 DEF Places
<1>3. \A t, u \in rows : ended[t] = ended[u] => t = u
  BY DEF TableInv
<1>4. ASSUME NEW Q \in SUBSET P
      PROVE  LET shown == {t \in rows : ended[t] \in Q} IN Cardinality(shown) = Cardinality(Q)
  <2> DEFINE shown == {t \in rows : ended[t] \in Q}
             f == [t \in shown |-> ended[t]]
  <2>1. f \in Bijection(shown, Q)
    <3>1. f \in [shown -> Q]
      OBVIOUS
    <3>2. \A a, b \in shown : f[a] = f[b] => a = b
      BY <1>3
    <3>3. \A i \in Q : \E a \in shown : f[a] = i
      BY DEF Places
    <3>4. QED
      BY <3>1, <3>2, <3>3 DEF Bijection, Injection, Surjection, IsInjective
  <2>2. ExistsBijection(shown, Q)
    BY <2>1 DEF ExistsBijection
  <2>3. IsFiniteSet(shown)
    <3>1. MaxTickets \in Nat /\ shown \in SUBSET (1 .. MaxTickets)
      BY ReportAssumption DEF Issued
    <3>2. IsFiniteSet(1 .. MaxTickets)
      BY <3>1, FS_Interval
    <3>3. QED
      BY <3>1, <3>2, FS_Subset
  <2>4. QED
    BY <2>2, <2>3, FS_Bijection
<1>5. rows = {t \in rows : ended[t] \in P}
  BY DEF Places
<1>6. Cardinality(rows) = Cardinality(P)
  BY <1>4, <1>5
<1>7. Top(P, n) \in SUBSET P /\ Newest(rows, n) = {t \in rows : ended[t] \in Top(P, n)}
  BY DEF Top, Newest
<1>8. Cardinality(Newest(rows, n)) = Cardinality(Top(P, n))
  BY <1>4, <1>7
<1>9. Top(P, n) = P \/ Cardinality(Top(P, n)) = n
  BY <1>1, <1>2, LeadingAreFull DEF Top, Leading, Above
<1>10. Cardinality(P) <= n => Top(P, n) = P
  BY <1>1, <1>2, LeadingOfFew DEF Top, Leading, Above
<1> HIDE DEF P
<1>11. Top(P, n) = P => Newest(rows, n) = rows
  BY <1>5, <1>7
<1>12. QED
  BY <1>1, <1>2, <1>6, <1>7, <1>8, <1>9, <1>10, <1>11 DEF P

\* What is listed later, when more tickets are there, was listed before.
LEMMA NewestOfMore ==
  ASSUME TableInv, NEW A, NEW B, A \subseteq B, \A t \in B : t \in Issued /\ state[t] = "completed",
         NEW n \in Nat
  PROVE  Newest(B, n) \cap A \subseteq Newest(A, n)
<1>1. PICK P, Q, b : P = Places(A) /\ Q = Places(B) /\ b = started
  OBVIOUS
<1>2. b \in Nat /\ Q \in SUBSET (1 .. b) /\ P \in SUBSET Q
  <2>1. started \in Nat /\ Places(B) \in SUBSET (1 .. started)
    BY NewestIsFull
  <2>2. QED
    BY <1>1, <2>1 DEF Places
<1>3. Top(Q, n) \cap P \subseteq Top(P, n)
  BY <1>2, LeadingOfMore DEF Top, Leading, Above
<1>4. \A t \in A : ended[t] \in P
  BY <1>1 DEF Places
<1>5. QED
  BY <1>1, <1>3, <1>4 DEF Newest

\* When a ticket goes that is not listed, no other takes a place in the list.
LEMMA NewestOfLess ==
  ASSUME TableInv, NEW A, \A t \in A : t \in Issued /\ state[t] = "completed", NEW n \in Nat,
         NEW t \in A, t \notin Newest(A, n)
  PROVE  Newest(A \ {t}, n) \subseteq Newest(A, n)
<1>1. PICK P, Q, b, e : P = Places(A) /\ Q = Places(A \ {t}) /\ b = started /\ e = ended[t]
  OBVIOUS
<1>2. b \in Nat /\ P \in SUBSET (1 .. b)
  <2>1. started \in Nat /\ Places(A) \in SUBSET (1 .. started)
    BY NewestIsFull
  <2>2. QED
    BY <1>1, <2>1
<1>3. Q = P \ {e} /\ e \in P
  BY <1>1 DEF Places, TableInv
<1>4. e \notin Top(P, n)
  BY <1>1 DEF Newest
<1>5. Top(Q, n) \subseteq Top(P, n)
  <2>1. \A S : Top(S, n) = Leading(S, n)
    BY DEF Top, Leading, Above
  <2>2. e \notin Leading(P, n)
    BY <1>4, <2>1
  <2>3. Leading(P \ {e}, n) \subseteq Leading(P, n)
    BY <1>2, <1>3, <2>2, LeadingOfLess
  <2>4. QED
    BY <1>3, <2>1, <2>3
<1>6. QED
  BY <1>1, <1>5 DEF Newest

\* A step that leaves the tickets alone, or their answers and places, leaves the pages alone.
LEMMA PagesRest ==
  ASSUME Answered' = Answered, \A t \in Answered : ended'[t] = ended[t]
  PROVE  \A n : Newest(Answered, n)' = Newest(Answered, n)
<1>1. Places(Answered)' = Places(Answered)
  BY DEF Places
<1>2. QED
  BY <1>1 DEF Newest

\* A step of the reader leaves the queries of its filter as they were.
LEMMA QueriesRest ==
  ASSUME UNCHANGED <<tickets, filter>>
  PROVE  /\ Counted' = Counted /\ Completed' = Completed /\ Answered' = Answered
         /\ \A n : Newest(Answered, n)' = Newest(Answered, n)
<1>1. Counted' = Counted /\ Completed' = Completed /\ Answered' = Answered
  BY DEF Counted, Completed, Answered, Where, tickets
<1>2. \A t \in Answered : ended'[t] = ended[t]
  BY DEF tickets
<1>3. QED
  BY <1>1, <1>2, PagesRest

(***************************************************************************)
(* A rating brings its ticket into what a reader sees, or takes it out of  *)
(* all of it, an answer among it, or leaves it as it is.                   *)
(***************************************************************************)
LEMMA RatedQueries ==
  ASSUME TableInv, NEW t \in Issued, NEW s \in Surveys, RateTicket(t, s)
  PROVE  /\ Counted \ {t} \subseteq Counted' /\ Completed \ {t} \subseteq Completed'
         /\ Answered \ {t} = Answered' \ {t}
         /\ t \in Answered' => (t \in Counted => t \in Counted') /\ (t \in Completed => t \in Completed')
         /\ t \notin Answered /\ t \in Counted => t \in Counted'
         /\ t \notin Answered /\ t \in Completed => t \in Completed'
<1>1. /\ UNCHANGED <<state, officer, ended, query, filter>>
      /\ state[t] = "completed" /\ survey' = [survey EXCEPT ![t] = s]
  BY RateFacts
<1>2. ASSUME NEW u \in Issued, u # t PROVE (Where(u)' <=> Where(u)) /\ survey'[u] = survey[u]
  BY <1>1, <1>2 DEF Where, TableInv
<1>3. CASE filter.rating = Unset
  <2>1. Where(t)' <=> Where(t)
    BY <1>1, <1>3 DEF Where
  <2>2. QED
    BY <1>1, <1>2, <2>1 DEF Counted, Completed, Answered
<1>4. CASE filter.rating # Unset
  <2>1. Where(t) => survey[t] # Unset
    BY <1>4 DEF Where
  <2>2. QED
    BY <1>1, <1>2, <2>1 DEF Counted, Completed, Answered
<1>5. QED
  BY <1>3, <1>4

-------------------------------------------------------------------------------
(* What a reader can rely on.                                                *)

\* The answers still to be read are there, and were not listed on a page before this one, apart
\* from those taken out of the filter, and unless one was from a page before this one.
AnswersAreAhead ==
  query \in {"count", "rows"} =>
    /\ unread \ withdrawn \subseteq Answered
    /\ ~shifted => (unread \ withdrawn) \cap Given = {}

\* The answers are no more than were counted, unless one has come.
CountIsRight == query = "rows" /\ ~slipped => Cardinality(Answered) <= page.total

\* What the Summary counted is still there to be counted, if it was not taken out of the filter.
HeadlineHolds ==
  query \in Queries \cup {"exportCount", "exportRows"} /\ query # "summary" =>
    /\ headline.total \ withdrawn \subseteq Counted
    /\ headline.completed \ withdrawn \subseteq Completed
    /\ headline.rated \ withdrawn \subseteq Answered
    /\ \A t \in headline.completed : state[t] = "completed"

PageType == [number : 1 .. MaxTickets + 1, size : 1 .. MaxSize, total : 0 .. MaxTickets]

\* The reader's state, as ReportTypeOK has it.
ReaderInv ==
  /\ query \in Queries \cup {"none", "count", "rows", "exportCount", "exportRows"}
  /\ filter \in Filters \cup {Unset} /\ (filter = Unset <=> query = "none")
  /\ headline \in Headline
  /\ page \in PageType
  /\ unread \subseteq Issued /\ slipped \in BOOLEAN
  /\ withdrawn \subseteq Issued /\ shifted \in BOOLEAN

ReportInv == TableInv /\ ReaderInv /\ AnswersAreAhead /\ CountIsRight /\ HeadlineHolds

LEMMA TableRests == ASSUME TableInv, UNCHANGED tickets PROVE TableInv'
  BY DEF TableInv, tickets, UncalledHaveNoOfficer

LEMMA ReportInitially == ReportInit => ReportInv
<1> SUFFICES ASSUME ReportInit PROVE ReportInv
  OBVIOUS
<1>1. TableInv
  BY ReportAssumption DEF ReportInit, TableInv, UncalledHaveNoOfficer, Desk!Statuses
<1>2. headline \in Headline
  BY DEF ReportInit, NoHeadline, Headline
<1>3. page \in PageType
  BY ReportAssumption DEF ReportInit, NoPage, PageType
<1>4. ReaderInv
  BY <1>2, <1>3 DEF ReportInit, ReaderInv
<1>5. QED
  BY <1>1, <1>4 DEF ReportInv, AnswersAreAhead, CountIsRight, HeadlineHolds, ReportInit, Queries

\* The reader's answer, or its end.
LEMMA EndStep == ASSUME ReportInv, EndReading PROVE ReportInv'
<1>1. TableInv'
  BY TableRests DEF ReportInv, EndReading
<1>2. headline' \in Headline
  BY DEF EndReading, NoHeadline, Headline
<1>3. page' \in PageType
  BY ReportAssumption DEF EndReading, NoPage, PageType
<1>4. ReaderInv'
  BY <1>2, <1>3 DEF EndReading, ReaderInv
<1>5. QED
  BY <1>1, <1>4 DEF ReportInv, AnswersAreAhead, CountIsRight, HeadlineHolds, EndReading, Queries

LEMMA BeginStep ==
  ASSUME ReportInv, NEW f \in Filters, NEW asked \in 0 .. MaxSize + 1, BeginReport(f) \/ BeginPages(f, asked)
  PROVE  ReportInv'
<1>1. TableInv'
  BY TableRests DEF ReportInv, BeginReport, BeginPages
<1>2. CASE BeginReport(f)
  <2>1. ReaderInv'
    BY <1>2, ReportAssumption DEF BeginReport, ReportInv, ReaderInv, Queries
  <2>2. QED
    BY <1>1, <1>2, <2>1 DEF BeginReport, ReportInv, AnswersAreAhead, CountIsRight, HeadlineHolds
<1>3. CASE BeginPages(f, asked)
  <2>1. SizeOf(asked) \in 1 .. MaxSize
    BY ReportAssumption DEF SizeOf
  <2>2. page' \in PageType /\ page'.number = 1 /\ page'.size = SizeOf(asked)
    BY <1>3, <2>1, ReportAssumption DEF BeginPages, NoPage, PageType
  <2>3. unread' = Answered' /\ unread' \subseteq Issued
    BY <1>3 DEF BeginPages, Answered, Counted
  <2>4. ReaderInv'
    BY <1>3, <2>2, <2>3, ReportAssumption DEF BeginPages, ReportInv, ReaderInv
  <2>5. Given' = {}
    <3>1. (page'.number - 1) * page'.size = 0
      BY <2>1, <2>2
    <3>2. PICK P, b : P = Places(Answered)' /\ b = started'
      OBVIOUS
    <3>3. b \in Nat /\ P \in SUBSET (1 .. b)
      <4>1. \A t \in Answered' : t \in Issued /\ state'[t] = "completed"
        BY <1>1 DEF Answered, Counted, TableInv
      <4>2. started' \in Nat /\ \A t \in Answered' : ended'[t] \in 1 .. started'
        BY <1>1, <4>1, ReportAssumption DEF TableInv
      <4>3. QED
        BY <3>2, <4>2 DEF Places
    <3>4. Top(P, 0) = {}
      BY <3>3, LeadingOfNone DEF Top, Leading, Above
    <3>5. QED
      BY <3>1, <3>2, <3>4 DEF Given, Newest, Top
  <2>6. AnswersAreAhead'
    BY <2>3, <2>5 DEF AnswersAreAhead
  <2>7. QED
    BY <1>1, <1>3, <2>4, <2>6 DEF BeginPages, ReportInv, CountIsRight, HeadlineHolds, Queries
<1>4. QED
  BY <1>2, <1>3

\* The queries of a report, one after the other.
LEMMA QueryOrder ==
  ASSUME query' \in After(query), query' # "none"
  PROVE  /\ query \in Queries \cup {"exportCount"} /\ query # "summary"
         /\ query' \in Queries \cup {"exportCount", "exportRows"} /\ query' # "summary"
  BY DEF After, Queries

LEMMA RunStep == ASSUME ReportInv, Summary \/ RunQuery PROVE ReportInv'
<1>1. TableInv' /\ UNCHANGED <<tickets, filter, withdrawn>>
  BY TableRests DEF ReportInv, Summary, RunQuery
<1>2. Counted' = Counted /\ Completed' = Completed /\ Answered' = Answered
  BY <1>1, QueriesRest
<1>3. CASE Summary
  <2>1. headline' = [total |-> Counted, completed |-> Completed, rated |-> Answered] /\ query' = "byService"
    BY <1>3 DEF Summary
  <2>2. headline' \in Headline
    BY <2>1 DEF Headline, Counted, Completed, Answered
  <2>3. ReaderInv'
    BY <1>3, <2>2 DEF Summary, ReportInv, ReaderInv, Queries
  <2>4. \A t \in headline'.completed : state'[t] = "completed"
    BY <1>1, <2>1 DEF Completed, tickets
  <2>5. HeadlineHolds'
    BY <1>2, <2>1, <2>4 DEF HeadlineHolds
  <2>6. QED
    BY <1>1, <2>1, <2>3, <2>5 DEF ReportInv, AnswersAreAhead, CountIsRight
<1>4. CASE RunQuery
  <2>1. /\ query \in Queries \cup {"exportCount"} /\ query # "summary"
        /\ query' \in Queries \cup {"exportCount", "exportRows"} /\ query' # "summary"
    BY <1>4, QueryOrder DEF RunQuery
  <2>2. ReaderInv'
    BY <1>4, <2>1 DEF RunQuery, ReportInv, ReaderInv, Queries
  <2>3. HeadlineHolds'
    BY <1>1, <1>2, <1>4, <2>1 DEF RunQuery, ReportInv, HeadlineHolds, tickets
  <2>4. QED
    BY <1>1, <2>1, <2>2, <2>3 DEF ReportInv, AnswersAreAhead, CountIsRight, Queries
<1>5. QED
  BY <1>3, <1>4

LEMMA CountStep == ASSUME ReportInv, CountAnswers PROVE ReportInv'
<1>1. TableInv' /\ UNCHANGED <<tickets, filter>>
  BY TableRests DEF ReportInv, CountAnswers
<1>2. Answered' = Answered /\ \A n : Newest(Answered, n)' = Newest(Answered, n)
  BY <1>1, QueriesRest
<1>3. /\ page \in PageType /\ page' = [page EXCEPT !.total = Cardinality(Answered)]
      /\ Cardinality(Answered) \in 0 .. MaxTickets
  BY AnsweredFacts DEF ReportInv, ReaderInv, CountAnswers
<1>4. /\ page' \in PageType /\ page'.number = page.number /\ page'.size = page.size
      /\ page'.total = Cardinality(Answered)
  BY <1>3 DEF PageType
<1>5. ReaderInv'
  BY <1>4 DEF CountAnswers, ReportInv, ReaderInv
<1>6. Given' = Given
  <2>1. PICK n : n = (page.number - 1) * page.size
    OBVIOUS
  <2>2. (page'.number - 1) * page'.size = n
    BY <1>4, <2>1
  <2>3. Newest(Answered, n)' = Newest(Answered, n)
    BY <1>2
  <2>4. QED
    BY <2>1, <2>2, <2>3 DEF Given, Newest, Top
<1>7. AnswersAreAhead'
  BY <1>2, <1>6 DEF CountAnswers, ReportInv, AnswersAreAhead
<1>8. CountIsRight'
  BY <1>2, <1>3, <1>4 DEF CountIsRight
<1>9. HeadlineHolds'
  BY DEF CountAnswers, HeadlineHolds, Queries
<1>10. QED
  BY <1>1, <1>5, <1>7, <1>8, <1>9 DEF ReportInv

LEMMA FetchStep == ASSUME ReportInv, FetchAnswers PROVE ReportInv'
<1>1. TableInv' /\ UNCHANGED <<tickets, filter, withdrawn, shifted>>
  BY TableRests DEF ReportInv, FetchAnswers
<1>2. Answered' = Answered /\ \A n : Newest(Answered, n)' = Newest(Answered, n)
  BY <1>1, QueriesRest
<1>3. /\ page \in PageType /\ page' = [page EXCEPT !.number = page.number + 1]
      /\ page.number * page.size < page.total
  <2>1. page \in PageType /\ ~(page.number * page.size >= page.total)
    BY DEF ReportInv, ReaderInv, FetchAnswers, LastPage
  <2>2. PICK n, k, m : n = page.number /\ k = page.size /\ m = page.total
    OBVIOUS
  <2>3. n \in Nat /\ k \in Nat /\ m \in Nat /\ n * k \in Int
    BY <2>1, <2>2 DEF PageType
  <2>4. n * k < m
    BY <2>1, <2>2, <2>3
  <2>5. QED
    BY <2>1, <2>2, <2>4 DEF FetchAnswers
<1>4. PICK n, k : n = page.number /\ k = page.size
  OBVIOUS
<1>5. n \in Nat /\ k \in Nat /\ k >= 1 /\ n >= 1 /\ n * k < page.total /\ page.total <= MaxTickets /\ MaxTickets \in Nat
  BY <1>3, <1>4, ReportAssumption DEF PageType
<1>6. n <= n * k /\ n * k \in Nat
  <2>1. n * k = n + n * (k - 1) /\ n * (k - 1) >= 0
    BY <1>5
  <2>2. QED
    BY <1>5, <2>1
<1>7. n + 1 \in 1 .. MaxTickets + 1
  <2>1. page.total \in Nat
    BY <1>3 DEF PageType
  <2>2. n < MaxTickets
    BY <1>5, <1>6, <2>1
  <2>3. QED
    BY <1>5, <2>2
<1>8. page' \in PageType /\ page'.number = n + 1 /\ page'.size = k
  BY <1>3, <1>4, <1>7 DEF PageType
<1>9. ReaderInv'
  BY <1>8 DEF FetchAnswers, ReportInv, ReaderInv
<1>10. (page'.number - 1) * page'.size = n * k
  <2>1. page'.number - 1 = n
    BY <1>5, <1>8
  <2>2. QED
    BY <1>8, <2>1
<1>11. Given' = Newest(Answered, n * k)
  <2>1. PICK m : m = n * k
    OBVIOUS
  <2>2. Newest(Answered, m)' = Newest(Answered, m)
    BY <1>2
  <2>3. QED
    BY <1>10, <2>1, <2>2 DEF Given, Newest, Top
<1>12. /\ unread \ withdrawn \subseteq Answered
       /\ ~shifted => (unread \ withdrawn) \cap Newest(Answered, (n - 1) * k) = {}
  BY <1>4 DEF FetchAnswers, ReportInv, AnswersAreAhead, Given
<1>13. unread' = unread \ (Newest(Answered, n * k) \ Newest(Answered, (n - 1) * k))
  BY <1>4 DEF FetchAnswers, Rows
<1>14. AnswersAreAhead'
  BY <1>1, <1>2, <1>11, <1>12, <1>13 DEF AnswersAreAhead
<1>15. CountIsRight' /\ HeadlineHolds'
  BY DEF FetchAnswers, CountIsRight, HeadlineHolds, Queries
<1>16. QED
  BY <1>1, <1>9, <1>14, <1>15 DEF ReportInv

\* Without a rating the answers and their pages stay as they are, and the rest grows.
LEMMA TicketStep == ASSUME ReportInv, DeskStep PROVE ReportInv'
<1>1. /\ TableInv /\ TableInv' /\ TicketsGoOn /\ UNCHANGED survey
      /\ UNCHANGED <<query, filter, headline, page, unread, slipped, withdrawn, shifted>>
  BY DeskStepFacts DEF ReportInv, reading
<1>2. Counted \subseteq Counted' /\ Completed \subseteq Completed' /\ Answered' = Answered
  BY <1>1, QueriesGrow
<1>3. ReaderInv'
  BY <1>1 DEF ReportInv, ReaderInv
<1>4. HeadlineHolds'
  <2>1. \A t \in Issued : state[t] = "completed" => state'[t] = "completed"
    BY <1>1 DEF TicketsGoOn
  <2>2. headline.completed \subseteq Issued
    BY DEF ReportInv, ReaderInv, Headline
  <2>3. QED
    BY <1>1, <1>2, <2>1, <2>2 DEF ReportInv, HeadlineHolds
<1>5. Given' = Given
  <2>1. \A t \in Answered : ended'[t] = ended[t]
    BY <1>1, AnsweredFacts DEF TicketsGoOn
  <2>2. \A n : Newest(Answered, n)' = Newest(Answered, n)
    BY <1>2, <2>1, PagesRest
  <2>3. PICK n : n = (page.number - 1) * page.size
    OBVIOUS
  <2>4. QED
    BY <1>1, <2>2, <2>3 DEF Given, Newest, Top
<1>6. AnswersAreAhead' /\ CountIsRight'
  BY <1>1, <1>2, <1>5 DEF ReportInv, AnswersAreAhead, CountIsRight
<1>7. QED
  BY <1>1, <1>3, <1>4, <1>6 DEF ReportInv

(***************************************************************************)
(* A rating: what comes to the answers moves others to later pages, never  *)
(* to earlier ones, and what leaves them from a page that has not been     *)
(* given moves nothing to those that have.                                 *)
(***************************************************************************)
LEMMA RateStep ==
  ASSUME ReportInv, NEW t \in Issued, NEW s \in Surveys, RateTicket(t, s) PROVE ReportInv'
<1>1. /\ TableInv /\ TableInv' /\ UNCHANGED <<state, officer, ended>>
      /\ UNCHANGED <<query, filter, headline, page, unread>> /\ Slip(t)
  BY RateFacts DEF ReportInv, RateTicket
<1>2. /\ Counted \ {t} \subseteq Counted' /\ Completed \ {t} \subseteq Completed'
      /\ Answered \ {t} = Answered' \ {t}
      /\ t \in Answered' => (t \in Counted => t \in Counted') /\ (t \in Completed => t \in Completed')
      /\ t \notin Answered /\ t \in Counted => t \in Counted'
      /\ t \notin Answered /\ t \in Completed => t \in Completed'
  BY <1>1, RatedQueries
<1>3. ReaderInv'
  BY <1>1 DEF ReportInv, ReaderInv, Slip
<1>4. withdrawn \subseteq withdrawn' /\ (shifted => shifted') /\ (slipped => slipped')
  BY <1>1 DEF Slip
<1>5. query # "none" /\ t \in Answered /\ t \notin Answered' => t \in withdrawn'
  BY <1>1 DEF Slip
<1>6. HeadlineHolds'
  <2>1. SUFFICES ASSUME query \in Queries \cup {"exportCount", "exportRows"}, query # "summary"
                 PROVE  HeadlineHolds'
    BY <1>1 DEF HeadlineHolds
  <2>2. query # "none"
    BY <2>1 DEF Queries
  <2>3. headline.total \ withdrawn' \subseteq Counted'
    BY <1>2, <1>4, <1>5, <2>1, <2>2 DEF ReportInv, HeadlineHolds
  <2>4. headline.completed \ withdrawn' \subseteq Completed'
    BY <1>2, <1>4, <1>5, <2>1, <2>2 DEF ReportInv, HeadlineHolds
  <2>5. headline.rated \ withdrawn' \subseteq Answered'
    BY <1>2, <1>4, <1>5, <2>1, <2>2 DEF ReportInv, HeadlineHolds
  <2>6. QED
    BY <1>1, <2>1, <2>3, <2>4, <2>5 DEF ReportInv, HeadlineHolds
<1>7. CountIsRight'
  <2>1. SUFFICES ASSUME query = "rows", ~slipped' PROVE Cardinality(Answered') <= page.total
    BY <1>1 DEF CountIsRight
  <2>2. Answered' \subseteq Answered
    BY <1>1, <1>2, <2>1 DEF Slip
  <2>3. /\ IsFiniteSet(Answered) /\ Cardinality(Answered) \in Nat
        /\ Cardinality(Answered) <= page.total /\ page.total \in Nat
    BY <1>1, <1>4, <2>1, AnsweredFacts DEF ReportInv, CountIsRight, ReaderInv, PageType
  <2>4. Cardinality(Answered') \in Nat /\ Cardinality(Answered') <= Cardinality(Answered)
    BY <2>2, <2>3, FS_Subset, FS_CardinalityType
  <2>5. QED
    BY <2>3, <2>4
<1>8. ASSUME query \in {"count", "rows"}
      PROVE  /\ unread \ withdrawn' \subseteq Answered'
             /\ ~shifted' => (unread \ withdrawn') \cap Given' = {}
  <2>1. PICK A, B, n : A = Answered /\ B = Answered' /\ n = (page.number - 1) * page.size
    OBVIOUS
  <2>2. /\ unread \ withdrawn \subseteq A
        /\ ~shifted => (unread \ withdrawn) \cap Newest(A, n) = {}
    BY <1>8, <2>1 DEF ReportInv, AnswersAreAhead, Given
  <2>3. Given = Newest(A, n)
    BY <2>1 DEF Given
  <2>4. Given' = Newest(B, n)
    BY <1>1, <2>1 DEF Given, Newest, Places, Top
  <2>5. /\ \A u \in A : u \in Issued /\ state[u] = "completed"
        /\ \A u \in B : u \in Issued /\ state[u] = "completed"
    <3>1. \A u \in Answered' : u \in Issued /\ state'[u] = "completed"
      BY <1>1 DEF Answered, Counted, TableInv
    <3>2. QED
      BY <1>1, <2>1, <3>1, AnsweredFacts
  <2>6. n \in Nat
    <3>1. page \in PageType
      BY DEF ReportInv, ReaderInv
    <3>2. page.number - 1 \in Nat /\ page.size \in Nat
      BY <3>1 DEF PageType
    <3>3. QED
      BY <2>1, <3>2
  <2>7. A \ {t} = B \ {t}
    BY <1>2, <2>1
  <2>8. unread \ withdrawn' \subseteq B
    BY <1>4, <1>5, <1>8, <2>1, <2>2, <2>7
  <2>9. ASSUME ~shifted' PROVE (unread \ withdrawn') \cap Newest(B, n) = {}
    <3>1. (unread \ withdrawn') \cap Newest(A, n) = {}
      BY <1>4, <2>2, <2>9
    <3>2. CASE A \subseteq B
      <4>1. Newest(B, n) \cap A \subseteq Newest(A, n)
        BY <1>1, <2>5, <2>6, <3>2, NewestOfMore
      <4>2. unread \ withdrawn' \subseteq A
        BY <1>4, <2>2
      <4>3. QED
        BY <3>1, <4>1, <4>2
    <3>3. CASE ~(A \subseteq B)
      <4>1. t \in A /\ t \notin B /\ B = A \ {t}
        BY <2>7, <3>3
      <4>2. t \notin Newest(A, n)
        BY <1>1, <1>8, <2>1, <2>3, <2>9, <4>1 DEF Slip
      <4>3. Newest(B, n) \subseteq Newest(A, n)
        BY <1>1, <2>5, <2>6, <4>1, <4>2, NewestOfLess
      <4>4. QED
        BY <3>1, <4>3
    <3>4. QED
      BY <3>2, <3>3
  <2>10. QED
    BY <2>1, <2>4, <2>8, <2>9
<1>9. AnswersAreAhead'
  BY <1>1, <1>8 DEF AnswersAreAhead
<1>10. QED
  BY <1>1, <1>3, <1>6, <1>7, <1>9 DEF ReportInv

LEMMA ReportStep == ASSUME ReportInv, [ReportNext]_reportVars PROVE ReportInv'
<1>1. CASE UNCHANGED reportVars
  <2>1. /\ UNCHANGED tickets
        /\ UNCHANGED <<query, filter, headline, page, unread, slipped, withdrawn, shifted>>
    BY <1>1 DEF reportVars, reading
  <2>2. TableInv' /\ ReaderInv'
    BY <2>1, TableRests DEF ReportInv, ReaderInv
  <2>3. /\ Counted' = Counted /\ Completed' = Completed /\ Answered' = Answered
    BY <2>1, QueriesRest
  <2>4. Given' = Given
    BY <2>1, <2>3 DEF Given, Newest, Places, tickets
  <2>5. HeadlineHolds'
    BY <2>1, <2>3 DEF ReportInv, HeadlineHolds, tickets
  <2>6. QED
    BY <2>1, <2>2, <2>3, <2>4, <2>5 DEF ReportInv, AnswersAreAhead, CountIsRight
<1>2. CASE AnswerReport \/ FetchLastAnswers \/ ReadFails
  BY <1>2, EndStep DEF AnswerReport, FetchLastAnswers, ReadFails
<1>3. ASSUME NEW f \in Filters, BeginReport(f) PROVE ReportInv'
  <2>1. 0 \in 0 .. MaxSize + 1
    BY ReportAssumption
  <2>2. QED
    BY <1>3, <2>1, BeginStep
<1>4. ASSUME NEW f \in Filters, NEW asked \in 0 .. MaxSize + 1, BeginPages(f, asked) PROVE ReportInv'
  BY <1>4, BeginStep
<1>5. QED
  BY <1>1, <1>2, <1>3, <1>4, RunStep, CountStep, FetchStep, TicketStep, RateStep DEF ReportNext, DeskStep

LEMMA ReportInvariant == ReportSpec => []ReportInv
  BY ReportInitially, ReportStep, PTL DEF ReportSpec

\* The types of the tickets' table, of a reader and of the page he asks for.
THEOREM ReportTypes == ReportSpec => []ReportTypeOK
<1>1. ReportInv => ReportTypeOK
  BY DEF ReportInv, TableInv, ReaderInv, PageType, ReportTypeOK, Rated
<1>2. QED
  BY <1>1, ReportInvariant, PTL

(***************************************************************************)
(* For any tickets, filters, answers and page sizes: a client that reads   *)
(* all pages misses an answer only by a race with the last page, or when   *)
(* another rating takes it, or one it was given, out of the filter.        *)
(***************************************************************************)
THEOREM PagesMissOnly == ReportSpec => []PagesMissOnlyByRace
<1>1. ASSUME ReportInv PROVE PagesMissOnlyByRace
  <2>1. SUFFICES ASSUME query = "rows", LastPage, ~slipped, ~shifted
                 PROVE  unread \ withdrawn \subseteq Rows(page.number, page.size)
    BY DEF PagesMissOnlyByRace
  <2>2. /\ Cardinality(Answered) <= page.total
        /\ unread \ withdrawn \subseteq Answered
        /\ (unread \ withdrawn) \cap Newest(Answered, (page.number - 1) * page.size) = {}
    BY <1>1, <2>1 DEF ReportInv, CountIsRight, AnswersAreAhead, Given
  <2>3. PICK n \in Nat : n = page.number * page.size
    <3>1. page \in PageType
      BY <1>1 DEF ReportInv, ReaderInv
    <3>2. page.number \in Nat /\ page.size \in Nat
      BY <3>1 DEF PageType
    <3>3. QED
      BY <3>2
  <2>4. Newest(Answered, n) = Answered
    <3>1. TableInv /\ \A t \in Answered : t \in Issued /\ state[t] = "completed"
      BY <1>1, AnsweredFacts DEF ReportInv
    <3>2. PICK A, m : A = Answered /\ m = page.total
      OBVIOUS
    <3>3. m \in Nat /\ Cardinality(A) \in Nat
      BY <1>1, <3>2, AnsweredFacts DEF ReportInv, ReaderInv, PageType
    <3>4. n >= m
      BY <2>1, <2>3, <3>2 DEF LastPage
    <3>5. Cardinality(A) <= n
      BY <2>2, <3>2, <3>3, <3>4
    <3>6. Newest(A, n) = A
      BY <3>1, <3>2, <3>5, NewestIsFull
    <3>7. QED
      BY <3>2, <3>6
  <2>5. QED
    BY <2>2, <2>3, <2>4 DEF Rows
<1>2. QED
  BY <1>1, ReportInvariant, PTL

(***************************************************************************)
(* For any tickets, filters, answers and lengths of the lists: what a      *)
(* report's headline counted and no other rating took out of the filter is *)
(* in the rest of the report, as far as a list that is not full can show.  *)
(***************************************************************************)
THEOREM CoveredHeadline == ReportSpec => []HeadlineIsCovered
<1>1. ASSUME ReportInv PROVE HeadlineIsCovered
  <2> USE <1>1
  <2>1. MaxTickets \in Nat /\ MaxRows \in Nat /\ MaxSize \in Nat /\ SizeOf(MaxSize) = MaxSize
    BY ReportAssumption DEF SizeOf
  <2>2. TableInv /\ \A t \in Answered : t \in Issued /\ state[t] = "completed"
    BY AnsweredFacts DEF ReportInv
  <2>3. ASSUME query # "summary", query \in Queries \cup {"exportCount", "exportRows"}
        PROVE  /\ headline.total \ withdrawn \subseteq Counted
               /\ headline.completed \ withdrawn \subseteq Completed
               /\ headline.rated \ withdrawn \subseteq Answered
               /\ \A t \in headline.completed : state[t] = "completed"
    BY <2>3 DEF ReportInv, HeadlineHolds
  <2>4. ASSUME NEW A, A \subseteq Answered, NEW n \in Nat
        PROVE  Newest(A, n) = A \/ Cardinality(Newest(A, n)) = n
    BY <2>2, <2>4, NewestIsFull
  <2>5. ASSUME NEW A, A \subseteq Counted PROVE Latest(A) = A \/ Cardinality(Latest(A)) = MaxRows
    <3>1. A \in SUBSET (1 .. MaxTickets)
      BY <2>5 DEF Counted, Issued
    <3>2. QED
      BY <2>1, <3>1, LeadingAreFull DEF Latest, Top, Leading, Above
  <2>6. CASE query = "complaints"
    <3>1. PICK A : A = {t \in Answered : survey[t].rating <= 3}
      OBVIOUS
    <3>2. Complaints = A \/ Cardinality(Complaints) = MaxRows
      BY <2>1, <2>4, <3>1 DEF Complaints
    <3>3. {t \in headline.rated \ withdrawn : survey[t].rating <= 3} \subseteq A
      BY <2>3, <2>6, <3>1 DEF Queries
    <3>4. QED
      BY <2>6, <3>2, <3>3 DEF HeadlineIsCovered
  <2>7. CASE query = "guestBook"
    <3>1. PICK A : A = Counted \cap Guests
      OBVIOUS
    <3>2. GuestBook = A \/ Cardinality(GuestBook) = MaxRows
      BY <2>5, <3>1 DEF GuestBook
    <3>3. (headline.total \ withdrawn) \cap Guests \subseteq A
      BY <2>3, <2>7, <3>1 DEF Queries
    <3>4. QED
      BY <2>7, <3>2, <3>3 DEF HeadlineIsCovered
  <2>8. CASE query = "exportRows"
    <3>1. Newest(Answered, MaxSize) = Answered \/ Cardinality(Newest(Answered, MaxSize)) = MaxSize
      <4>1. PICK A : A = Answered
        OBVIOUS
      <4>2. QED
        BY <2>1, <2>4, <4>1
    <3>2. Newest(Answered, 0) = {}
      <4>1. PICK A, P, b : A = Answered /\ P = Places(A) /\ b = started
        OBVIOUS
      <4>2. b \in Nat /\ P \in SUBSET (1 .. b)
        <5>1. started \in Nat /\ Places(A) \in SUBSET (1 .. started)
          BY <2>1, <2>2, <4>1, NewestIsFull
        <5>2. QED
          BY <4>1, <5>1
      <4>3. Top(P, 0) = {}
        BY <4>2, LeadingOfNone DEF Top, Leading, Above
      <4>4. QED
        BY <4>1, <4>3 DEF Newest
    <3>3. Rows(1, MaxSize) = Newest(Answered, MaxSize)
      <4>1. 1 * MaxSize = MaxSize /\ (1 - 1) * MaxSize = 0
        BY <2>1
      <4>2. QED
        BY <3>2, <4>1 DEF Rows
    <3>4. headline.rated \ withdrawn \subseteq Answered
      BY <2>3, <2>8
    <3>5. Rows(1, SizeOf(MaxSize)) = Rows(1, MaxSize)
      BY <2>1
    <3>6. QED
      BY <2>8, <3>1, <3>3, <3>4, <3>5 DEF HeadlineIsCovered
  <2>9. CASE query = "skipped"
    <3>1. Skipped \subseteq {t \in Issued : state[t] = "skipped"}
      BY DEF Skipped, Latest, Top, Counted
    <3>2. \A t \in headline.completed : state[t] = "completed"
      BY <2>3, <2>9 DEF Queries
    <3>3. Skipped \cap headline.completed = {}
      BY <3>1, <3>2
    <3>4. QED
      BY <2>9, <3>3 DEF HeadlineIsCovered
  <2>10. CASE query \in {"byService", "trend", "staff", "issues"}
    BY <2>3, <2>10 DEF HeadlineIsCovered, Served, Complained, Queries
  <2>11. CASE query \notin {"complaints", "guestBook", "exportRows", "skipped", "byService", "trend", "staff",
                           "issues"}
    BY <2>11 DEF HeadlineIsCovered
  <2>12. QED
    BY <2>6, <2>7, <2>8, <2>9, <2>10, <2>11
<1>2. QED
  BY <1>1, ReportInvariant, PTL

-------------------------------------------------------------------------------
(* The parts together.                                                       *)

(***************************************************************************)
(* A behaviour of the screens is one of each part: they share no state, so *)
(* what is proved of a part holds beside the others.                       *)
(***************************************************************************)
THEOREM ScreensRunBesideEachOther == ScreensSpec => Spec /\ PlaylistSpec /\ ReportSpec
<1>1. ScreensInit => Init /\ PlaylistInit /\ ReportInit
  BY DEF ScreensInit
<1>2. [ScreensNext]_screenVars => [Next]_vars /\ [PlaylistNext]_playlistVars /\ [ReportNext]_reportVars
  BY DEF ScreensNext, screenVars
<1>3. QED
  BY <1>1, <1>2, PTL DEF ScreensSpec, Spec, PlaylistSpec, ReportSpec

(***************************************************************************)
(* Every part stays well typed, whatever the others do: the times on the   *)
(* board, the playlists and their requests, the list of completed tickets  *)
(* and its readers.                                                        *)
(***************************************************************************)
THEOREM ScreensTypes == ScreensSpec => []ScreensTypeOK
<1>1. TypeOK /\ PlaylistTypeOK /\ ReportTypeOK => ScreensTypeOK
  BY DEF ScreensTypeOK
<1>2. QED
  BY <1>1, ScreensRunBesideEachOther, BoardTypes, PlaylistTypes, ReportTypes, PTL

===============================================================================
