------------------------------- MODULE MCScreens -------------------------------
(***************************************************************************)
(* What screens and dashboards read, checked in one run: the board of the  *)
(* Display TV, the playlists and the reports.  They share no state, so a   *)
(* behaviour exercises one of them, which `part` names, and the others     *)
(* rest in an initial state.                                               *)
(***************************************************************************)
EXTENDS TicketBoard, VideoPlaylist, TicketReports

VARIABLE part

screenVars == <<part, vars, playlistVars, reportVars>>

ScreensInit ==
  /\ part \in {"board", "videos", "reports"}
  /\ Init /\ PlaylistInit /\ ReportInit
  /\ part # "videos" => video = [v \in Videos |-> NotYet]

ScreensNext ==
  /\ UNCHANGED part
  /\ \/ part = "board" /\ Next /\ UNCHANGED <<playlistVars, reportVars>>
     \/ part = "videos" /\ PlaylistNext /\ UNCHANGED <<vars, reportVars>>
     \/ part = "reports" /\ ReportNext /\ UNCHANGED <<vars, playlistVars>>

ScreensSpec == ScreensInit /\ [][ScreensNext]_screenVars

\* Each part is well typed.
ScreensTypeOK == TypeOK /\ PlaylistTypeOK /\ ReportTypeOK

\* A complaint and praise; all tickets, those of a user, those rated 3.
ManySurveys == {[rating |-> 3, issue |-> TRUE], [rating |-> 5, issue |-> FALSE]}

ManyFilters ==
  {[officer |-> Unset, rating |-> Unset], [officer |-> Unset, rating |-> 3]}
    \cup [officer : Officers, rating : {Unset}]

===============================================================================
