----------------------------- MODULE CameraPage -----------------------------
(***************************************************************************)
(* The camera page of the example, for one viewer among others.            *)
(* Ui.CameraState serves its mailbox in order: casts with what the camera  *)
(* daemon has posted, and the calls of two processes of the viewer's.      *)
(* UiWeb.CameraLive fetches the detections and pushes them to the browser, *)
(* UiWeb.CameraController streams the pictures; the browser's player makes *)
(* each one the source of an image, and when that has been loaded draws it *)
(* on a canvas with the detections it has by then.  A GenServer.call of a  *)
(* process that is not there, or dies before it answers, exits in the      *)
(* caller.                                                                 *)
(***************************************************************************)
EXTENDS Integers, Sequences

CONSTANTS
  Scenes,     \* what the camera may see: [frame, results]
  Empty,      \* the empty list of results
  Nil

(* A frame is told from the states of the process that streams it.         *)
ASSUME NilAssumption ==
  /\ Nil \notin {Empty, "ended", "running", "asked"}
  /\ \A s \in Scenes : /\ s.frame \notin {Nil, "ended", "running", "asked"}
                       /\ s.results # Nil

Frames == {s.frame : s \in Scenes}
Results == {s.results : s \in Scenes}

VARIABLES
  scene,
  state, up,   \* Ui.CameraState's state, and whether it runs
  mailbox,     \*   and the messages it has not handled
  live,        \* UiWeb.CameraLive: "gone", "waiting" for its timer, "asked"
               \*   or "answered",
  got,         \*   then with this state
  page,        \* the results and last_results it shows
  stream,      \* UiWeb.CameraController: "ended", "running", "asked", or the
               \*   frame it got
  chunk,       \* the part of the stream that has no part after it yet
  source,      \* the frame that the image is loading
  late,        \* was another replaced while it was loading
  drawing,     \* the script's flag
  canvas       \* the frame and the results drawn

vars == <<scene, state, up, mailbox, live, got, page, stream, chunk, source,
          late, drawing, canvas>>

CameraState == <<state, up, mailbox>>
Page == <<live, got, page>>
Picture == <<source, late, drawing, canvas>>
Stream == <<stream, chunk, Picture>>

NoState == [frame |-> Nil, results |-> Nil, last |-> Nil]
NoResults == [results |-> Nil, last |-> Nil]
NoPicture == [frame |-> Nil, boxes |-> Nil]

(* The messages of Ui.CameraState: calls and casts.                        *)
Request(call) == [kind |-> call, post |-> Nil]
Cast(post) == [kind |-> "update", post |-> post]

Waiting(kind) == {k \in DOMAIN mailbox : mailbox[k].kind = kind}

Init ==
  /\ scene \in Scenes
  /\ state = NoState /\ up = TRUE /\ mailbox = <<>>
  /\ live = "waiting" /\ got = NoState /\ page = NoResults
  /\ stream = "running" /\ chunk = Nil
  /\ source = Nil /\ late = FALSE /\ drawing = FALSE /\ canvas = NoPicture

-----------------------------------------------------------------------------
(* The camera daemon and Ui.CameraState.                                   *)

SceneChanges ==
  /\ scene' \in Scenes \ {scene}
  /\ UNCHANGED <<CameraState, Page, Stream>>

(* A cast to a process that is not there is lost without a word.  The      *)
(* daemon waits for the answer to its request, not for the cast: one more  *)
(* than the one being handled may wait.                                    *)
Post ==
  /\ Waiting("update") = {}
  /\ mailbox' = IF up THEN Append(mailbox, Cast(scene)) ELSE mailbox
  /\ UNCHANGED <<scene, state, up, Page, Stream>>

Receive(message) ==
  /\ up /\ mailbox # <<>>
  /\ Head(mailbox) = message
  /\ mailbox' = Tail(mailbox)

(* Mutants: the latest results are the last, also if there are none; the   *)
(* last are never set.                                                     *)
LastIsLatest(post, last) == post.results
LastNever(post, last) == last
LastResults(post, last) ==
  IF post.results \notin {Nil, Empty} THEN post.results ELSE last

Update(post) ==
  /\ Receive(Cast(post))
  /\ state' = [frame |-> post.frame, results |-> post.results,
               last |-> LastResults(post, state.last)]
  /\ UNCHANGED <<scene, up, Page, Stream>>

Get ==
  /\ Receive(Request("get"))
  /\ live' = "answered" /\ got' = state
  /\ UNCHANGED <<scene, state, up, page, Stream>>

GetFrame ==
  /\ Receive(Request("get_frame"))
  /\ stream' = state.frame
  /\ UNCHANGED <<scene, state, up, Page, chunk, Picture>>

(* Mutant: those who wait for an answer go on waiting.                     *)
ForgetsCallers ==
  /\ up
  /\ up' = FALSE /\ state' = NoState /\ mailbox' = <<>>
  /\ UNCHANGED <<scene, Page, Stream>>

Crash ==
  /\ up
  /\ up' = FALSE /\ state' = NoState /\ mailbox' = <<>>
  /\ live' = IF live = "asked" THEN "gone" ELSE live
  /\ stream' = IF stream = "asked" THEN "ended" ELSE stream
  /\ UNCHANGED <<scene, got, page, chunk, Picture>>

Restart ==
  /\ ~up
  /\ up' = TRUE
  /\ UNCHANGED <<scene, state, mailbox, Page, Stream>>

-----------------------------------------------------------------------------
(* UiWeb.CameraLive.                                                       *)

FetchUpdate ==
  /\ live = "waiting"
  /\ IF up
       THEN live' = "asked" /\ mailbox' = Append(mailbox, Request("get"))
       ELSE live' = "gone" /\ UNCHANGED mailbox
  /\ UNCHANGED <<scene, state, up, got, page, Stream>>

(* Mutant: no further update is scheduled.                                 *)
ShowsOnce ==
  /\ live = "answered"
  /\ page' = [results |-> got.results, last |-> got.last]
  /\ UNCHANGED <<scene, CameraState, live, got, Stream>>

ShowState ==
  /\ live = "answered"
  /\ page' = [results |-> got.results, last |-> got.last]
  /\ live' = "waiting" /\ got' = NoState
  /\ UNCHANGED <<scene, CameraState, Stream>>

Mount == live' = "waiting" /\ got' = NoState /\ page' = NoResults

(* The browser joins again.  The page stays, its scripts are not started.  *)
Rejoin ==
  /\ live = "gone"
  /\ Mount
  /\ UNCHANGED <<scene, CameraState, Stream>>

(* The casts of a mailbox, in their order.                                 *)
OnlyUpdates(box) ==
  LET kept[n \in 0 .. Len(box)] ==
        IF n = 0 THEN <<>>
        ELSE IF box[n].kind = "update" THEN Append(kept[n - 1], box[n])
        ELSE kept[n - 1]
  IN kept[Len(box)]

(* Requests of the old page's processes are answered to nobody.            *)
Reload ==
  /\ Mount
  /\ mailbox' = OnlyUpdates(mailbox)
  /\ stream' = "running" /\ chunk' = Nil
  /\ source' = Nil /\ late' = FALSE /\ drawing' = FALSE /\ canvas' = NoPicture
  /\ UNCHANGED <<scene, state, up>>

-----------------------------------------------------------------------------
(* UiWeb.CameraController and the browser's player.                        *)

AskFrame ==
  /\ stream = "running"
  /\ IF up
       THEN stream' = "asked" /\ mailbox' = Append(mailbox, Request("get_frame"))
       ELSE stream' = "ended" /\ UNCHANGED mailbox
  /\ UNCHANGED <<scene, state, up, Page, chunk, Picture>>

(* Mutant: without a frame the loop is not entered again.                  *)
GivesUp ==
  /\ stream = Nil
  /\ UNCHANGED vars

NoFrame ==
  /\ stream = Nil
  /\ stream' = "running"
  /\ UNCHANGED <<scene, CameraState, Page, chunk, Picture>>

(* The player knows that a frame is complete by what follows it, and so    *)
(* shows the one before.                                                   *)
SendChunk ==
  /\ stream \in Frames
  /\ stream' = "running" /\ chunk' = stream
  /\ IF chunk = Nil
       THEN UNCHANGED <<source, late>>
       ELSE source' = chunk /\ late' = (late \/ source # Nil)
  /\ UNCHANGED <<scene, CameraState, Page, drawing, canvas>>

(* What getDetections reads from the page.                                 *)
Detections == IF page.results = Nil THEN Empty ELSE page.results

(* The image is loaded and its event calls updateCanvas.                   *)
LoadEvent ==
  /\ source # Nil
  /\ source' = Nil /\ late' = FALSE
  /\ canvas' = IF drawing THEN canvas
               ELSE [frame |-> source, boxes |-> Detections]
  /\ UNCHANGED <<scene, CameraState, Page, stream, chunk, drawing>>

(* The event of a source that was replaced meanwhile: updateCanvas finds an*)
(* image that is not complete, and returns without taking back its flag.   *)
LateLoadEvent ==
  /\ late
  /\ late' = FALSE /\ drawing' = TRUE
  /\ UNCHANGED <<scene, CameraState, Page, stream, chunk, source, canvas>>

-----------------------------------------------------------------------------
Serve == Get \/ GetFrame \/ \E s \in Scenes : Update(s)
Live == FetchUpdate \/ ShowState
Play == AskFrame \/ NoFrame \/ SendChunk

Next ==
  \/ SceneChanges \/ Post
  \/ Serve \/ Crash \/ Restart
  \/ Live \/ Rejoin \/ Reload
  \/ Play \/ LoadEvent \/ LateLoadEvent

Spec == Init /\ [][Next]_vars

(* The daemon keeps posting, processes that can run do, supervisors restart*)
(* their children, the browser joins again and loads its images.  Nobody   *)
(* promises the events of images that were replaced.                       *)
FairSpec ==
  /\ Spec
  /\ WF_vars(Post) /\ WF_vars(Serve) /\ WF_vars(Restart)
  /\ WF_vars(Live) /\ WF_vars(Rejoin)
  /\ WF_vars(Play) /\ WF_vars(LoadEvent)

-----------------------------------------------------------------------------
(* Properties.                                                             *)

States ==
  [frame : Frames \cup {Nil}, results : Results \cup {Nil},
   last : (Results \ {Empty}) \cup {Nil}]

TypeOK ==
  /\ scene \in Scenes
  /\ state \in States /\ up \in BOOLEAN
  /\ mailbox \in Seq({Cast(s) : s \in Scenes}
                        \cup {Request(call) : call \in {"get", "get_frame"}})
  /\ live \in {"gone", "waiting", "asked", "answered"} /\ got \in States
  /\ page \in [results : Results \cup {Nil}, last : (Results \ {Empty}) \cup {Nil}]
  /\ stream \in {"ended", "running", "asked", Nil} \cup Frames
  /\ chunk \in Frames \cup {Nil}
  /\ canvas \in [frame : Frames, boxes : Results \cup {Empty}] \cup {NoPicture}
  /\ source \in Frames \cup {Nil} /\ late \in BOOLEAN /\ drawing \in BOOLEAN

(* What the page shows belongs together, across updates that overtake its  *)
(* requests and restarts between them: results with detections are also the*)
(* last results.                                                           *)
PageConsistent ==
  page.results \notin {Nil, Empty} => page.last = page.results

(* Nobody waits in vain: whoever has asked and has no answer has exactly   *)
(* one request in the mailbox of a process that runs.                      *)
NobodyWaitsInVain ==
  /\ live = "asked" =>
       up /\ \E k \in DOMAIN mailbox : Waiting("get") = {k}
  /\ stream = "asked" =>
       up /\ \E k \in DOMAIN mailbox : Waiting("get_frame") = {k}

(* While the camera sees the same and nothing crashes any more, the page   *)
(* ends up showing its detections, whatever crashed before.                *)
Calm == <>[][~Crash /\ ~Reload]_vars

PageFollowsScene ==
  \A s \in Scenes :
    Calm /\ <>[](scene = s) => <>[](page.results = s.results)

(* Then the canvas ends up with the picture of the scene and the boxes that*)
(* belong to it.  Two things can keep it from that until the page is loaded*)
(* again: a crash that has ended the stream, and the event of an image that*)
(* had been replaced, after which updateCanvas draws nothing any more.     *)
PictureFollowsScene ==
  \A s \in Scenes :
    Calm /\ <>[](scene = s) =>
      <>[](\/ stream = "ended" \/ drawing
           \/ canvas = [frame |-> s.frame, boxes |-> s.results])
=============================================================================
