----------------------------- MODULE RtspBridge -----------------------------
(***************************************************************************)
(* Cameras shown by the Electron player.                                   *)
(*                                                                         *)
(* A view (RtspStreamView with connectRtspStream, apps/web-player/src)     *)
(* asks the main process for a stream through preload.ts and lets its      *)
(* video element read it.  The main process (RtspBridgeMain,               *)
(* apps/electron-player/src/main/rtsp-bridge.ts) opens a local server at   *)
(* the first stream, registers the streams, starts an ffmpeg per request   *)
(* of an element, and stops it when the connection closes, when a view     *)
(* asks to stop the camera, or when the player quits.                      *)
(*                                                                         *)
(* An element belongs to one view; a view may change its camera.  What     *)
(* ffmpeg and the camera say is data.                                      *)
(***************************************************************************)
EXTENDS Naturals, Sequences

CONSTANTS
    Elements,   \* video elements, each mounted once
    Cameras,    \* rtsp urls
    MaxCalls,   \* bound: calls of rtspPlay
    MaxMishaps, \* bound: pages lost, requests broken, servers that do not open
    None

ASSUME BridgeAssumption ==
    /\ None \notin Elements \union Cameras
    /\ MaxCalls \in Nat /\ MaxMishaps \in Nat

VARIABLES
    server,     \* server and port: the port is 0 unless it is open
    streams,    \* streamsByI: the streams that are registered
    processes,  \* processesByI: of each stream the request its ffmpeg answers, 0 for none
    requests,   \* requests of elements for streams, and their ffmpeg
    calls,      \* calls of rtspPlay; each has the stream of its number
    view,       \* the views and their elements
    toMain,     \* messages on their way to the main process
    toPage,     \* answers on their way to the page
    spoiled,    \* history: calls that something named below spoiled
    mishaps,
    up          \* the player has not quit

bridgeVars == <<server, streams, processes, requests, calls, view, toMain, toPage, spoiled,
                mishaps, up>>

Streams == 1..MaxCalls
Requests == Streams \X {1, 2}    \* an element may ask twice for the same stream

\* sent: the main process has not handled it; opening: it waits for the server.
Call == [element : Elements \union {None}, camera : Cameras, port : BOOLEAN,
         at : {"sent", "opening", "answered", "loading", "over"}]
\* call: the latest of the view; src: the stream its element reads.
View == [at : {"new", "mounted", "detached"}, call : 0..MaxCalls, src : 0..MaxCalls,
         status : {"connecting", "playing", "error"}]
\* reader: the element still reads the answer.
Request == [at : {"none", "asked", "refused", "running", "ended", "closed"}, reader : BOOLEAN]
Message == [type : {"start", "stop"}, call : Streams]

Mishap == mishaps < MaxMishaps /\ mishaps' = mishaps + 1
Camera(s) == calls[s].camera
Mounted(e) == view[e].at = "mounted"
IsCurrent(s) == \E e \in Elements : Mounted(e) /\ view[e].call = s

Nothing == [e \in Elements |-> [at |-> "new", call |-> 0, src |-> 0, status |-> "connecting"]]

-----------------------------------------------------------------------------
(* The views.                                                              *)

\* The element stops reading what it reads.
Unread(e) == [r \in Requests |-> IF r[1] = view[e].src THEN [requests[r] EXCEPT !.reader = FALSE]
                                 ELSE requests[r]]

StartOf(s) == [type |-> "start", call |-> s]
StopOf(e) == [type |-> "stop", call |-> view[e].call]

\* What becomes of the call of a view that goes on: nobody hears how its play ends.
Cancelled(e) == [s \in DOMAIN calls |-> IF s = view[e].call /\ calls[s].at = "loading"
                                        THEN [calls[s] EXCEPT !.at = "over"] ELSE calls[s]]

\* connectRtspStream, with the call of rtspPlay that it makes.
Connect(e, c, messages) ==
    LET s == Len(calls) + 1 IN
    /\ s \in Streams
    /\ calls' = Append(Cancelled(e), [element |-> e, camera |-> c, port |-> FALSE, at |-> "sent"])
    /\ view' = [view EXCEPT ![e] = [at |-> "mounted", call |-> s, src |-> 0,
                                    status |-> "connecting"]]
    /\ toMain' = toMain \o Append(messages, StartOf(s))

Mount(e, c) ==
    /\ view[e].at = "new"
    /\ Connect(e, c, <<>>)
    /\ UNCHANGED <<server, streams, processes, requests, toPage, spoiled, mishaps, up>>

\* The effect is cleaned up and runs again for another camera.
ChangeCamera(e, c) ==
    /\ Mounted(e) /\ c # Camera(view[e].call)
    /\ Connect(e, c, <<StopOf(e)>>)
    /\ requests' = Unread(e)
    /\ UNCHANGED <<server, streams, processes, toPage, spoiled, mishaps, up>>

\* Mutant: the view does not say that it stops.
UnmountUntold(e) ==
    /\ Mounted(e)
    /\ view' = [view EXCEPT ![e].at = "detached", ![e].src = 0]
    /\ requests' = Unread(e) /\ calls' = Cancelled(e)
    /\ UNCHANGED <<server, streams, processes, toMain, toPage, spoiled, mishaps, up>>

Unmount(e) ==
    /\ Mounted(e)
    /\ view' = [view EXCEPT ![e].at = "detached", ![e].src = 0]
    /\ requests' = Unread(e) /\ calls' = Cancelled(e)
    /\ toMain' = Append(toMain, StopOf(e))
    /\ UNCHANGED <<server, streams, processes, toPage, spoiled, mishaps, up>>

\* The watchdog loads the page again or makes another window: nothing is cleaned up.
LosePage ==
    /\ Mishap
    /\ view' = [e \in Elements |-> IF Mounted(e) THEN [view[e] EXCEPT !.at = "detached", !.src = 0]
                                   ELSE [view[e] EXCEPT !.src = 0]]
    /\ calls' = [s \in DOMAIN calls |-> [calls[s] EXCEPT !.element = None,
                                                   !.at = IF @ = "loading" THEN "over" ELSE @]]
    /\ requests' = [r \in Requests |-> [requests[r] EXCEPT !.reader = FALSE]]
    /\ UNCHANGED <<server, streams, processes, toMain, toPage, spoiled, up>>

\* rtspPlay goes on: the element reads the stream, whoever it belongs to by now.
ReceiveAnswer ==
    /\ toPage # <<>> /\ toPage' = Tail(toPage)
    /\ LET s == Head(toPage)
           e == calls[s].element
       IN /\ calls' = [calls EXCEPT ![s].at = IF IsCurrent(s) THEN "loading" ELSE "over"]
          /\ IF e = None THEN UNCHANGED <<view, requests>>
             ELSE /\ view' = [view EXCEPT ![e].src = s]
                  /\ requests' = [r \in Requests |->
                                    IF r = <<s, 1>> /\ calls[s].port
                                    THEN [at |-> "asked", reader |-> TRUE] ELSE Unread(e)[r]]
    /\ UNCHANGED <<server, streams, processes, toMain, spoiled, mishaps, up>>

\* An element breaks off its request and makes it again.
AskAgain(s) ==
    /\ Mishap
    /\ requests[<<s, 1>>].reader /\ requests[<<s, 1>>].at \in {"asked", "running"}
    /\ requests' = [requests EXCEPT ![<<s, 1>>].reader = FALSE,
                                    ![<<s, 2>>] = [at |-> "asked", reader |-> TRUE]]
    /\ UNCHANGED <<server, streams, processes, calls, view, toMain, toPage, spoiled, up>>

Reads(s, ats) == \E r \in Requests : r[1] = s /\ requests[r].reader /\ requests[r].at \in ats

\* The promise of play is settled, and onStatus called.
PlaySettles(s, status) ==
    /\ calls[s].at = "loading"
    /\ calls' = [calls EXCEPT ![s].at = "over"]
    /\ view' = [view EXCEPT ![calls[s].element].status = status]
    /\ UNCHANGED <<server, streams, processes, requests, toMain, toPage, spoiled, mishaps, up>>

Plays(s) == Reads(s, {"running"}) /\ PlaySettles(s, "playing")

PlayFails(s) ==
    /\ \/ ~calls[s].port \/ Reads(s, {"refused", "ended", "closed"})
       \/ calls[s].at = "loading" /\ view[calls[s].element].src # s
    /\ PlaySettles(s, "error")

-----------------------------------------------------------------------------
(* The main process.                                                       *)

\* The rest of start, once listen has answered.
Register(s, port) ==
    /\ streams' = streams \union {s}
    /\ calls' = [calls EXCEPT ![s].at = "answered", ![s].port = port]
    /\ toPage' = Append(toPage, s)

HandleStart ==
    /\ toMain # <<>> /\ Head(toMain).type = "start" /\ toMain' = Tail(toMain)
    /\ LET s == Head(toMain).call IN
       \/ /\ server = "none"
          /\ server' = "opening"
          /\ calls' = [calls EXCEPT ![s].at = "opening"]
          /\ UNCHANGED <<streams, toPage, spoiled>>
       \/ /\ server = "open"
          /\ Register(s, TRUE)
          /\ UNCHANGED <<server, spoiled>>
       \/ /\ server \in {"opening", "failed"}    \* there is a server, and its port is 0
          /\ Register(s, FALSE)
          /\ spoiled' = spoiled \union {s}
          /\ UNCHANGED server
    /\ UNCHANGED <<processes, requests, view, mishaps, up>>

Listening ==
    /\ server = "opening" /\ server' = "open"
    /\ \E s \in DOMAIN calls : calls[s].at = "opening" /\ Register(s, TRUE)
    /\ UNCHANGED <<processes, requests, view, toMain, spoiled, mishaps, up>>

ListenFails ==
    /\ Mishap
    /\ server = "opening" /\ server' = "failed"
    /\ \E s \in DOMAIN calls :
         /\ calls[s].at = "opening"
         /\ calls' = [calls EXCEPT ![s].at = "over"]
         /\ view' = [e \in Elements |-> IF Mounted(e) /\ view[e].call = s
                                        THEN [view[e] EXCEPT !.status = "error"] ELSE view[e]]
         /\ spoiled' = spoiled \union {s}
    /\ UNCHANGED <<streams, processes, requests, toMain, toPage, up>>

\* stopStream for each of them: kills the process in the map, if any.
Stopped(ss) ==
    [r \in Requests |-> IF r[1] \in ss /\ processes[r[1]] = r[2] /\ requests[r].at = "running"
                        THEN [requests[r] EXCEPT !.at = "ended"] ELSE requests[r]]
Without(ss) == [s \in Streams |-> IF s \in ss THEN 0 ELSE processes[s]]

\* stopByUrl.  It spoils the streams of that camera that other views show, and the call
\* it belongs to when that is still waiting for the server.
HandleStop ==
    /\ toMain # <<>> /\ Head(toMain).type = "stop" /\ toMain' = Tail(toMain)
    /\ LET t == Head(toMain).call
           ss == {s \in streams : Camera(s) = Camera(t)}
       IN /\ streams' = streams \ ss
          /\ requests' = Stopped(ss)
          /\ processes' = Without(ss)
          /\ spoiled' = spoiled
               \union {s \in ss : IsCurrent(s) /\ calls[s].element # calls[t].element}
               \union {s \in {t} : calls[s].at = "opening"}
    /\ UNCHANGED <<server, calls, view, toPage, mishaps, up>>

\* handleRequest.  Connections of one element are taken in the order it made them.
HandleRequest(r) ==
    /\ requests[r].at = "asked" /\ (r[2] = 2 => requests[<<r[1], 1>>].at # "asked")
    /\ IF r[1] \in streams
       THEN /\ requests' = [requests EXCEPT ![r].at = "running"]
            /\ processes' = [processes EXCEPT ![r[1]] = r[2]]
       ELSE /\ requests' = [requests EXCEPT ![r].at = "refused"]
            /\ UNCHANGED processes
    /\ UNCHANGED <<server, streams, calls, view, toMain, toPage, spoiled, mishaps, up>>

\* Mutants: the entry of the map is removed whosoever it is; it is not removed.
CleanupOfAny(r) ==
    /\ requests' = [requests EXCEPT ![r].at = "closed"]
    /\ processes' = [processes EXCEPT ![r[1]] = 0]

CleanupKeepsEntry(r) ==
    /\ requests' = [requests EXCEPT ![r].at = "closed"]
    /\ UNCHANGED processes

Cleanup(r) ==
    /\ requests' = [requests EXCEPT ![r].at = "closed"]
    /\ processes' = [processes EXCEPT ![r[1]] = IF @ = r[2] THEN 0 ELSE @]

\* The connection is closed: by the element, or after ffmpeg ended the answer.
Close(r) ==
    /\ requests[r].at = "ended" \/ (requests[r].at = "running" /\ ~requests[r].reader)
    /\ Cleanup(r)
    /\ UNCHANGED <<server, streams, calls, view, toMain, toPage, spoiled, mishaps, up>>

\* ffmpeg ends by itself: the camera is lost.  So it is when ffmpeg cannot be started,
\* as far as the element sees; that nobody listens for that error is left out.
Exit(r) ==
    /\ Mishap
    /\ requests[r].at = "running"
    /\ requests' = [requests EXCEPT ![r].at = "ended"]
    /\ spoiled' = spoiled \union {r[1]}
    /\ UNCHANGED <<server, streams, processes, calls, view, toMain, toPage, up>>

\* before-quit: close.  The windows are closed next, and all but the processes is gone.
Quit ==
    /\ requests' = Stopped(Streams)
    /\ processes' = Without(Streams)
    /\ streams' = {} /\ server' = "none"
    /\ calls' = <<>> /\ toMain' = <<>> /\ toPage' = <<>>
    /\ view' = Nothing /\ spoiled' = {}
    /\ up' = FALSE
    /\ UNCHANGED mishaps

-----------------------------------------------------------------------------
BridgeInit ==
    /\ server = "none" /\ streams = {} /\ processes = [s \in Streams |-> 0]
    /\ requests = [r \in Requests |-> [at |-> "none", reader |-> FALSE]]
    /\ calls = <<>>
    /\ view = Nothing
    /\ toMain = <<>> /\ toPage = <<>>
    /\ spoiled = {} /\ mishaps = 0 /\ up = TRUE

Views ==
    \/ \E e \in Elements, c \in Cameras : Mount(e, c) \/ ChangeCamera(e, c)
    \/ \E e \in Elements : Unmount(e)
    \/ \E s \in DOMAIN calls : AskAgain(s) \/ Plays(s) \/ PlayFails(s)
    \/ LosePage \/ ReceiveAnswer

Main ==
    \/ HandleStart \/ HandleStop \/ Listening \/ ListenFails
    \/ \E r \in Requests : HandleRequest(r) \/ Close(r) \/ Exit(r)

BridgeNext == up /\ (Views \/ Main \/ Quit)

\* Messages, answers and connections get through, and the server comes to listen or not.
BridgeFairness ==
    /\ WF_bridgeVars(up /\ ReceiveAnswer)
    /\ WF_bridgeVars(up /\ (HandleStart \/ HandleStop))
    /\ WF_bridgeVars(up /\ (Listening \/ ListenFails))
    /\ \A r \in Requests : WF_bridgeVars(up /\ HandleRequest(r)) /\ WF_bridgeVars(up /\ Close(r))
    /\ \A s \in Streams : WF_bridgeVars(up /\ s \in DOMAIN calls /\ (Plays(s) \/ PlayFails(s)))

BridgeSpec == BridgeInit /\ [][BridgeNext]_bridgeVars /\ BridgeFairness

-----------------------------------------------------------------------------
\* The types, and that no entry of processesByI (rtsp-bridge.ts:86-91) is left of a
\* process whose connection is closed.
BridgeTypeOK ==
    /\ server \in {"none", "opening", "open", "failed"}
    /\ streams \subseteq 1..Len(calls)
    /\ processes \in [Streams -> 0..2]
    /\ requests \in [Requests -> Request]
    /\ calls \in Seq(Call) /\ Len(calls) <= MaxCalls
    /\ view \in [Elements -> View]
    /\ toMain \in Seq(Message) /\ toPage \in Seq(Streams)
    /\ spoiled \subseteq Streams /\ mishaps \in 0..MaxMishaps /\ up \in BOOLEAN
    /\ \A s \in Streams : processes[s] # 0 => requests[<<s, processes[s]>>].at \in {"running", "ended"}

\* A stop of the camera of the request r, or the end of the player, ends the ffmpeg that
\* answers r, if an element reads it.
StopReaches(r) ==
    requests[r].reader /\ requests[r].at = "running"
    /\ \/ up /\ ~up'
       \/ /\ toMain # <<>> /\ Head(toMain).type = "stop" /\ toMain' = Tail(toMain)
          /\ Camera(Head(toMain).call) = Camera(r[1])
    => requests'[r].at # "running"

\* Stopping a camera (stopByUrl) ends every ffmpeg of that camera that an element still
\* reads, and quitting (close) ends them all, whichever of two requests for a stream the map
\* of processes holds: a request made again replaces the entry of the one before, whose
\* connection may close later.
StopsAreComplete == [][\A r \in Requests : StopReaches(r)]_bridgeVars

Shown(e) == view[e].src = view[e].call /\ Reads(view[e].call, {"running"})

\* A view that keeps its camera comes to show it and goes on: its element reads the stream
\* of its own latest call, from a running ffmpeg, and its status says so.  Excepted are views
\* whose call reached a server that was not yet listening, or never will, whose ffmpeg died,
\* or whose camera another view asked to stop.
ViewsPlay ==
    \A e \in Elements :
        <>[](up /\ Mounted(e) => view[e].call \in spoiled
                                 \/ (Shown(e) /\ view[e].status = "playing"))

\* No ffmpeg goes on for nobody: in the end each that runs is read by the element of a
\* mounted view, also after a page was lost without a word and when a view has gone while
\* its stream was being made.  Excepted are calls whose stop came before the server listened.
NoOrphans ==
    \A r \in Requests :
        <>[](up /\ requests[r].at = "running" =>
               r[1] \in spoiled \/ (requests[r].reader /\ IsCurrent(r[1])))

\* What the bridge owes its views, and its views to the machine (rtsp-bridge.ts:46-97,
\* rtspPlayer.ts:26-42, preload.ts:12-20).
CamerasAreServed == ViewsPlay /\ NoOrphans
=============================================================================
