----------------------------- MODULE Signaling -----------------------------
(***************************************************************************)
(* The signalling of one viewer: the driver of the browser (class          *)
(* WsJsepProtocol), the view that mounts it, and the gateway that connects *)
(* each WebSocket to a session of the Video Bridge.                        *)
(*                                                                         *)
(* The driver runs on the event loop of the browser.  A task (an event, a  *)
(* timer, a promise that settles) starts only when no call of              *)
(* _processSignalQueue can go on by itself (Quiescent).  A call that       *)
(* awaits a peer connection is resumed when that connection answers; as    *)
(* WebRTC has it, the promises of a closed connection never settle.        *)
(* External: WebSockets (ordered, may fail), RTCPeerConnection, the bridge.*)
(***************************************************************************)
EXTENDS Naturals, Sequences, FiniteSets

CONSTANTS
    MaxReconnectAttempts,   \* maxReconnectAttempts of the driver
    MaxStarts,              \* bound: calls of startStream (mounts of the view)
    MaxSignals              \* bound: messages of the bridge in all its sessions

ASSUME SignalingAssumption ==
    MaxReconnectAttempts \in Nat /\ MaxStarts \in Nat \ {0} /\ MaxSignals \in Nat

VARIABLES
    js,         \* the fields of the driver, and the state the view shows
    procs,      \* the calls of _processSignalQueue that are suspended or running
    sock,       \* each WebSocket, as its client end sees it
    toClient,   \* messages on their way to the browser
    toServer,   \* messages on their way to the gateway
    pcs,        \* the RTCPeerConnections created so far
    gw,         \* each handler of the gateway: its stage and its reader task
    starts,     \* calls of startStream so far
    sent        \* messages of the bridge so far

signalingVars == <<js, procs, sock, toClient, toServer, pcs, gw, starts, sent>>

None == 0
Sockets == 1 .. MaxStarts * (MaxReconnectAttempts + 1)
Procs == 1 .. 2     \* bound: more than one is what OneProcessor excludes
Signals == {"offer", "answer", "candidate", "bye"}      \* what the bridge sends
NoCall == [at |-> "idle", pc |-> None, sdp |-> "none"]
Awaiting == {"createOffer", "localOffer", "remote", "createAnswer", "localAnswer"}

SignalingInit ==
    /\ js = [connected |-> FALSE, ws |-> None, pc |-> None, timer |-> FALSE, reconnectAttempts |-> 0,
             signalQueue |-> <<>>, isProcessingSignal |-> FALSE, pendingCandidates |-> 0,
             remoteDescriptionSet |-> FALSE, view |-> "connecting"]
    /\ procs = [p \in Procs |-> NoCall]
    /\ sock = [s \in Sockets |-> "none"]
    /\ toClient = [s \in Sockets |-> <<>>]
    /\ toServer = [s \in Sockets |-> <<>>]
    /\ pcs = <<>>
    /\ gw = [s \in Sockets |-> [stage |-> "none", reader |-> "none"]]
    /\ starts = 0 /\ sent = 0

Quiescent == \A p \in Procs : procs[p].at # "loop"

----------------------------------------------------------------------------
(* Closing and opening.                                                     *)

\* Mutants: a field that is not reset.
KeepsFlag(d) == [d EXCEPT !.signalQueue = <<>>, !.ws = None, !.pc = None, !.pendingCandidates = 0,
                          !.remoteDescriptionSet = FALSE]
KeepsRemote(d) == [d EXCEPT !.signalQueue = <<>>, !.isProcessingSignal = FALSE, !.ws = None, !.pc = None,
                            !.pendingCandidates = 0]

DisconnectState(d) ==
    [d EXCEPT !.signalQueue = <<>>, !.isProcessingSignal = FALSE, !.ws = None, !.pc = None,
              !.pendingCandidates = 0, !.remoteDescriptionSet = FALSE]

Disconnect(d) ==
    [DisconnectState(d) EXCEPT !.connected = FALSE, !.timer = FALSE, !.reconnectAttempts = 0,
                               !.view = "disconnected"]

\* What becomes of the socket and the peer connection the driver lets go.
SocketLet == [s \in Sockets |-> IF s = js.ws THEN "closed" ELSE sock[s]]
PcKept == pcs       \* Mutant: close() is not called.
PcLet == [p \in DOMAIN pcs |-> IF p = js.pc THEN [pcs[p] EXCEPT !.open = FALSE, !.remote = FALSE, !.ice = FALSE]
                             ELSE pcs[p]]
Unsent == [s \in Sockets |-> IF s = js.ws THEN <<>> ELSE toClient[s]]
\* A call that awaits a connection which is closed is never resumed.
Stranded == [p \in Procs |-> IF procs[p].at \in Awaiting /\ procs[p].pc = js.pc THEN NoCall ELSE procs[p]]

Drop == sock' = SocketLet /\ pcs' = PcLet /\ toClient' = Unsent /\ procs' = Stranded

\* _connect: d is the driver after what precedes the call.
Connect(d) ==
    \E s \in Sockets :
        /\ sock[s] = "none" /\ \A t \in Sockets : sock[t] = "none" => s <= t
        /\ sock' = [SocketLet EXCEPT ![s] = "connecting"]
        /\ pcs' = PcLet /\ toClient' = Unsent /\ procs' = Stranded
        /\ js' = [d EXCEPT !.ws = s, !.timer = FALSE]

StartStream ==
    /\ Quiescent /\ starts < MaxStarts
    /\ starts' = starts + 1
    /\ Connect([Disconnect(js) EXCEPT !.connected = TRUE, !.view = "connecting"])
    /\ UNCHANGED <<toServer, gw, sent>>

\* disconnect() by the view when it is unmounted, and cleanup() by the component.
Unmount ==
    /\ Quiescent /\ starts > 0
    /\ Drop /\ js' = Disconnect(js)
    /\ UNCHANGED <<toServer, gw, starts, sent>>

GiveUp == js.reconnectAttempts + 1 > MaxReconnectAttempts

ForgetsTimer(d) == [d EXCEPT !.reconnectAttempts = @ + 1]    \* Mutant: no timer.
Retry(d) == [d EXCEPT !.reconnectAttempts = @ + 1, !.timer = TRUE]

\* _queueReconnect
QueueReconnect ==
    IF ~js.timer /\ GiveUp THEN Drop /\ js' = Disconnect(js)
    ELSE /\ js' = IF js.timer THEN js ELSE Retry(js)
         /\ UNCHANGED <<pcs, toClient, procs>>

ReconnectTimer ==
    /\ Quiescent /\ js.timer
    /\ Connect(DisconnectState(js))
    /\ UNCHANGED <<toServer, gw, starts, sent>>

----------------------------------------------------------------------------
(* Events of the WebSocket.                                                 *)

\* The connection cannot be made or is lost: an error event, then a close event.
HandleWsError(s) ==
    /\ Quiescent /\ s = js.ws /\ sock[s] \in {"connecting", "open"}
    /\ IF js.connected THEN QueueReconnect ELSE Drop /\ js' = Disconnect(js)
    /\ (js'.ws = s) => sock' = [sock EXCEPT ![s] = "failed"]
    /\ UNCHANGED <<toServer, gw, starts, sent>>

\* The close event: after an error, or when the gateway has closed and all is delivered.
HandleWsClose(s) ==
    /\ Quiescent /\ s = js.ws
    /\ \/ sock[s] = "failed"
       \/ sock[s] = "open" /\ gw[s].stage = "done" /\ toClient[s] = <<>>
    /\ IF js.connected THEN QueueReconnect ELSE Drop /\ js' = Disconnect(js)
    /\ (js'.ws = s) => sock' = [sock EXCEPT ![s] = "over"]
    /\ UNCHANGED <<toServer, gw, starts, sent>>

NotBusy == FALSE    \* Mutant: every message starts a loop.
Busy == js.isProcessingSignal

HandleWsMessage(s) ==
    /\ Quiescent /\ s = js.ws /\ sock[s] = "open" /\ toClient[s] # <<>>
    /\ js' = [js EXCEPT !.signalQueue = Append(@, Head(toClient[s])), !.isProcessingSignal = TRUE]
    /\ toClient' = [toClient EXCEPT ![s] = Tail(@)]
    /\ IF Busy THEN UNCHANGED procs
       ELSE \E p \in Procs : /\ procs[p] = NoCall /\ \A q \in Procs : procs[q] = NoCall => p <= q
                             /\ procs' = [procs EXCEPT ![p].at = "loop"]
    /\ UNCHANGED <<sock, toServer, pcs, gw, starts, sent>>

----------------------------------------------------------------------------
(* _processSignalQueue: one signal after another, up to an await.           *)

ProcessSignal(p) == procs[p].at = "loop" /\ js.signalQueue # <<>>
Signal == Head(js.signalQueue)
Shifted == [js EXCEPT !.signalQueue = Tail(@)]
Await(p, what, on, sdp) == procs' = [procs EXCEPT ![p] = [at |-> what, pc |-> on, sdp |-> sdp]]
Go(p) == Await(p, "loop", None, "none")

QueueDone(p) ==
    /\ procs[p].at = "loop" /\ js.signalQueue = <<>>
    /\ procs' = [procs EXCEPT ![p] = NoCall]
    /\ js' = [js EXCEPT !.isProcessingSignal = FALSE]
    /\ UNCHANGED <<sock, toClient, toServer, pcs, gw, starts, sent>>

HandleStart(p) ==
    /\ ProcessSignal(p) /\ Signal = "start"
    /\ pcs' = Append(pcs, [open |-> TRUE, socket |-> js.ws, remote |-> FALSE, early |-> FALSE, ice |-> FALSE])
    /\ js' = [Shifted EXCEPT !.pc = Len(pcs) + 1, !.connected = TRUE]
    /\ Await(p, "createOffer", Len(pcs) + 1, "none")
    /\ UNCHANGED <<sock, toClient, toServer, gw, starts, sent>>

HandleSDP(p) ==
    /\ ProcessSignal(p) /\ Signal \in {"offer", "answer"}
    /\ js' = Shifted
    /\ IF js.pc = None THEN UNCHANGED procs ELSE Await(p, "remote", js.pc, Signal)
    /\ UNCHANGED <<sock, toClient, toServer, pcs, gw, starts, sent>>

\* Candidates given to connection c; .early records one that came before the description.
AddIceCandidate(c) == pcs' = [pcs EXCEPT ![c].early = @ \/ ~pcs[c].remote]

HandleCandidate(p) ==
    /\ ProcessSignal(p) /\ Signal = "candidate"
    /\ IF js.pc # None /\ ~js.remoteDescriptionSet
       THEN js' = [Shifted EXCEPT !.pendingCandidates = @ + 1]
       ELSE js' = Shifted
    /\ IF js.pc # None /\ js.remoteDescriptionSet THEN AddIceCandidate(js.pc) ELSE UNCHANGED pcs
    /\ UNCHANGED <<procs, sock, toClient, toServer, gw, starts, sent>>

HandleBye(p) ==
    /\ ProcessSignal(p) /\ Signal = "bye"
    /\ Drop /\ js' = Disconnect(js)
    /\ UNCHANGED <<toServer, gw, starts, sent>>

----------------------------------------------------------------------------
(* A peer connection answers what a call awaits.                            *)

SendJsep(msg) ==
    IF js.ws # None /\ sock[js.ws] = "open"
    THEN toServer' = [toServer EXCEPT ![js.ws] = Append(@, msg)]
    ELSE UNCHANGED toServer

Settles(p, what) == Quiescent /\ procs[p].at = what /\ pcs[procs[p].pc].open

\* createOffer or createAnswer is done: setLocalDescription on the driver's connection.
DescriptionCreated(p) ==
    /\ \E d \in {<<"createOffer", "localOffer">>, <<"createAnswer", "localAnswer">>} :
          /\ Settles(p, d[1])
          /\ IF js.pc = None THEN Go(p) ELSE Await(p, d[2], js.pc, procs[p].sdp)
    /\ UNCHANGED <<js, sock, toClient, toServer, pcs, gw, starts, sent>>

LocalDescriptionSet(p) ==
    /\ \E d \in {<<"localOffer", "offer">>, <<"localAnswer", "answer">>} :
          /\ Settles(p, d[1])
          /\ IF js.pc = None THEN UNCHANGED toServer ELSE SendJsep([type |-> d[2], pc |-> procs[p].pc])
    /\ Go(p)
    /\ UNCHANGED <<js, sock, toClient, pcs, gw, starts, sent>>

RemoteDescriptionSet(p) ==
    /\ Settles(p, "remote")
    /\ LET done == [pcs EXCEPT ![procs[p].pc].remote = TRUE] IN
       IF js.pc = None THEN Go(p) /\ pcs' = done /\ UNCHANGED js
       ELSE /\ js' = [js EXCEPT !.remoteDescriptionSet = TRUE, !.pendingCandidates = 0]
            /\ pcs' = [done EXCEPT ![js.pc].early = @ \/ (js.pendingCandidates > 0 /\ ~done[js.pc].remote)]
            /\ IF procs[p].sdp = "offer" THEN Await(p, "createAnswer", js.pc, "offer") ELSE Go(p)
    /\ UNCHANGED <<sock, toClient, toServer, gw, starts, sent>>

\* The promise is rejected; the handlers catch it and the loop goes on.
OperationFails(p) ==
    /\ \E what \in Awaiting : Settles(p, what)
    /\ Go(p)
    /\ UNCHANGED <<js, sock, toClient, toServer, pcs, gw, starts, sent>>

----------------------------------------------------------------------------
(* Events of the peer connection: a track, a local candidate, its failure.  *)

PeerEvent == Quiescent /\ js.pc # None

PeerTrack ==
    /\ PeerEvent /\ pcs[js.pc].remote
    /\ js' = [js EXCEPT !.view = "connected"]
    /\ UNCHANGED <<procs, sock, toClient, toServer, pcs, gw, starts, sent>>

PeerIceCandidate ==
    /\ PeerEvent /\ ~pcs[js.pc].ice
    /\ SendJsep([type |-> "candidate", pc |-> js.pc])
    /\ pcs' = [pcs EXCEPT ![js.pc].ice = TRUE]
    /\ UNCHANGED <<js, procs, sock, toClient, gw, starts, sent>>

\* connectionState becomes disconnected or failed.
PeerStateChange ==
    /\ PeerEvent /\ pcs[js.pc].remote
    /\ Drop /\ js' = Disconnect(js)
    /\ UNCHANGED <<toServer, gw, starts, sent>>

----------------------------------------------------------------------------
(* The gateway: handle_websocket_jsep, one run per WebSocket.               *)

Gw(s, new) == gw' = [gw EXCEPT ![s] = new] /\ UNCHANGED <<js, procs, pcs, starts>>
Deliver(s, m) == toClient' = IF sock[s] = "open" THEN [toClient EXCEPT ![s] = Append(@, m)] ELSE toClient

Cancelled(task) == IF task = "none" THEN "none" ELSE "ended"

\* The finally block: the reader is cancelled, the socket closed; what it still holds is lost.
Finally(s) ==
    /\ Gw(s, [stage |-> "done", reader |-> Cancelled(gw[s].reader)])
    /\ toServer' = [toServer EXCEPT ![s] = <<>>]

\* The upgrade; without a channel to the bridge the socket is closed at once.
GwAccept(s) ==
    /\ sock[s] = "connecting"
    /\ sock' = [sock EXCEPT ![s] = "open"]
    /\ \E stage \in {"request", "done"} : Gw(s, [gw[s] EXCEPT !.stage = stage])
    /\ UNCHANGED <<toClient, toServer, sent>>

\* RequestRtcStream returns, "start" is sent and the reader task spawned; or the request or
\* the sending raises.
GwRequest(s) ==
    /\ gw[s].stage = "request"
    /\ \/ Finally(s) /\ UNCHANGED toClient
       \/ /\ sock[s] = "open"
          /\ Gw(s, [stage |-> "serving", reader |-> "reading"])
          /\ Deliver(s, "start") /\ UNCHANGED toServer
    /\ UNCHANGED <<sock, sent>>

\* stream_to_client forwards a message of the bridge.
GwStream(s) ==
    /\ gw[s].reader = "reading" /\ sent < MaxSignals
    /\ \E m \in Signals : Deliver(s, m)
    /\ Gw(s, gw[s]) /\ sent' = sent + 1
    /\ UNCHANGED <<sock, toServer>>

\* An empty message, the end of the stream or an error: the reader ends, the loop does not.
GwStreamEnds(s) ==
    /\ gw[s].reader = "reading"
    /\ Gw(s, [gw[s] EXCEPT !.reader = "ended"])
    /\ UNCHANGED <<sock, toClient, toServer, sent>>

\* A message of the browser goes to the bridge; "bye", or a failing call, ends the loop.
GwReceive(s) ==
    /\ gw[s].stage = "serving" /\ toServer[s] # <<>>
    /\ \/ /\ Head(toServer[s]).type # "bye"
          /\ toServer' = [toServer EXCEPT ![s] = Tail(@)] /\ Gw(s, gw[s])
       \/ Finally(s)
    /\ UNCHANGED <<sock, toClient, sent>>

\* The loop over the messages ends with the socket.
GwClosed(s) ==
    /\ gw[s].stage = "serving" /\ toServer[s] = <<>> /\ sock[s] \in {"closed", "failed", "over"}
    /\ Finally(s)
    /\ UNCHANGED <<sock, toClient, sent>>

----------------------------------------------------------------------------
RunLoop == \E p \in Procs : QueueDone(p) \/ HandleStart(p) \/ HandleSDP(p) \/ HandleCandidate(p) \/ HandleBye(p)
Settle == \E p \in Procs : DescriptionCreated(p) \/ LocalDescriptionSet(p) \/ RemoteDescriptionSet(p)
                           \/ OperationFails(p)
SocketEvent == \E s \in Sockets : HandleWsError(s) \/ HandleWsClose(s) \/ HandleWsMessage(s)
GwStep(s) == GwAccept(s) \/ GwRequest(s) \/ GwReceive(s) \/ GwClosed(s)

SignalingNext ==
    \/ StartStream \/ Unmount \/ ReconnectTimer \/ SocketEvent \/ RunLoop \/ Settle
    \/ PeerTrack \/ PeerIceCandidate \/ PeerStateChange
    \/ \E s \in Sockets : GwStep(s) \/ GwStream(s) \/ GwStreamEnds(s)

SignalingSafeSpec == SignalingInit /\ [][SignalingNext]_signalingVars

\* The event loop and the gateway do what is due: the loop of the signals, a promise, a
\* timer, an event that is there, a step of a handler.  Nothing forces the user or the network.
Due == \/ RunLoop \/ Settle \/ ReconnectTimer
       \/ \E s \in Sockets : HandleWsClose(s) \/ HandleWsMessage(s) \/ GwStep(s)
Fairness == WF_signalingVars(Due)

SignalingSpec == SignalingSafeSpec /\ Fairness

----------------------------------------------------------------------------
(* Properties.                                                              *)

\* Through every reconnect, restart and give-up the driver holds what is open: no socket
\* or peer connection is left behind open, and a driver that is disconnected has no
\* socket, no connection and no timer that would bring it back (ws_jsep_protocol_driver.ts:523, 551).
NothingLeftOpen ==
    /\ \A s \in Sockets : sock[s] \in {"connecting", "open", "failed", "over"} => s = js.ws
    /\ \A p \in DOMAIN pcs : pcs[p].open => p = js.pc
    /\ ~js.connected => js.ws = None /\ js.pc = None /\ ~js.timer

\* Signals are processed one at a time although a reconnect clears the flag under a call
\* that is suspended: of the calls that can still go on there is at most one, and between
\* tasks the flag says whether there is one (ws_jsep_protocol_driver.ts:207, 525).
OneProcessor ==
    LET live == {p \in Procs : procs[p].at = "loop" \/ (procs[p].at \in Awaiting /\ pcs[procs[p].pc].open)}
    IN  Cardinality(live) <= 1 /\ (Quiescent => (js.isProcessingSignal = (live # {})))

\* After an await the driver is still in the session it was in: a description or a
\* candidate goes to the gateway on the socket whose start made the connection, and the
\* bridge's candidates reach a connection only after its remote description
\* (ws_jsep_protocol_driver.ts:312, 391, 440).
OwnSession ==
    /\ \A s \in Sockets : \A i \in DOMAIN toServer[s] : pcs[toServer[s][i].pc].socket = s
    /\ js.remoteDescriptionSet => js.pc # None /\ pcs[js.pc].remote
    /\ \A p \in DOMAIN pcs : ~pcs[p].early

\* A driver that has lost its socket gets a new one or gives up, whatever calls were
\* suspended meanwhile (ws_jsep_protocol_driver.ts:159, 225).
SocketLost == \E s \in Sockets : sock[s] \in {"failed", "over"}
ReconnectsOrGivesUp == SocketLost ~> ~SocketLost

\* Every signal that was queued is processed, or its session is over
\* (ws_jsep_protocol_driver.ts:207).
SignalsProcessed == js.signalQueue # <<>> ~> js.signalQueue = <<>>

=============================================================================
