--------------------------- MODULE IpcConnection ---------------------------
(***************************************************************************)
(* One connection of the command line client (crates/cli/src/client.rs) to *)
(* the daemon (handle_unix_client in crates/daemon/src/server.rs; the      *)
(* named pipe of Windows is served by the same loop).  A frame is a length *)
(* and a JSON text (frame.rs).  The client writes a request and takes the  *)
(* next frame for its response; the daemon reads requests, answers them,   *)
(* and writes the events that are broadcast meanwhile into the same        *)
(* stream.                                                                 *)
(*                                                                         *)
(* The daemon waits for a frame and for an event at once, and an event     *)
(* that comes first cancels the read: the parts of a frame that had been   *)
(* read by then are gone.  What it reads next as a length is JSON text,    *)
(* whose first byte makes it larger than MAX_FRAME_SIZE, so that it closes *)
(* the connection.  A request is written in Parts pieces, the length being *)
(* the first; the daemon's frames are written and read whole, as the       *)
(* client waits for nothing else.  The socket has room for what is written *)
(* to it.                                                                  *)
(***************************************************************************)
EXTENDS Naturals, Sequences, FiniteSets

CONSTANTS
    Parts,       \* writes that make up a request
    MaxCalls,    \* bound: requests of the client
    MaxEvents    \* bound: events broadcast

ASSUME IpcAssumption ==
    Parts \in Nat \ {0} /\ MaxCalls \in Nat /\ MaxEvents \in Nat

VARIABLES
    client,    \* where the client is
    calls,     \* requests it has begun
    left,      \* parts of the request it has yet to write
    returned,  \* per call that returned, the frame taken for its response
    inbox,     \* parts on their way to the daemon
    outbox,    \* frames on their way to the client
    daemon,    \* select, handling, or closed
    got,       \* parts read of the current frame
    torn,      \* parts of a frame were read and dropped
    handled,   \* requests handled or in the handler
    answered,  \* responses written
    pending,   \* events in the client's channel
    events     \* events broadcast so far

clientVars == <<client, calls, left, returned>>
daemonVars == <<daemon, got, torn, handled, answered>>
vars == <<clientVars, inbox, outbox, daemonVars, pending, events>>

Event == 0                  \* an event frame; others are responses, by number
Frames == 0..MaxCalls

TypeOK ==
    /\ client \in {"idle", "sending", "waiting", "following", "gone"}
    /\ calls \in 0..MaxCalls
    /\ left \in 0..Parts
    /\ returned \in Seq(Frames) /\ Len(returned) <= calls
    /\ inbox \in 0..MaxCalls * Parts
    /\ outbox \in Seq(Frames)
    /\ daemon \in {"select", "handling", "closed"}
    /\ got \in 0..Parts - 1
    /\ torn \in BOOLEAN
    /\ handled \in 0..calls /\ answered \in 0..handled
    /\ pending \in 0..events /\ events \in 0..MaxEvents

Init ==
    /\ client = "idle" /\ calls = 0 /\ left = 0 /\ returned = <<>>
    /\ inbox = 0 /\ outbox = <<>>
    /\ daemon = "select" /\ got = 0 /\ torn = FALSE
    /\ handled = 0 /\ answered = 0
    /\ pending = 0 /\ events = 0

-----------------------------------------------------------------------------
(* The client                                                              *)

\* send_request
Call ==
    /\ client = "idle"
    /\ calls < MaxCalls
    /\ client' = "sending"
    /\ calls' = calls + 1
    /\ left' = Parts
    /\ UNCHANGED <<returned, inbox, outbox, daemonVars, pending, events>>

\* One write of write_frame; it fails when the daemon has closed, and the
\* client exits.
Write ==
    /\ client = "sending"
    /\ IF daemon = "closed"
       THEN client' = "gone" /\ UNCHANGED <<left, inbox>>
       ELSE /\ inbox' = inbox + 1
            /\ left' = left - 1
            /\ client' = IF left = 1 THEN "waiting" ELSE "sending"
    /\ UNCHANGED <<calls, returned, outbox, daemonVars, pending, events>>

\* The response of a call is the next frame, whatever it is.
Receive ==
    /\ client = "waiting"
    /\ outbox # <<>>
    /\ returned' = Append(returned, Head(outbox))
    /\ outbox' = Tail(outbox)
    /\ client' = "idle"
    /\ UNCHANGED <<calls, left, inbox, daemonVars, pending, events>>

\* follow_events, which prints what is an event.
Follow ==
    /\ client = "idle"
    /\ client' = "following"
    /\ UNCHANGED <<calls, left, returned, inbox, outbox, daemonVars, pending, events>>

FollowNext ==
    /\ client = "following"
    /\ outbox # <<>>
    /\ outbox' = Tail(outbox)
    /\ UNCHANGED <<clientVars, inbox, daemonVars, pending, events>>

\* The end of the stream makes a call fail, and ends follow_events.
EndOfStream ==
    /\ client \in {"waiting", "following"}
    /\ outbox = <<>> /\ daemon = "closed"
    /\ client' = "gone"
    /\ UNCHANGED <<calls, left, returned, inbox, outbox, daemonVars, pending, events>>

\* The process ends, by itself or interrupted.
Quit ==
    /\ client # "gone"
    /\ client' = "gone"
    /\ UNCHANGED <<calls, left, returned, inbox, outbox, daemonVars, pending, events>>

-----------------------------------------------------------------------------
(* The daemon                                                              *)

Close == daemon' = "closed" /\ UNCHANGED <<got, torn, handled, answered>>

\* The parts a poll of read_frame finds, up to the end of the frame.
Ready == IF inbox <= Parts - got THEN inbox ELSE Parts - got

\* Mutant: what follows a dropped read is taken for a frame.
ReadIgnoresTear ==
    /\ daemon = "select"
    /\ inbox > 0
    /\ inbox' = inbox - Ready
    /\ IF got + Ready = Parts
       THEN /\ daemon' = "handling"
            /\ got' = 0
            /\ handled' = handled + 1
            /\ UNCHANGED <<torn, answered>>
       ELSE got' = got + Ready /\ UNCHANGED <<daemon, torn, handled, answered>>
    /\ UNCHANGED <<clientVars, outbox, pending, events>>

\* Mutant: a length of any size is waited for.
ReadAnyLength ==
    /\ daemon = "select"
    /\ inbox > 0
    /\ inbox' = inbox - Ready
    /\ IF torn THEN UNCHANGED daemonVars
       ELSE IF got + Ready = Parts
       THEN /\ daemon' = "handling"
            /\ got' = 0
            /\ handled' = handled + 1
            /\ UNCHANGED <<torn, answered>>
       ELSE got' = got + Ready /\ UNCHANGED <<daemon, torn, handled, answered>>
    /\ UNCHANGED <<clientVars, outbox, pending, events>>

Read ==
    /\ daemon = "select"
    /\ inbox > 0
    /\ inbox' = inbox - Ready
    /\ IF torn THEN Close
       ELSE IF got + Ready = Parts
       THEN /\ daemon' = "handling"
            /\ got' = 0
            /\ handled' = handled + 1
            /\ UNCHANGED <<torn, answered>>
       ELSE got' = got + Ready /\ UNCHANGED <<daemon, torn, handled, answered>>
    /\ UNCHANGED <<clientVars, outbox, pending, events>>

ReadEnd ==
    /\ daemon = "select"
    /\ inbox = 0 /\ client = "gone"
    /\ Close
    /\ UNCHANGED <<clientVars, inbox, outbox, pending, events>>

\* Mutant: a response is given up when an event waits to be written.
ReplyUnlessEvent ==
    /\ daemon = "handling"
    /\ daemon' = "select"
    /\ answered' = answered + 1
    /\ outbox' = IF pending = 0 THEN Append(outbox, handled) ELSE outbox
    /\ UNCHANGED <<clientVars, inbox, got, torn, handled, pending, events>>

\* handle_request returns; its response cannot be written to a client that is
\* gone.
Reply ==
    /\ daemon = "handling"
    /\ IF client = "gone"
       THEN Close /\ UNCHANGED outbox
       ELSE /\ daemon' = "select"
            /\ answered' = answered + 1
            /\ outbox' = Append(outbox, handled)
            /\ UNCHANGED <<got, torn, handled>>
    /\ UNCHANGED <<clientVars, inbox, pending, events>>

\* An event wins the select; a read that had begun is dropped.
ForwardEvent ==
    /\ daemon = "select"
    /\ pending > 0
    /\ pending' = pending - 1
    /\ IF client = "gone"
       THEN Close /\ UNCHANGED outbox
       ELSE /\ torn' = (torn \/ got > 0)
            /\ got' = 0
            /\ outbox' = Append(outbox, Event)
            /\ UNCHANGED <<daemon, handled, answered>>
    /\ UNCHANGED <<clientVars, inbox, events>>

\* broadcast, by any task of the daemon; the client is registered until its
\* connection closes.
Broadcast ==
    /\ daemon # "closed"
    /\ events < MaxEvents
    /\ events' = events + 1
    /\ pending' = pending + 1
    /\ UNCHANGED <<clientVars, inbox, outbox, daemonVars>>

\* The daemon's process ends.
Exit ==
    /\ daemon # "closed"
    /\ Close
    /\ UNCHANGED <<clientVars, inbox, outbox, pending, events>>

-----------------------------------------------------------------------------

Next ==
    \/ Call \/ Write \/ Receive \/ Follow \/ FollowNext \/ EndOfStream \/ Quit
    \/ Read \/ ReadEnd \/ Reply \/ ForwardEvent \/ Broadcast \/ Exit

Spec == Init /\ [][Next]_vars

\* A client that is running goes on, the daemon polls its connections, and a
\* handler returns (those that dial have timeouts).  Nobody need call, follow,
\* quit, broadcast or exit.
FairSpec ==
    /\ Spec
    /\ WF_vars(Write) /\ WF_vars(Receive) /\ WF_vars(EndOfStream)
    /\ WF_vars(Read) /\ WF_vars(Reply)

-----------------------------------------------------------------------------
(* Properties                                                              *)

\* The connection is as good as broken from the moment a frame is torn.
Stream == INSTANCE RequestStream
            WITH asked <- calls, broken <- (torn \/ daemon = "closed")

\* Requests are handled in order and at most once, and answered before the
\* next is handled, in spite of the reads that handle_unix_client drops.
InOrderAtMostOnce == Stream!Spec

\* A call returns the response of an earlier call exactly if earlier calls took
\* events for their responses: it is then behind by as many as they were, and
\* no later call catches up (send_request reads one frame, and looks at no id).
BehindByEvents ==
    \A k \in DOMAIN returned :
        returned[k] # Event =>
            returned[k] = k - Cardinality({i \in 1..k - 1 : returned[i] = Event})

\* Every call returns or fails: a read torn by an event does not leave the
\* client waiting for good.
CallReturns == client \in {"sending", "waiting"} ~> client \in {"idle", "gone"}
=============================================================================
