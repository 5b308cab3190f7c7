---------------------------- MODULE OutputFanout ----------------------------
(***************************************************************************)
(* The output of one terminal on its way to the phones that watch it       *)
(* (crates/daemon/src/terminal.rs and remote_server.rs).  The terminal's   *)
(* reader appends to a ring buffer and offers the same data to the bounded *)
(* channel of every subscriber, without waiting; a subscriber whose        *)
(* channel is full lags until the reader can send it the ring buffer as    *)
(* HISTORY.  A forwarder task per subscriber moves frames from its channel *)
(* into the queue of its tunnel, which the loop of handle_tunnel empties.  *)
(*                                                                         *)
(* A unit of output is what one frame carries (64 KiB); a flush may be of  *)
(* several, since the reader merges the packets that follow one another    *)
(* within 5 ms.  Units are numbered, a frame carries one.  The subscribers *)
(* and the ring buffer share a lock, which a flush holds until it has      *)
(* offered its last frame; the forwarders need no lock to empty a channel  *)
(* meanwhile.  Left out: stderr, which is not broadcast; NOTIFY frames,    *)
(* questions of agents and REDRAW_REQUEST, which share channels and queue; *)
(* the end of the terminal.  The tunnel's outbound channel may wedge.      *)
(***************************************************************************)
EXTENDS Naturals, Sequences

CONSTANTS
  Pairings,   \* paired phones
  Tunnels,    \* connections of handle_tunnel, each used once
  Channels,   \* subscriber channels with their forwarder, each used once
  ChanCap,    \* capacity of a subscriber's channel (256)
  QueueCap,   \* capacity of a tunnel's async queue (256)
  HistCap,    \* units the ring buffer holds (256 KB, 4 or 5 frames)
  MaxBurst,   \* largest flush
  MaxOut      \* bound: units of output in a behaviour

ASSUME OutputFanoutAssumption ==
  /\ Pairings # {} /\ Tunnels # {}
  /\ ChanCap \in Nat \ {0} /\ QueueCap \in Nat \ {0}
  /\ HistCap \in Nat \ {0} /\ HistCap <= ChanCap
  /\ MaxBurst \in Nat \ {0} /\ MaxOut \in Nat

VARIABLES
  out,       \* units the terminal has put out
  history,   \* RingBuffer: the first unit of every piece it holds
  subs,      \* remote_subscribers, each by its channel
  lagging,   \* the subscribers with RemoteSubscriber.lagging
  work,      \* frames of the flush under way still to be offered to a channel
  chan,      \* frames in a subscriber's channel
  taken,     \* the last frame its forwarder took out (only for the properties)
  fwd,       \* where the forwarder is: in recv(), in send(), or ended
  tun,       \* the tunnel it forwards to; any, while unused
  owner,     \* pairing_id of a tunnel; any, while unused
  tunnel,    \* where handle_tunnel is: its loop, the reply to LIST_REQUEST, or
             \* a send that it will not get through
  queue      \* frames in the async queue of a tunnel

terminal == <<out, history>>
tunnels  == <<owner, tunnel, queue>>
vars     == <<terminal, subs, lagging, work, chan, taken, fwd, tun, tunnels>>

Frames ==
  [kind : {"output", "history"}, unit : 0 .. MaxOut, seq : 0 .. HistCap, last : BOOLEAN]

TypeOK ==
  /\ out \in 0 .. MaxOut
  /\ history \subseteq 1 .. out
  /\ \A s \in history : out - s < HistCap
  /\ subs \subseteq Channels
  /\ lagging \subseteq subs
  /\ work \in [Channels -> Seq(Frames)]
  /\ chan \in [Channels -> Seq(Frames)]
  /\ \A c \in Channels : Len(chan[c]) <= ChanCap
  /\ taken \in [Channels -> Frames]
  /\ fwd \in [Channels -> {"unused", "recv", "send", "ended"}]
  /\ tun \in [Channels -> Tunnels]
  /\ owner \in [Tunnels -> Pairings]
  /\ tunnel \in [Tunnels -> {"unused", "loop", "list", "wedged", "closed"}]
  /\ queue \in [Tunnels -> 0 .. QueueCap]

----------------------------------------------------------------------------
(* Frames and the ring buffer.                                             *)

Output(u)          == [kind |-> "output", unit |-> u, seq |-> 0, last |-> TRUE]
History(u, s, end) == [kind |-> "history", unit |-> u, seq |-> s, last |-> end]

PushOneTooMany(h, o, n) == {s \in h \cup {o + 1} : o + n - s <= HistCap}   \* mutant
\* RingBuffer::push: while there are more than HistCap units, the oldest piece
\* goes, the new one as well if it is larger than the buffer.
Push(h, o, n) == {s \in h \cup {o + 1} : o + n - s < HistCap}

\* The first unit the ring buffer holds.
Oldest(h) == CHOOSE s \in h : \A r \in h : s <= r

Snapshot(h, o) ==
  IF h = {} THEN <<>>
  ELSE [i \in 1 .. o + 1 - Oldest(h) |->
          History(Oldest(h) + i - 1, i - 1, Oldest(h) + i - 1 = o)]

Pieces(o, n) == [i \in 1 .. n |-> Output(o + i)]

Room(q) == ChanCap - Len(q)

----------------------------------------------------------------------------
Init ==
  /\ out = 0 /\ history = {}
  /\ subs = {}
  /\ lagging = {}
  /\ work = [c \in Channels |-> <<>>]
  /\ chan = [c \in Channels |-> <<>>]
  /\ taken = [c \in Channels |-> Output(0)]
  /\ fwd = [c \in Channels |-> "unused"]
  /\ tun = [c \in Channels |-> CHOOSE t \in Tunnels : TRUE]
  /\ owner = [t \in Tunnels |-> CHOOSE p \in Pairings : TRUE]
  /\ tunnel = [t \in Tunnels |-> "unused"]
  /\ queue = [t \in Tunnels |-> 0]

----------------------------------------------------------------------------
(* A flush of the terminal's reader, which holds the subscribers' lock.     *)

\* A send to a channel whose forwarder has ended fails and changes nothing.
Open(c) == fwd[c] # "ended"

\* No flush is under way.
Unlocked == \A c \in Channels : work[c] = <<>>

LagsNoMore == {}   \* mutant: clears the flag without looking
\* A subscriber that lags does so until its channel has any room.
StillLagging == {c \in lagging : Room(chan[c]) = 0}

OfferDataOnly(c, n) == Pieces(out, n)   \* mutant: no recovery
\* What the reader has for a subscriber: the data, or if it lags HISTORY.
Offer(c, n) ==
  IF c \notin lagging THEN Pieces(out, n)
  ELSE IF Room(chan[c]) = 0 THEN <<>>
  ELSE Snapshot(Push(history, out, n), out + n)

\* The reader flushes n units of what it has merged.  It looks at one subscriber
\* after another; but only a channel's own forwarder changes the channel
\* meanwhile, so it may as well have looked at all of them at once.
Flush(n) ==
  /\ Unlocked
  /\ out + n <= MaxOut
  /\ out' = out + n
  /\ history' = Push(history, out, n)
  /\ lagging' = StillLagging
  /\ work' = [c \in Channels |-> IF c \in subs THEN Offer(c, n) ELSE <<>>]
  /\ UNCHANGED <<subs, chan, taken, fwd, tun, tunnels>>

\* try_send of the next frame, which fits.
OfferFits(c) ==
  /\ work[c] # <<>> /\ Open(c) /\ Room(chan[c]) > 0
  /\ chan' = [chan EXCEPT ![c] = Append(@, Head(work[c]))]
  /\ work' = [work EXCEPT ![c] = Tail(@)]
  /\ UNCHANGED <<terminal, subs, lagging, taken, fwd, tun, tunnels>>

\* The channel is full: a chunk of a snapshot is lost, and the next one is tried;
\* a piece of data makes the subscriber lag, and the rest is not tried.
OfferFails(c) ==
  /\ work[c] # <<>> /\ Open(c) /\ Room(chan[c]) = 0
  /\ \/ /\ Head(work[c]).kind = "history"
        /\ work' = [work EXCEPT ![c] = Tail(@)]
        /\ UNCHANGED lagging
     \/ /\ Head(work[c]).kind = "output"
        /\ work' = [work EXCEPT ![c] = <<>>]
        /\ lagging' = lagging \cup {c}
  /\ UNCHANGED <<terminal, subs, chan, taken, fwd, tun, tunnels>>

\* The forwarder has ended: every try_send fails.
OfferClosed(c) ==
  /\ work[c] # <<>> /\ ~Open(c)
  /\ work' = [work EXCEPT ![c] = <<>>]
  /\ UNCHANGED <<terminal, subs, lagging, chan, taken, fwd, tun, tunnels>>

----------------------------------------------------------------------------
(* The tunnel loop and the requests of the phone it serves.                *)

OpenTunnel(t, p) ==
  /\ tunnel[t] = "unused" /\ t = CHOOSE u \in Tunnels : tunnel[u] = "unused"
  /\ tunnel' = [tunnel EXCEPT ![t] = "loop"]
  /\ owner' = [owner EXCEPT ![t] = p]
  /\ UNCHANGED <<terminal, subs, lagging, work, chan, taken, fwd, tun, queue>>

\* Mutant: forgets those of a tunnel that is gone.
SubsOfLive(p) == {c \in subs : owner[tun[c]] = p /\ tunnel[tun[c]] # "closed"}
SubsOf(p) == {c \in subs : owner[tun[c]] = p}

\* SUBSCRIBE: in place of the pairing's old subscriber comes a new one, whose
\* channel starts with the ring buffer's content, all of which fits; then its
\* forwarder is spawned.
Subscribe(t, c) ==
  /\ tunnel[t] = "loop" /\ Unlocked
  /\ fwd[c] = "unused" /\ c = CHOOSE d \in Channels : fwd[d] = "unused"
  /\ subs' = (subs \ SubsOf(owner[t])) \cup {c}
  /\ lagging' = lagging \ SubsOf(owner[t])
  /\ chan' = [chan EXCEPT ![c] = Snapshot(history, out)]
  /\ taken' = [taken EXCEPT ![c] = Output(out)]
  /\ fwd' = [fwd EXCEPT ![c] = "recv"]
  /\ tun' = [tun EXCEPT ![c] = t]
  /\ UNCHANGED <<terminal, work, tunnels>>

\* UNSUBSCRIBE, and revoke_pairing, which needs no tunnel.
Unsubscribe(p) ==
  /\ Unlocked
  /\ subs' = subs \ SubsOf(p)
  /\ lagging' = lagging \ SubsOf(p)
  /\ UNCHANGED <<terminal, work, chan, taken, fwd, tun, tunnels>>

\* LIST_REQUEST: the loop itself waits for room in the queue it empties.
ListRequest(t) ==
  /\ tunnel[t] = "loop"
  /\ tunnel' = [tunnel EXCEPT ![t] = "list"]
  /\ UNCHANGED <<terminal, subs, lagging, work, chan, taken, fwd, tun, owner, queue>>

ListResponse(t) ==
  /\ tunnel[t] = "list"
  /\ queue[t] < QueueCap
  /\ queue' = [queue EXCEPT ![t] = @ + 1]
  /\ tunnel' = [tunnel EXCEPT ![t] = "loop"]
  /\ UNCHANGED <<terminal, subs, lagging, work, chan, taken, fwd, tun, owner>>

\* The loop encrypts a frame of its queue and sends it to the phone.
SendFrame(t) ==
  /\ tunnel[t] = "loop"
  /\ queue[t] > 0
  /\ queue' = [queue EXCEPT ![t] = @ - 1]
  /\ UNCHANGED <<terminal, subs, lagging, work, chan, taken, fwd, tun, owner, tunnel>>

\* The loop waits for room in the tunnel's outbound channel, or for room in its
\* own queue, and gets none: the bridge may be waiting for the loop to take what
\* the phone sent, and the answers to other requests go into the queue as well.
Wedge(t) ==
  /\ tunnel[t] = "loop"
  /\ tunnel' = [tunnel EXCEPT ![t] = "wedged"]
  /\ UNCHANGED <<terminal, subs, lagging, work, chan, taken, fwd, tun, owner, queue>>

\* GOODBYE, a failure, or the relay's end: the subscribers stay as they are.
CloseTunnel(t) ==
  /\ tunnel[t] \in {"loop", "wedged"}
  /\ tunnel' = [tunnel EXCEPT ![t] = "closed"]
  /\ queue' = [queue EXCEPT ![t] = 0]
  /\ UNCHANGED <<terminal, subs, lagging, work, chan, taken, fwd, tun, owner>>

----------------------------------------------------------------------------
(* The forwarder of a subscriber's channel.                                *)

Take(c) ==
  /\ fwd[c] = "recv" /\ chan[c] # <<>>
  /\ taken' = [taken EXCEPT ![c] = Head(chan[c])]
  /\ chan' = [chan EXCEPT ![c] = Tail(@)]
  /\ fwd' = [fwd EXCEPT ![c] = "send"]
  /\ UNCHANGED <<terminal, subs, lagging, work, tun, tunnels>>

Forward(c) ==
  /\ fwd[c] = "send"
  /\ tunnel[tun[c]] # "closed"
  /\ queue[tun[c]] < QueueCap
  /\ queue' = [queue EXCEPT ![tun[c]] = @ + 1]
  /\ fwd' = [fwd EXCEPT ![c] = "recv"]
  /\ UNCHANGED <<terminal, subs, lagging, work, chan, taken, tun, owner, tunnel>>

\* send() fails: the task ends and its end of the channel is dropped.
ForwardFails(c) ==
  /\ fwd[c] = "send" /\ tunnel[tun[c]] = "closed"
  /\ fwd' = [fwd EXCEPT ![c] = "ended"]
  /\ chan' = [chan EXCEPT ![c] = <<>>]
  /\ taken' = [taken EXCEPT ![c] = Output(0)]
  /\ UNCHANGED <<terminal, subs, lagging, work, tun, tunnels>>

\* Mutant: a phone's forwarders share one sender.
ForwardEndsAllGone(c) ==
  /\ fwd[c] = "recv" /\ chan[c] = <<>> /\ SubsOf(owner[tun[c]]) = {}
  /\ fwd' = [fwd EXCEPT ![c] = "ended"]
  /\ taken' = [taken EXCEPT ![c] = Output(0)]
  /\ UNCHANGED <<terminal, subs, lagging, work, chan, tun, tunnels>>

\* recv() returns None: the subscriber is gone and the channel empty.
ForwardEnds(c) ==
  /\ fwd[c] = "recv" /\ chan[c] = <<>> /\ c \notin subs
  /\ fwd' = [fwd EXCEPT ![c] = "ended"]
  /\ taken' = [taken EXCEPT ![c] = Output(0)]
  /\ UNCHANGED <<terminal, subs, lagging, work, chan, tun, tunnels>>

----------------------------------------------------------------------------
Next ==
  \/ \E n \in 1 .. MaxBurst : Flush(n)
  \/ \E c \in Channels : OfferFits(c) \/ OfferFails(c) \/ OfferClosed(c)
  \/ \E t \in Tunnels, p \in Pairings : OpenTunnel(t, p)
  \/ \E t \in Tunnels, c \in Channels : Subscribe(t, c)
  \/ \E p \in Pairings : Unsubscribe(p)
  \/ \E t \in Tunnels : ListRequest(t) \/ ListResponse(t) \/ SendFrame(t)
                         \/ Wedge(t) \/ CloseTunnel(t)
  \/ \E c \in Channels : Take(c) \/ Forward(c) \/ ForwardFails(c) \/ ForwardEnds(c)

Spec == Init /\ [][Next]_vars

Loop(t)      == ListResponse(t) \/ SendFrame(t)
Forwarder(c) == Take(c) \/ Forward(c) \/ ForwardFails(c) \/ ForwardEnds(c)

\* Tasks that can go on do.  tokio serves the senders that wait for room in the
\* order they came, so a forwarder is not passed over for ever; its other steps
\* stay possible until they are taken.
Fairness ==
  /\ \A t \in Tunnels : WF_vars(Loop(t))
  /\ \A c \in Channels : SF_vars(Forwarder(c))

FairSpec == Spec /\ Fairness

----------------------------------------------------------------------------
(* Properties.                                                             *)

\* The frame before the i-th of a channel, and the last one that was sent to it.
Before(c, i) == IF i = 1 THEN taken[c] ELSE chan[c][i - 1]
LastOf(c) == IF chan[c] = <<>> THEN taken[c] ELSE chan[c][Len(chan[c])]

\* g may come after f: a new snapshot, which makes the phone clear its screen; a
\* later chunk of f's snapshot, their numbers telling how many are missing; the
\* unit that follows; or a later unit after a snapshot whose end is missing.
Follows(f, g) ==
  \/ g.kind = "history" /\ g.seq = 0
  \/ /\ g.kind = "history" /\ f.kind = "history"
     /\ g.seq > f.seq /\ g.unit - f.unit = g.seq - f.seq
  \/ g.kind = "output" /\ g.unit = f.unit + 1
  \/ g.kind = "output" /\ ~f.last /\ g.unit > f.unit

\* What is missing in a channel shows in the frames around it (try_send, lagging
\* and the recovery of forward_and_broadcast, while the forwarder empties the
\* channel): output that a full channel loses is replaced by a snapshot, and the
\* chunks of a snapshot that are lost are missing between two HISTORY frames whose
\* seq tells so, or at the end, after a HISTORY frame that is not the last one.
\* No unit comes twice but in a new snapshot.  (What the phones make of it is
\* another matter: they clear the screen at seq 0 and append the rest.)  It needs
\* flushes no larger than the ring buffer: a larger one leaves it empty, and the
\* recovery sends nothing.
NoSilentGap ==
  \A c \in Channels : \A i \in 1 .. Len(chan[c]) : Follows(Before(c, i), chan[c][i])

\* The lagging flag of forward_and_broadcast is exact between two flushes: a
\* subscriber that is reachable and was last sent the end of a snapshot or a piece
\* lags if and only if the terminal has put out more than that.
LaggingExact ==
  \A c \in subs : Open(c) /\ work[c] = <<>> /\ LastOf(c).last =>
    (c \in lagging <=> LastOf(c).unit # out)

\* A phone has one subscriber at most, however often it subscribes, reconnects
\* and leaves tunnels behind (the retain of subscribe_remote).
OneSubscription ==
  \A c, d \in subs : owner[tun[c]] = owner[tun[d]] => c = d

\* Parts of the inductive invariant: a subscriber has a forwarder and a tunnel
\* that were started, and was sent nothing that is not output yet.
SubsStarted == \A c \in subs : fwd[c] # "unused" /\ tunnel[tun[c]] # "unused"
SentIsOut   == \A c \in subs : Open(c) => LastOf(c).unit <= out
WorkOwned   == \A c \in Channels : work[c] # <<>> => c \in subs

\* What a flush has still to offer are the newest units, to one that does not lag.
WorkNewest ==
  \A c \in subs : \A i \in 1 .. Len(work[c]) :
    /\ c \notin lagging
    /\ work[c][i].unit = out - Len(work[c]) + i
    /\ work[c][i].kind = work[c][1].kind
    /\ work[c][i].last <=> work[c][i].kind = "output" \/ i = Len(work[c])
    /\ work[c][i].kind = "history" => work[c][i].seq = work[c][1].seq + i - 1

\* Its first frame may come after the last one sent; the first of a snapshot fits.
WorkFollows ==
  \A c \in subs : Open(c) /\ work[c] # <<>> =>
    LET f == LastOf(c)
        g == work[c][1]
    IN  \/ g.kind = "output" /\ f.unit < g.unit /\ (f.last => g.unit = f.unit + 1)
        \/ g.kind = "history" /\ g.seq = 0 /\ Room(chan[c]) > 0
        \/ /\ g.kind = "history" /\ f.kind = "history" /\ ~f.last
           /\ g.seq > f.seq /\ g.unit - f.unit = g.seq - f.seq

GapInv == SentIsOut /\ NoSilentGap /\ LaggingExact /\ WorkNewest /\ WorkFollows
IInv   == TypeOK /\ OneSubscription /\ SubsStarted /\ WorkOwned /\ GapInv

\* The loop of handle_tunnel waits for room that only it could make, or that the
\* bridge makes only once the loop goes on.
Stuck(t) == tunnel[t] = "wedged" \/ (tunnel[t] = "list" /\ queue[t] = QueueCap)

\* The forwarder of a subscriber that was replaced or removed delivers what is
\* left and ends; nothing but a stuck tunnel can keep it.
RemovedForwarderEnds ==
  \A c \in Channels :
    (c \notin subs /\ fwd[c] \in {"recv", "send"}) ~> (fwd[c] = "ended" \/ Stuck(tun[c]))
=============================================================================
