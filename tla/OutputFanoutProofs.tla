------------------------- MODULE OutputFanoutProofs -------------------------
(***************************************************************************)
(* Proofs about OutputFanout, for any number of phones, tunnels, channels  *)
(* and capacities: types, one subscriber for a phone and, if no flush is   *)
(* larger than the ring buffer, an exact lagging flag and no silent gap.   *)
(***************************************************************************)
EXTENDS OutputFanout, WellFoundedInduction, SequenceTheorems, TLAPS

USE OutputFanoutAssumption

----------------------------------------------------------------------------
(* The operators on the ring buffer and on channels.                       *)

Less == {ss \in Nat \X Nat : ss[1] < ss[2]}

\* The order of the naturals is well-founded.
LEMMA LessWellFounded == IsWellFoundedOn(Less, Nat)
  BY NatLessThanWellFounded, Zenon DEF OpToRel, Less

\* A ring buffer that holds something has an oldest unit.
LEMMA OldestExists ==
  ASSUME NEW h, h \subseteq Nat, h # {}
  PROVE  Oldest(h) \in h /\ \A r \in h : Oldest(h) <= r
<1>1. PICK s \in h : \A r \in h : ~(<<r, s>> \in Less)
  BY LessWellFounded, WFMin
<1>2. ASSUME NEW r \in h PROVE s <= r
  <2>1. ~(r < s)
    BY <1>1 DEF Less
  <2> QED
    BY <2>1
<1> QED
  BY <1>2 DEF Oldest

\* The frames w are a snapshot of the newest units up to o, or pieces up to o.
IsSnapshot(w, o) ==
  \A i \in 1 .. Len(w) :
    /\ w[i].kind = "history" /\ w[i].unit = o - Len(w) + i
    /\ w[i].seq = i - 1 /\ (w[i].last <=> i = Len(w))

ArePieces(w, o) ==
  \A i \in 1 .. Len(w) : w[i].kind = "output" /\ w[i].unit = o - Len(w) + i /\ w[i].last

\* A frame less in a channel leaves more room.
LEMMA MoreRoom ==
  ASSUME NEW m \in Nat, ChanCap - m > 0
  PROVE  ChanCap - (m - 1) > 0
  OBVIOUS

\* A snapshot is made of the newest units, numbered from 0, with only the last
\* frame marked; it fits into the number of units the ring buffer holds.
LEMMA SnapshotFrames ==
  ASSUME NEW o \in 0 .. MaxOut, NEW h, h \subseteq 1 .. o, \A s \in h : o - s < HistCap
  PROVE  /\ Snapshot(h, o) \in Seq(Frames)
         /\ Len(Snapshot(h, o)) <= HistCap
         /\ h = {} => Snapshot(h, o) = <<>>
         /\ h # {} => Len(Snapshot(h, o)) > 0
         /\ IsSnapshot(Snapshot(h, o), o)
<1>1. CASE h = {}
  BY <1>1 DEF Snapshot, IsSnapshot
<1>2. CASE h # {}
  <2> DEFINE k == o + 1 - Oldest(h)
             S == [i \in 1 .. k |->
                    History(Oldest(h) + i - 1, i - 1, Oldest(h) + i - 1 = o)]
  <2>1. Oldest(h) \in 1 .. o /\ o - Oldest(h) < HistCap
    <3>1. h \subseteq Nat
      OBVIOUS
    <3>2. Oldest(h) \in h
      BY <1>2, <3>1, OldestExists
    <3> QED
      BY <3>2
  <2>2. k \in 1 .. HistCap
    BY <2>1
  <2>3. ASSUME NEW i \in 1 .. k
        PROVE  /\ History(Oldest(h) + i - 1, i - 1, Oldest(h) + i - 1 = o) \in Frames
               /\ Oldest(h) + i - 1 = o - k + i /\ (Oldest(h) + i - 1 = o <=> i = k)
    <3>1. Oldest(h) + i - 1 \in 0 .. MaxOut /\ i - 1 \in 0 .. HistCap
      BY <2>1, <2>2
    <3>2. Oldest(h) + i - 1 = o - k + i /\ (Oldest(h) + i - 1 = o <=> i = k)
      BY <2>1, <2>2
    <3> QED
      BY <3>1, <3>2 DEF History, Frames
  <2> HIDE DEF k
  <2>4. S \in Seq(Frames) /\ Len(S) = k
    BY <2>2, <2>3
  <2>5. Snapshot(h, o) = S
    BY <1>2 DEF Snapshot, k
  <2>6. ASSUME NEW i \in 1 .. k
        PROVE  /\ S[i].kind = "history" /\ S[i].unit = o - k + i
               /\ S[i].seq = i - 1 /\ (S[i].last <=> i = k)
    <3>1. /\ S[i].kind = "history" /\ S[i].unit = Oldest(h) + i - 1
          /\ S[i].seq = i - 1 /\ (S[i].last <=> Oldest(h) + i - 1 = o)
      BY DEF History
    <3> HIDE DEF S
    <3> QED
      BY <2>3, <3>1
  <2> HIDE DEF S
  <2>7. k <= HistCap /\ k > 0
    BY <2>2
  <2> QED
    BY <1>2, <2>4, <2>5, <2>6, <2>7 DEF IsSnapshot
<1> QED
  BY <1>1, <1>2

\* Pushing keeps the ring buffer's window, and the new piece unless it is larger.
LEMMA PushWindow ==
  ASSUME NEW o \in Nat, NEW n \in Nat \ {0}, NEW h, h \subseteq 1 .. o
  PROVE  /\ Push(h, o, n) \subseteq 1 .. o + n
         /\ \A s \in Push(h, o, n) : o + n - s < HistCap
         /\ n <= HistCap => o + 1 \in Push(h, o, n)
<1>1. \A s \in h \cup {o + 1} : s \in 1 .. o + n
  OBVIOUS
<1>2. n <= HistCap => o + n - (o + 1) < HistCap
  OBVIOUS
<1> QED
  BY <1>1, <1>2 DEF Push

\* The pieces of a flush are frames.
LEMMA PiecesFrames ==
  ASSUME NEW o \in Nat, NEW n \in Nat, o + n <= MaxOut
  PROVE  /\ Pieces(o, n) \in Seq(Frames) /\ Len(Pieces(o, n)) = n
         /\ ArePieces(Pieces(o, n), o + n)
<1>1. \A i \in 1 .. n : Output(o + i) \in Frames
  BY DEF Output, Frames
<1>2. Pieces(o, n) \in Seq(Frames) /\ Len(Pieces(o, n)) = n
  BY <1>1 DEF Pieces
<1>3. \A i \in 1 .. n : o + n - n + i = o + i
  OBVIOUS
<1>4. ASSUME NEW i \in 1 .. n
      PROVE  /\ Pieces(o, n)[i].kind = "output" /\ Pieces(o, n)[i].unit = o + i
             /\ Pieces(o, n)[i].last
  BY DEF Pieces, Output
<1> QED
  BY <1>2, <1>3, <1>4 DEF ArePieces

\* What is left of a sequence of frames after its first.
LEMMA TailFrames ==
  ASSUME NEW s \in Seq(Frames), s # <<>>
  PROVE  /\ Head(s) = s[1] /\ Head(s) \in Frames
         /\ Tail(s) \in Seq(Frames)
         /\ Len(s) \in Nat \ {0} /\ Len(Tail(s)) = Len(s) - 1
         /\ \A i \in 1 .. Len(Tail(s)) : Tail(s)[i] = s[i + 1]
  OBVIOUS

\* A frame put behind the others.
LEMMA AppendFrames ==
  ASSUME NEW s \in Seq(Frames), NEW f \in Frames
  PROVE  /\ Append(s, f) \in Seq(Frames) /\ Len(s) \in Nat
         /\ Len(Append(s, f)) = Len(s) + 1 /\ Append(s, f) # <<>>
         /\ Append(s, f)[Len(s) + 1] = f
         /\ \A i \in 1 .. Len(s) : Append(s, f)[i] = s[i]
  OBVIOUS

----------------------------------------------------------------------------
(* Types, for every step.                                                  *)

\* The initial state is well typed.
LEMMA FanoutInitType == Init => TypeOK
<1> SUFFICES ASSUME Init PROVE TypeOK
  OBVIOUS
<1>1. Output(0) \in Frames
  BY DEF Output, Frames
<1>2. (CHOOSE t \in Tunnels : TRUE) \in Tunnels /\ (CHOOSE p \in Pairings : TRUE) \in Pairings
  OBVIOUS
<1>3. <<>> \in Seq(Frames) /\ Len(<<>>) = 0
  OBVIOUS
<1>4. /\ chan \in [Channels -> Seq(Frames)] /\ \A c \in Channels : Len(chan[c]) <= ChanCap
      /\ work \in [Channels -> Seq(Frames)]
  BY <1>3 DEF Init
<1>5. /\ out \in 0 .. MaxOut /\ history \subseteq 1 .. out
      /\ \A s \in history : out - s < HistCap
  BY DEF Init
<1>6. taken \in [Channels -> Frames] /\ tun \in [Channels -> Tunnels] /\ owner \in [Tunnels -> Pairings]
  BY <1>1, <1>2 DEF Init
<1>7. /\ fwd \in [Channels -> {"unused", "recv", "send", "ended"}]
      /\ tunnel \in [Tunnels -> {"unused", "loop", "list", "wedged", "closed"}]
      /\ queue \in [Tunnels -> 0 .. QueueCap]
      /\ subs \subseteq Channels /\ lagging \subseteq subs
  BY DEF Init
<1> QED
  BY <1>4, <1>5, <1>6, <1>7 DEF TypeOK

\* The ring buffer as a flush of n units finds and leaves it.
LEMMA FlushWindow ==
  ASSUME TypeOK, NEW n \in 1 .. MaxBurst, out + n <= MaxOut
  PROVE  /\ out \in Nat /\ n \in Nat \ {0} /\ out + n \in 0 .. MaxOut
         /\ Push(history, out, n) \subseteq 1 .. out + n
         /\ \A s \in Push(history, out, n) : out + n - s < HistCap
         /\ n <= HistCap => out + 1 \in Push(history, out, n)
<1>1. out \in Nat /\ n \in Nat \ {0} /\ out + n \in 0 .. MaxOut /\ history \subseteq 1 .. out
  BY DEF TypeOK
<1> QED
  BY <1>1, PushWindow

\* What is offered to a subscriber is a sequence of frames.
LEMMA OfferFrames ==
  ASSUME TypeOK, NEW n \in 1 .. MaxBurst, out + n <= MaxOut, NEW c \in Channels
  PROVE  Offer(c, n) \in Seq(Frames)
<1>1. <<>> \in Seq(Frames)
  OBVIOUS
<1>2. Pieces(out, n) \in Seq(Frames)
  BY FlushWindow, PiecesFrames
<1>3. Snapshot(Push(history, out, n), out + n) \in Seq(Frames)
  BY FlushWindow, SnapshotFrames
<1> QED
  BY <1>1, <1>2, <1>3 DEF Offer

\* A flush keeps the types, and offers to subscribers only.
LEMMA FlushType ==
  ASSUME TypeOK, NEW n \in 1 .. MaxBurst, Flush(n)
  PROVE  TypeOK' /\ WorkOwned'
<1>1. out + n <= MaxOut /\ out' = out + n /\ history' = Push(history, out, n)
  BY DEF Flush
<1>2. /\ out' \in 0 .. MaxOut /\ history' \subseteq 1 .. out'
      /\ \A s \in history' : out' - s < HistCap
  BY <1>1, FlushWindow
<1>3. work' \in [Channels -> Seq(Frames)] /\ \A c \in Channels : work'[c] # <<>> => c \in subs'
  <2>1. \A c \in Channels : Offer(c, n) \in Seq(Frames)
    BY <1>1, OfferFrames
  <2>2. work' = [c \in Channels |-> IF c \in subs THEN Offer(c, n) ELSE <<>>] /\ subs' = subs
    BY DEF Flush
  <2>3. <<>> \in Seq(Frames)
    OBVIOUS
  <2> QED
    BY <2>1, <2>2, <2>3
<1>4. lagging' \subseteq subs'
  BY DEF Flush, StillLagging, TypeOK
<1> QED
  BY <1>2, <1>3, <1>4 DEF Flush, tunnels, TypeOK, WorkOwned

\* So does the offer of one frame.
LEMMA OfferType ==
  ASSUME TypeOK, WorkOwned, NEW c \in Channels, OfferFits(c) \/ OfferFails(c) \/ OfferClosed(c)
  PROVE  TypeOK' /\ WorkOwned'
<1> DEFINE w == work[c]
<1>1. w \in Seq(Frames) /\ w # <<>> /\ c \in subs
  BY DEF TypeOK, WorkOwned, OfferFits, OfferFails, OfferClosed
<1>2. Head(w) \in Frames /\ Tail(w) \in Seq(Frames) /\ <<>> \in Seq(Frames)
  <2> HIDE DEF w
  <2> QED
    BY <1>1, TailFrames
<1>3. work' = [work EXCEPT ![c] = work'[c]] /\ work'[c] \in {Tail(w), <<>>} /\ subs' = subs
  BY DEF OfferFits, OfferFails, OfferClosed, TypeOK
<1> HIDE DEF w
<1>4. work' \in [Channels -> Seq(Frames)] /\ WorkOwned'
  <2>1. work'[c] \in Seq(Frames) /\ work \in [Channels -> Seq(Frames)]
    BY <1>2, <1>3 DEF TypeOK
  <2>2. work' \in [Channels -> Seq(Frames)] /\ \A d \in Channels : d # c => work'[d] = work[d]
    BY <1>3, <2>1
  <2> QED
    BY <1>1, <1>3, <2>2 DEF WorkOwned
<1>5. CASE OfferFits(c)
  <2>1. /\ chan[c] \in Seq(Frames) /\ Room(chan[c]) > 0
        /\ chan' = [chan EXCEPT ![c] = Append(chan[c], Head(w))]
    BY <1>5 DEF OfferFits, TypeOK, w
  <2>2. /\ Append(chan[c], Head(w)) \in Seq(Frames)
        /\ Len(Append(chan[c], Head(w))) = Len(chan[c]) + 1 /\ Len(chan[c]) \in Nat
    BY <1>2, <2>1, AppendFrames
  <2>3. Len(chan[c]) + 1 <= ChanCap
    BY <2>1, <2>2, OutputFanoutAssumption DEF Room
  <2>4. chan' \in [Channels -> Seq(Frames)] /\ \A d \in Channels : Len(chan'[d]) <= ChanCap
    BY <2>1, <2>2, <2>3 DEF TypeOK
  <2> QED
    BY <1>4, <1>5, <2>4 DEF OfferFits, TypeOK, terminal, tunnels
<1>6. CASE OfferFails(c)
  BY <1>1, <1>4, <1>6 DEF OfferFails, TypeOK, terminal, tunnels
<1>7. CASE OfferClosed(c)
  BY <1>4, <1>7 DEF OfferClosed, TypeOK, terminal, tunnels
<1> QED
  BY <1>5, <1>6, <1>7

\* A subscription keeps the types: the whole snapshot fits its channel.
LEMMA SubscribeType ==
  ASSUME TypeOK, NEW t \in Tunnels, NEW c \in Channels, Subscribe(t, c)
  PROVE  TypeOK' /\ WorkOwned'
<1> DEFINE S == Snapshot(history, out)
<1>1. S \in Seq(Frames) /\ Len(S) <= ChanCap
  <2>1. /\ out \in 0 .. MaxOut /\ history \subseteq 1 .. out
        /\ \A s \in history : out - s < HistCap
    BY DEF TypeOK
  <2>2. S \in Seq(Frames) /\ Len(S) <= HistCap
    BY <2>1, SnapshotFrames
  <2> QED
    BY <2>2
<1>2. chan' = [chan EXCEPT ![c] = S]
  BY DEF Subscribe
<1> HIDE DEF S
<1> USE DEF TypeOK
<1>3. Output(out) \in Frames
  BY DEF Output, Frames
<1>4. chan' \in [Channels -> Seq(Frames)] /\ \A d \in Channels : Len(chan'[d]) <= ChanCap
  BY <1>1, <1>2
<1>5. lagging' \subseteq subs' /\ subs' \subseteq Channels
  BY DEF Subscribe
<1>6. WorkOwned'
  BY DEF Subscribe, Unlocked, WorkOwned
<1> QED
  BY <1>3, <1>4, <1>5, <1>6 DEF Subscribe, terminal, tunnels

\* Every step keeps the types.
LEMMA FanoutNextType == TypeOK /\ WorkOwned /\ [Next]_vars => TypeOK' /\ WorkOwned'
<1> SUFFICES ASSUME TypeOK, WorkOwned, [Next]_vars PROVE TypeOK' /\ WorkOwned'
  OBVIOUS
<1> USE DEF terminal, tunnels
<1>1. CASE \E n \in 1 .. MaxBurst : Flush(n)
  BY <1>1, FlushType
<1>2. CASE \E c \in Channels : OfferFits(c) \/ OfferFails(c) \/ OfferClosed(c)
  BY <1>2, OfferType
<1>3. CASE \E t \in Tunnels, p \in Pairings : OpenTunnel(t, p)
  BY <1>3 DEF OpenTunnel, TypeOK, WorkOwned
<1>4. CASE \E t \in Tunnels, c \in Channels : Subscribe(t, c)
  BY <1>4, SubscribeType
<1>5. CASE \E p \in Pairings : Unsubscribe(p)
  BY <1>5 DEF Unsubscribe, Unlocked, TypeOK, WorkOwned
<1>6. CASE \E t \in Tunnels : ListRequest(t) \/ ListResponse(t) \/ SendFrame(t)
                              \/ Wedge(t) \/ CloseTunnel(t)
  <2>0. WorkOwned'
    BY <1>6 DEF ListRequest, ListResponse, SendFrame, Wedge, CloseTunnel, WorkOwned
  <2> PICK t \in Tunnels : ListRequest(t) \/ ListResponse(t) \/ SendFrame(t)
                           \/ Wedge(t) \/ CloseTunnel(t)
    BY <1>6
  <2>1. CASE ListRequest(t) \/ Wedge(t)
    <3>1. PICK s \in {"list", "wedged"} : tunnel' = [tunnel EXCEPT ![t] = s]
      BY <2>1 DEF ListRequest, Wedge
    <3>2. UNCHANGED <<terminal, subs, lagging, work, chan, taken, fwd, tun, owner, queue>>
      BY <2>1 DEF ListRequest, Wedge
    <3> QED
      BY <2>0, <3>1, <3>2 DEF TypeOK
  <2>2. CASE ListResponse(t)
    BY <2>0, <2>2 DEF ListResponse, TypeOK
  <2>3. CASE SendFrame(t)
    BY <2>0, <2>3 DEF SendFrame, TypeOK
  <2>4. CASE CloseTunnel(t)
    <3>1. queue' = [queue EXCEPT ![t] = 0] /\ tunnel' = [tunnel EXCEPT ![t] = "closed"]
      BY <2>4 DEF CloseTunnel
    <3>2. UNCHANGED <<terminal, subs, lagging, work, chan, taken, fwd, tun, owner>>
      BY <2>4 DEF CloseTunnel
    <3> QED
      BY <2>0, <3>1, <3>2 DEF TypeOK
  <2> QED
    BY <2>1, <2>2, <2>3, <2>4
<1>7. CASE \E c \in Channels : Take(c) \/ Forward(c) \/ ForwardFails(c) \/ ForwardEnds(c)
  <2> PICK c \in Channels : Take(c) \/ Forward(c) \/ ForwardFails(c) \/ ForwardEnds(c)
    BY <1>7
  <2>1. CASE Take(c)
    <3>1. /\ Head(chan[c]) \in Frames /\ Tail(chan[c]) \in Seq(Frames)
          /\ Len(Tail(chan[c])) <= ChanCap
      BY <2>1 DEF Take, TypeOK
    <3> QED
      BY <2>1, <3>1 DEF Take, TypeOK, WorkOwned
  <2>2. CASE Forward(c)
    BY <2>2 DEF Forward, TypeOK, WorkOwned
  <2>3. Output(0) \in Frames /\ <<>> \in Seq(Frames) /\ Len(<<>>) = 0
    BY DEF Output, Frames
  <2>4. CASE ForwardFails(c)
    BY <2>3, <2>4 DEF ForwardFails, TypeOK, WorkOwned
  <2>5. CASE ForwardEnds(c)
    BY <2>3, <2>5 DEF ForwardEnds, TypeOK, WorkOwned
  <2> QED
    BY <2>1, <2>2, <2>4, <2>5
<1>8. CASE UNCHANGED vars
  BY <1>8 DEF vars, TypeOK, WorkOwned
<1> QED
  BY <1>1, <1>2, <1>3, <1>4, <1>5, <1>6, <1>7, <1>8 DEF Next

\* A flush under way is about subscribers.
LEMMA FanoutTypes == Spec => [](TypeOK /\ WorkOwned)
<1>1. Init => TypeOK /\ WorkOwned
  BY FanoutInitType DEF Init, WorkOwned
<1> QED
  BY <1>1, FanoutNextType, PTL DEF Spec

\* Every variable keeps its type: no channel and no queue passes its capacity,
\* and the ring buffer keeps its size, for every capacity.
THEOREM FanoutTypeCorrect == Spec => []TypeOK
  BY FanoutTypes, PTL

----------------------------------------------------------------------------
(* One subscriber for a phone.                                             *)

\* Every step keeps a phone's subscriber the only one, and a subscriber bound to
\* a forwarder and a tunnel that were started.
LEMMA SubscribersStep ==
  TypeOK /\ OneSubscription /\ SubsStarted /\ [Next]_vars => OneSubscription' /\ SubsStarted'
<1> SUFFICES ASSUME TypeOK, OneSubscription, SubsStarted, [Next]_vars
             PROVE  OneSubscription' /\ SubsStarted'
  OBVIOUS
<1> USE DEF OneSubscription, SubsStarted, TypeOK, terminal, tunnels
<1>1. CASE \/ \E n \in 1 .. MaxBurst : Flush(n)
           \/ \E c \in Channels : OfferFits(c) \/ OfferFails(c) \/ OfferClosed(c)
  BY <1>1 DEF Flush, OfferFits, OfferFails, OfferClosed
<1>2. CASE \E t \in Tunnels, p \in Pairings : OpenTunnel(t, p)
  BY <1>2 DEF OpenTunnel
<1>3. CASE \E t \in Tunnels, c \in Channels : Subscribe(t, c)
  <2> PICK t \in Tunnels, c \in Channels : Subscribe(t, c)
    BY <1>3
  <2>1. ASSUME NEW d \in subs', d # c
        PROVE  /\ d \in subs /\ tun'[d] = tun[d] /\ fwd'[d] = fwd[d]
               /\ owner[tun[d]] # owner[t]
    BY <2>1 DEF Subscribe, SubsOf
  <2>2. tun'[c] = t /\ fwd'[c] = "recv" /\ tunnel[t] = "loop" /\ owner' = owner /\ tunnel' = tunnel
    BY DEF Subscribe
  <2>3. ASSUME NEW d \in subs', NEW e \in subs', owner'[tun'[d]] = owner'[tun'[e]]
        PROVE  d = e
    <3>1. CASE d # c /\ e # c
      <4>1. owner[tun[d]] = owner[tun[e]] /\ d \in subs /\ e \in subs
        BY <2>1, <2>2, <2>3, <3>1
      <4> QED
        BY <4>1
    <3>2. CASE d = c \/ e = c
      BY <2>1, <2>2, <2>3, <3>2
    <3> QED
      BY <3>1, <3>2
  <2>4. \A d \in subs' : fwd'[d] # "unused" /\ tunnel'[tun'[d]] # "unused"
    BY <2>1, <2>2
  <2> QED
    BY <2>3, <2>4
<1>4. CASE \E p \in Pairings : Unsubscribe(p)
  BY <1>4 DEF Unsubscribe
<1>5. CASE \E t \in Tunnels : ListRequest(t) \/ ListResponse(t) \/ SendFrame(t)
                              \/ Wedge(t) \/ CloseTunnel(t)
  <2> PICK t \in Tunnels : ListRequest(t) \/ ListResponse(t) \/ SendFrame(t)
                           \/ Wedge(t) \/ CloseTunnel(t)
    BY <1>5
  <2>1. UNCHANGED <<subs, fwd, tun, owner>>
    BY DEF ListRequest, ListResponse, SendFrame, Wedge, CloseTunnel
  <2>2. \A u \in Tunnels : tunnel'[u] = "unused" => tunnel[u] = "unused"
    BY DEF ListRequest, ListResponse, SendFrame, Wedge, CloseTunnel
  <2> QED
    BY <2>1, <2>2
<1>6. CASE \E c \in Channels : Take(c) \/ Forward(c) \/ ForwardFails(c) \/ ForwardEnds(c)
  BY <1>6 DEF Take, Forward, ForwardFails, ForwardEnds
<1>7. CASE UNCHANGED vars
  BY <1>7 DEF vars
<1> QED
  BY <1>1, <1>2, <1>3, <1>4, <1>5, <1>6, <1>7 DEF Next

\* A phone has at most one subscriber, for any number of phones and tunnels.
THEOREM FanoutOneSubscription == Spec => []OneSubscription
<1>1. Init => OneSubscription /\ SubsStarted
  BY DEF Init, OneSubscription, SubsStarted
<1>2. TypeOK /\ OneSubscription /\ SubsStarted /\ [Next]_vars => OneSubscription' /\ SubsStarted'
  BY SubscribersStep
<1> QED
  BY <1>1, <1>2, FanoutTypeCorrect, PTL DEF Spec

----------------------------------------------------------------------------
(* No silent gap, if no flush is larger than the ring buffer.              *)

\* What GapInv says of one subscriber whose forwarder runs.
ChannelOK(c) ==
  /\ LastOf(c).unit <= out
  /\ work[c] = <<>> /\ LastOf(c).last => (c \in lagging <=> LastOf(c).unit # out)
  /\ work[c] # <<>> =>
       LET f == LastOf(c)
           g == work[c][1]
       IN  \/ g.kind = "output" /\ f.unit < g.unit /\ (f.last => g.unit = f.unit + 1)
           \/ g.kind = "history" /\ g.seq = 0 /\ Room(chan[c]) > 0
           \/ /\ g.kind = "history" /\ f.kind = "history" /\ ~f.last
              /\ g.seq > f.seq /\ g.unit - f.unit = g.seq - f.seq

\* GapInv by subscribers.
LEMMA GapByChannel ==
  GapInv <=> /\ NoSilentGap /\ WorkNewest
             /\ \A c \in subs : Open(c) => ChannelOK(c)
  BY DEF GapInv, ChannelOK, SentIsOut, LaggingExact, WorkFollows

\* The same of the next state.
LEMMA GapByChannelNext ==
  ASSUME NoSilentGap', WorkNewest', \A c \in subs' : Open(c)' => ChannelOK(c)'
  PROVE  GapInv'
  BY DEF GapInv, ChannelOK, SentIsOut, LaggingExact, WorkFollows

\* The last frame sent is a frame.
LEMMA LastFrame ==
  ASSUME TypeOK, NEW c \in Channels
  PROVE  LastOf(c) \in Frames
<1>1. chan[c] \in Seq(Frames) /\ taken[c] \in Frames
  BY DEF TypeOK
<1>2. chan[c] # <<>> => chan[c][Len(chan[c])] \in Frames
  BY <1>1
<1> QED
  BY <1>1, <1>2 DEF LastOf

\* What a flush has for a subscriber: the n new pieces, the snapshot from its
\* first chunk, or nothing if the subscriber lags and its channel is full.
LEMMA OfferedFrames ==
  ASSUME MaxBurst <= HistCap, TypeOK, NEW n \in 1 .. MaxBurst, out + n <= MaxOut,
         NEW c \in Channels
  PROVE  /\ Offer(c, n) \in Seq(Frames)
         /\ c \notin lagging => Len(Offer(c, n)) = n /\ ArePieces(Offer(c, n), out + n)
         /\ c \in lagging /\ Room(chan[c]) = 0 => Offer(c, n) = <<>>
         /\ c \in lagging /\ Room(chan[c]) # 0 =>
              Len(Offer(c, n)) > 0 /\ IsSnapshot(Offer(c, n), out + n)
<1>1. /\ out \in Nat /\ n \in Nat \ {0} /\ n <= HistCap /\ out + n \in 0 .. MaxOut
      /\ Offer(c, n) \in Seq(Frames)
  BY FlushWindow, OfferFrames, OutputFanoutAssumption
<1>2. CASE c \notin lagging
  BY <1>1, <1>2, PiecesFrames DEF Offer
<1>3. CASE c \in lagging /\ Room(chan[c]) = 0
  BY <1>1, <1>3 DEF Offer
<1>4. CASE c \in lagging /\ Room(chan[c]) # 0
  <2> DEFINE h == Push(history, out, n)
             o == out + n
  <2>1. Offer(c, n) = Snapshot(h, o)
    BY <1>4 DEF Offer
  <2>2. h # {} /\ o \in 0 .. MaxOut /\ h \subseteq 1 .. o /\ \A s \in h : o - s < HistCap
    BY <1>1, FlushWindow
  <2>3. Offer(c, n) \in Seq(Frames)
    BY <1>1
  <2>4. Len(Offer(c, n)) > 0 /\ IsSnapshot(Offer(c, n), o)
    <3> HIDE DEF h, o
    <3> QED
      BY <2>1, <2>2, SnapshotFrames
  <2> QED
    BY <1>4, <2>3, <2>4
<1> QED
  BY <1>2, <1>3, <1>4

\* A flush: what it has to offer to a subscriber continues what was sent to it.
LEMMA FlushChannel ==
  ASSUME MaxBurst <= HistCap, TypeOK, GapInv,
         NEW n \in 1 .. MaxBurst, Flush(n), NEW c \in subs
  PROVE  /\ Open(c)' => ChannelOK(c)'
         /\ \A i \in 1 .. Len(work'[c]) :
              /\ c \notin lagging'
              /\ work'[c][i].unit = out' - Len(work'[c]) + i
              /\ work'[c][i].kind = work'[c][1].kind
              /\ work'[c][i].last <=> work'[c][i].kind = "output" \/ i = Len(work'[c])
              /\ work'[c][i].kind = "history" => work'[c][i].seq = work'[c][1].seq + i - 1
<1> DEFINE w == work'[c]
           k == Len(w)
<1>1. /\ c \in Channels /\ out \in Nat /\ n \in Nat \ {0} /\ out + n <= MaxOut /\ out' = out + n
      /\ w = Offer(c, n) /\ chan' = chan /\ taken' = taken /\ fwd' = fwd /\ subs' = subs
      /\ work[c] = <<>>
      /\ c \in lagging' <=> c \in lagging /\ Room(chan[c]) = 0
  BY DEF TypeOK, Flush, StillLagging, Unlocked
<1>2. /\ w \in Seq(Frames)
      /\ c \notin lagging => k = n /\ ArePieces(w, out')
      /\ c \in lagging /\ Room(chan[c]) = 0 => w = <<>>
      /\ c \in lagging /\ Room(chan[c]) # 0 => k > 0 /\ IsSnapshot(w, out')
  BY <1>1, OfferedFrames, Zenon
<1>3. Room(chan[c]) \in Nat
  BY <1>1, OutputFanoutAssumption DEF Room, TypeOK
<1>4. /\ LastOf(c)' = LastOf(c) /\ (Open(c)' <=> Open(c)) /\ Room(chan[c])' = Room(chan[c])
      /\ LastOf(c).unit \in Nat /\ LastOf(c).last \in BOOLEAN
  <2>1. LastOf(c) \in Frames
    BY <1>1, LastFrame
  <2> QED
    BY <1>1, <2>1 DEF LastOf, Open, Room, Frames
<1>5. Open(c) => LastOf(c).unit <= out /\ (LastOf(c).last => (c \in lagging <=> LastOf(c).unit # out))
  BY <1>1 DEF GapInv, SentIsOut, LaggingExact
<1> HIDE DEF w, k
<1>6. k = Len(w) /\ k \in Nat
  BY <1>2 DEF k
<1>7. CASE c \notin lagging
  <2>1. /\ w # <<>> /\ c \notin lagging' /\ k = n
        /\ \A i \in 1 .. k : /\ w[i].kind = "output" /\ w[i].last
                             /\ w[i].unit = out' - k + i
    BY <1>1, <1>2, <1>6, <1>7 DEF ArePieces
  <2>2. w[1].kind = "output" /\ w[1].unit = out + 1
    BY <1>1, <1>2, <2>1
  <2>3. Open(c)' => ChannelOK(c)'
    BY <1>1, <1>4, <1>5, <1>7, <2>1, <2>2 DEF ChannelOK, w
  <2> QED
    BY <2>1, <2>2, <2>3 DEF w, k
<1>8. CASE c \in lagging /\ Room(chan[c]) = 0
  <2>1. w = <<>> /\ k = 0 /\ c \in lagging'
    BY <1>1, <1>2, <1>6, <1>8
  <2>2. Open(c)' => ChannelOK(c)'
    BY <1>1, <1>4, <1>5, <2>1 DEF ChannelOK, w
  <2> QED
    BY <2>1, <2>2 DEF w, k
<1>9. CASE c \in lagging /\ Room(chan[c]) # 0
  <2>1. /\ w # <<>> /\ c \notin lagging' /\ k > 0
        /\ \A i \in 1 .. k : /\ w[i].kind = "history" /\ (w[i].last <=> i = k)
                             /\ w[i].unit = out' - k + i /\ w[i].seq = i - 1
    BY <1>1, <1>2, <1>6, <1>9 DEF IsSnapshot
  <2>2. w[1].kind = "history" /\ w[1].seq = 0 /\ Room(chan[c]) > 0
    <3>1. 1 \in 1 .. k /\ Room(chan[c]) > 0
      BY <1>3, <1>6, <1>9, <2>1
    <3> QED
      BY <2>1, <3>1
  <2>3. Open(c)' => ChannelOK(c)'
    BY <1>1, <1>4, <1>5, <2>1, <2>2 DEF ChannelOK, w
  <2>4. ASSUME NEW i \in 1 .. k
        PROVE  /\ w[i].kind = w[1].kind
               /\ w[i].last <=> w[i].kind = "output" \/ i = k
               /\ w[i].seq = w[1].seq + i - 1
    <3>1. /\ w[i].kind = "history" /\ (w[i].last <=> i = k) /\ w[i].seq = i - 1
          /\ w[1].kind = "history" /\ w[1].seq = 0
      BY <2>1, <2>2
    <3>2. i - 1 = 0 + i - 1
      BY <1>6
    <3> QED
      BY <3>1, <3>2
  <2> QED
    BY <2>1, <2>3, <2>4 DEF w, k
<1> QED
  BY <1>7, <1>8, <1>9

\* A frame that follows the last one is put behind it; nothing else is changed.
LEMMA AppendChannel ==
  ASSUME TypeOK, NoSilentGap, NEW c \in Channels, NEW g \in Frames, Follows(LastOf(c), g),
         chan' = [chan EXCEPT ![c] = Append(chan[c], g)], taken' = taken
  PROVE  /\ LastOf(c)' = g
         /\ \A d \in Channels : d # c => LastOf(d)' = LastOf(d) /\ chan'[d] = chan[d]
         /\ NoSilentGap'
<1> DEFINE q == chan[c]
           r == chan'[c]
<1>1. q \in Seq(Frames) /\ r = Append(q, g)
  BY DEF TypeOK
<1>2. /\ r \in Seq(Frames) /\ Len(q) \in Nat /\ Len(r) = Len(q) + 1 /\ r # <<>>
      /\ r[Len(q) + 1] = g /\ \A i \in 1 .. Len(q) : r[i] = q[i]
  <2> HIDE DEF q, r
  <2> QED
    BY <1>1, AppendFrames
<1>3. \A i \in 1 .. Len(q) : Follows(Before(c, i), q[i])
  BY DEF NoSilentGap
<1>4. LastOf(c) = IF q = <<>> THEN taken[c] ELSE q[Len(q)]
  BY DEF LastOf
<1>5. LastOf(c)' = g
  BY <1>2 DEF LastOf
<1>6. ASSUME NEW d \in Channels, d # c
      PROVE  /\ LastOf(d)' = LastOf(d) /\ chan'[d] = chan[d]
             /\ \A i \in 1 .. Len(chan'[d]) : Follows(Before(d, i)', chan'[d][i])
  BY <1>6 DEF LastOf, Before, NoSilentGap, TypeOK
<1>7. \A i \in 1 .. Len(r) : Before(c, i)' = IF i = 1 THEN taken[c] ELSE r[i - 1]
  BY DEF Before
<1>8. \A i \in 1 .. Len(q) : Before(c, i) = IF i = 1 THEN taken[c] ELSE q[i - 1]
  BY DEF Before
<1> HIDE DEF q, r
<1>9. ASSUME NEW i \in 1 .. Len(r) PROVE Follows(Before(c, i)', r[i])
  <2>1. CASE i \in 1 .. Len(q)
    <3>1. r[i] = q[i] /\ Follows(Before(c, i), q[i])
      BY <1>2, <1>3, <2>1
    <3>2. Before(c, i)' = Before(c, i)
      <4>1. CASE i = 1
        BY <1>7, <1>8, <2>1, <4>1
      <4>2. CASE i # 1
        <5>1. i - 1 \in 1 .. Len(q)
          BY <1>2, <2>1, <4>2
        <5> QED
          BY <1>2, <1>7, <1>8, <2>1, <4>2, <5>1
      <4> QED
        BY <4>1, <4>2
    <3> QED
      BY <3>1, <3>2
  <2>2. CASE i = Len(q) + 1
    <3>1. r[i] = g
      BY <1>2, <2>2
    <3>2. Before(c, i)' = LastOf(c)
      <4>1. CASE Len(q) = 0
        <5>1. q = <<>> /\ i = 1
          BY <1>1, <2>2, <4>1
        <5> QED
          BY <1>4, <1>7, <5>1
      <4>2. CASE Len(q) # 0
        <5>1. q # <<>> /\ i # 1 /\ i - 1 = Len(q) /\ Len(q) \in 1 .. Len(q)
          BY <1>1, <1>2, <2>2, <4>2
        <5> QED
          BY <1>2, <1>4, <1>7, <5>1
      <4> QED
        BY <4>1, <4>2
    <3> QED
      BY <3>1, <3>2
  <2> QED
    BY <1>2, <2>1, <2>2
<1>10. NoSilentGap'
  BY <1>6, <1>9 DEF NoSilentGap, r
<1> QED
  BY <1>5, <1>6, <1>10

\* The offer of one frame, sent or lost, leaves what is sent in order and what is
\* left to offer after it.
LEMMA OfferGap ==
  ASSUME TypeOK, WorkOwned, GapInv, NEW c \in Channels,
         OfferFits(c) \/ OfferFails(c) \/ OfferClosed(c)
  PROVE  GapInv'
<1> DEFINE w == work[c]
           v == work'[c]
           g == w[1]
           f == LastOf(c)
<1>1. /\ w \in Seq(Frames) /\ w # <<>> /\ c \in subs
      /\ subs' = subs /\ out' = out /\ fwd' = fwd /\ taken' = taken /\ out \in Nat
      /\ \A d \in Channels : d # c => work'[d] = work[d]
  BY DEF TypeOK, WorkOwned, OfferFits, OfferFails, OfferClosed, terminal
<1>2. /\ Head(w) = g /\ g \in Frames /\ Tail(w) \in Seq(Frames)
      /\ Len(w) \in Nat \ {0} /\ Len(Tail(w)) = Len(w) - 1
      /\ \A i \in 1 .. Len(Tail(w)) : Tail(w)[i] = w[i + 1]
  <2> HIDE DEF w
  <2> QED
    BY <1>1, TailFrames
<1>3. f \in Frames
  BY LastFrame
<1>4. \A i \in 1 .. Len(w) :
        /\ c \notin lagging
        /\ w[i].unit = out - Len(w) + i
        /\ w[i].kind = g.kind
        /\ w[i].last <=> w[i].kind = "output" \/ i = Len(w)
        /\ w[i].kind = "history" => w[i].seq = g.seq + i - 1
  BY <1>1 DEF GapInv, WorkNewest
<1>5. g.unit \in Nat /\ f.unit \in Nat /\ g.seq \in Nat /\ f.seq \in Nat
      /\ g.kind \in {"output", "history"} /\ f.kind \in {"output", "history"}
      /\ f.last \in BOOLEAN /\ g.last \in BOOLEAN
  <2> HIDE DEF f, g
  <2> QED
    BY <1>2, <1>3 DEF Frames
<1>6. /\ c \notin lagging /\ g.unit = out - Len(w) + 1 /\ g.unit <= out
      /\ g.last <=> g.kind = "output" \/ 1 = Len(w)
  <2>1. 1 \in 1 .. Len(w)
    BY <1>2
  <2>2. c \notin lagging /\ g.unit = out - Len(w) + 1 /\ (g.last <=> g.kind = "output" \/ 1 = Len(w))
    BY <1>4, <2>1
  <2>3. out - Len(w) + 1 <= out
    BY <1>1, <1>2
  <2> QED
    BY <2>2, <2>3
<1>7. Open(c) =>
        \/ g.kind = "output" /\ f.unit < g.unit /\ (f.last => g.unit = f.unit + 1)
        \/ g.kind = "history" /\ g.seq = 0 /\ Room(chan[c]) > 0
        \/ /\ g.kind = "history" /\ f.kind = "history" /\ ~f.last
           /\ g.seq > f.seq /\ g.unit - f.unit = g.seq - f.seq
  BY <1>1 DEF GapInv, WorkFollows
<1>8. ASSUME NEW d \in subs, d # c PROVE d \in lagging' <=> d \in lagging
  BY <1>8 DEF OfferFits, OfferFails, OfferClosed
<1>9. ASSUME \A d \in Channels : d # c => LastOf(d)' = LastOf(d) /\ chan'[d] = chan[d],
             NoSilentGap',
             Open(c) => ChannelOK(c)',
             \A i \in 1 .. Len(v) :
               /\ c \notin lagging'
               /\ v[i].unit = out - Len(v) + i
               /\ v[i].kind = v[1].kind
               /\ v[i].last <=> v[i].kind = "output" \/ i = Len(v)
               /\ v[i].kind = "history" => v[i].seq = v[1].seq + i - 1
      PROVE  GapInv'
  <2>1. \A d \in subs : d # c => (Open(d)' <=> Open(d)) /\ (Open(d) => ChannelOK(d))
    BY <1>1, GapByChannel DEF Open
  <2>2. subs \subseteq Channels
    BY DEF TypeOK
  <2>3. \A d \in subs : d # c => (Open(d)' => ChannelOK(d)')
    BY <1>1, <1>8, <1>9, <2>1, <2>2 DEF ChannelOK, Room
  <2>4. \A d \in subs : Open(d)' => ChannelOK(d)'
    BY <1>1, <1>9, <2>3 DEF Open
  <2>5. WorkNewest'
    <3>1. ASSUME NEW d \in subs, d # c, NEW i \in 1 .. Len(work'[d])
          PROVE  /\ d \notin lagging'
                 /\ work'[d][i].unit = out - Len(work'[d]) + i
                 /\ work'[d][i].kind = work'[d][1].kind
                 /\ work'[d][i].last <=> work'[d][i].kind = "output" \/ i = Len(work'[d])
                 /\ work'[d][i].kind = "history" => work'[d][i].seq = work'[d][1].seq + i - 1
      <4>1. work'[d] = work[d]
        BY <1>1, <2>2, <3>1
      <4> QED
        BY <1>8, <3>1, <4>1 DEF GapInv, WorkNewest
    <3>2. out' = out /\ subs' = subs
      BY <1>1
    <3>3. ASSUME NEW d \in subs', NEW i \in 1 .. Len(work'[d])
          PROVE  /\ d \notin lagging'
                 /\ work'[d][i].unit = out' - Len(work'[d]) + i
                 /\ work'[d][i].kind = work'[d][1].kind
                 /\ work'[d][i].last <=> work'[d][i].kind = "output" \/ i = Len(work'[d])
                 /\ work'[d][i].kind = "history" => work'[d][i].seq = work'[d][1].seq + i - 1
      <4>1. CASE d = c
        BY <1>9, <3>2, <3>3, <4>1
      <4>2. CASE d # c
        BY <3>1, <3>2, <3>3, <4>2
      <4> QED
        BY <4>1, <4>2
    <3> QED
      BY <3>3 DEF WorkNewest
  <2> QED
    BY <1>1, <1>9, <2>4, <2>5, GapByChannelNext
<1> HIDE DEF w, g, f
<1>10. ASSUME v = Tail(w), UNCHANGED lagging
       PROVE  /\ v \in Seq(Frames) /\ Len(v) = Len(w) - 1
              /\ \A i \in 1 .. Len(v) :
                   /\ c \notin lagging'
                   /\ v[i].unit = out - Len(v) + i
                   /\ v[i].kind = v[1].kind
                   /\ v[i].last <=> v[i].kind = "output" \/ i = Len(v)
                   /\ v[i].kind = "history" => v[i].seq = v[1].seq + i - 1
              /\ v # <<>> =>
                   /\ v[1].unit = g.unit + 1 /\ v[1].kind = g.kind
                   /\ g.kind = "history" => v[1].seq = g.seq + 1 /\ ~g.last
  <2>1. v \in Seq(Frames) /\ Len(v) = Len(w) - 1 /\ \A i \in 1 .. Len(v) : v[i] = w[i + 1]
    BY <1>2, <1>10
  <2> HIDE DEF v
  <2>2. \A i \in 1 .. Len(v) : i + 1 \in 1 .. Len(w) /\ 1 \in 1 .. Len(v)
    BY <1>2, <2>1
  <2>3. ASSUME NEW i \in 1 .. Len(v)
        PROVE  /\ v[i].unit = out - Len(v) + i
               /\ v[i].kind = g.kind
               /\ v[i].last <=> v[i].kind = "output" \/ i = Len(v)
               /\ v[i].kind = "history" => v[i].seq = g.seq + i
    <3>1. /\ v[i].unit = out - Len(w) + (i + 1)
          /\ v[i].kind = g.kind
          /\ v[i].last <=> v[i].kind = "output" \/ i + 1 = Len(w)
          /\ v[i].kind = "history" => v[i].seq = g.seq + (i + 1) - 1
      <4>1. i + 1 \in 1 .. Len(w) /\ v[i] = w[i + 1]
        BY <2>1, <2>2
      <4> QED
        BY <1>4, <4>1
    <3>2. /\ out - Len(w) + (i + 1) = out - Len(v) + i
          /\ i + 1 = Len(w) <=> i = Len(v)
          /\ g.seq + (i + 1) - 1 = g.seq + i
      BY <1>1, <1>2, <1>5, <2>1
    <3> QED
      BY <3>1, <3>2
  <2>4. ASSUME NEW i \in 1 .. Len(v)
        PROVE  /\ v[i].kind = v[1].kind
               /\ v[i].kind = "history" => v[i].seq = v[1].seq + i - 1
    <3>1. v[1].kind = g.kind /\ (v[1].kind = "history" => v[1].seq = g.seq + 1)
      BY <2>2, <2>3
    <3>2. v[i].kind = g.kind /\ (v[i].kind = "history" => v[i].seq = g.seq + i)
      BY <2>3
    <3>3. g.seq + i = (g.seq + 1) + i - 1
      BY <1>5
    <3> QED
      BY <3>1, <3>2, <3>3
  <2>5. v # <<>> =>
          /\ v[1].unit = g.unit + 1 /\ v[1].kind = g.kind
          /\ g.kind = "history" => v[1].seq = g.seq + 1 /\ ~g.last
    <3>1. SUFFICES ASSUME v # <<>>
                   PROVE  /\ v[1].unit = g.unit + 1 /\ v[1].kind = g.kind
                          /\ g.kind = "history" => v[1].seq = g.seq + 1 /\ ~g.last
      OBVIOUS
    <3>2. Len(v) > 0 /\ Len(w) > 1 /\ 1 \in 1 .. Len(v)
      BY <1>2, <2>1, <3>1
    <3>3. v[1].unit = out - Len(v) + 1 /\ v[1].kind = g.kind /\ (g.kind = "history" => v[1].seq = g.seq + 1)
      BY <2>3, <3>2
    <3>4. out - Len(v) + 1 = (out - Len(w) + 1) + 1
      BY <1>1, <1>2, <2>1
    <3> QED
      <4>1. v[1].unit = g.unit + 1
        BY <1>6, <3>3, <3>4, Zenon
      <4>2. g.kind = "history" => ~g.last
        <5>1. ~(1 = Len(w)) /\ (g.kind = "history" => ~(g.kind = "output"))
          BY <1>2, <3>2
        <5>2. g.last <=> g.kind = "output" \/ 1 = Len(w)
          BY <1>6
        <5> QED
          BY <5>1, <5>2, Zenon
      <4> QED
        BY <3>3, <4>1, <4>2
  <2> QED
    BY <1>6, <1>10, <2>1, <2>3, <2>4, <2>5
<1>11. CASE OfferFits(c)
  <2>1. /\ Open(c) /\ v = Tail(w) /\ UNCHANGED lagging /\ taken' = taken
        /\ chan' = [chan EXCEPT ![c] = Append(chan[c], g)]
    BY <1>1, <1>2, <1>11 DEF OfferFits, TypeOK, w
  <2>2. Follows(f, g)
    BY <1>5, <1>7, <2>1 DEF Follows
  <2>3. /\ LastOf(c)' = g /\ NoSilentGap'
        /\ \A d \in Channels : d # c => LastOf(d)' = LastOf(d) /\ chan'[d] = chan[d]
    BY <1>2, <2>1, <2>2, AppendChannel DEF f, GapInv
  <2>4. ChannelOK(c)'
    <3>1. g.unit <= out' /\ c \notin lagging'
      BY <1>1, <1>6, <2>1
    <3>2. v = <<>> => g.unit = out'
      <4>1. v = <<>> => Len(w) = 1
        BY <1>2, <1>10, <2>1
      <4>2. out - 1 + 1 = out /\ out' = out
        BY <1>1
      <4> QED
        BY <1>6, <4>1, <4>2, Zenon
    <3>3. v # <<>> =>
            \/ v[1].kind = "output" /\ g.unit < v[1].unit /\ (g.last => v[1].unit = g.unit + 1)
            \/ /\ v[1].kind = "history" /\ g.kind = "history" /\ ~g.last
               /\ v[1].seq > g.seq /\ v[1].unit - g.unit = v[1].seq - g.seq
      <4>1. v # <<>> =>
              /\ v[1].unit = g.unit + 1 /\ v[1].kind = g.kind
              /\ g.kind = "history" => v[1].seq = g.seq + 1 /\ ~g.last
        BY <1>10, <2>1
      <4> HIDE DEF v
      <4> QED
        BY <1>5, <4>1
    <3> QED
      BY <2>3, <3>1, <3>2, <3>3 DEF ChannelOK
  <2> QED
    BY <1>9, <1>10, <2>1, <2>3, <2>4
<1>12. CASE OfferFails(c)
  <2>1. /\ Open(c) /\ chan' = chan /\ ~(Room(chan[c]) > 0)
        /\ \/ v = Tail(w) /\ g.kind = "history" /\ UNCHANGED lagging
           \/ v = <<>> /\ g.kind = "output" /\ lagging' = lagging \cup {c}
    <3>1. Room(chan[c]) = 0
      BY <1>12 DEF OfferFails
    <3> QED
      BY <1>1, <1>2, <1>12, <3>1 DEF OfferFails, TypeOK, w
  <2>2. /\ \A d \in Channels : LastOf(d)' = LastOf(d) /\ chan'[d] = chan[d]
        /\ NoSilentGap'
    BY <1>1, <2>1 DEF LastOf, Before, GapInv, NoSilentGap
  <2>3. f.unit <= out
    BY <1>1, <2>1 DEF GapInv, SentIsOut, f
  <2>4. CASE v = Tail(w) /\ g.kind = "history" /\ UNCHANGED lagging
    <3>1. f.kind = "history" /\ ~f.last /\ g.seq > f.seq /\ g.unit - f.unit = g.seq - f.seq
      BY <1>7, <2>1, <2>4
    <3>2. v # <<>> => /\ v[1].kind = "history" /\ v[1].seq > f.seq
                      /\ v[1].unit - f.unit = v[1].seq - f.seq
      <4>1. v # <<>> => /\ v[1].unit = g.unit + 1 /\ v[1].kind = g.kind
                        /\ v[1].seq = g.seq + 1
        BY <1>10, <2>4
      <4> HIDE DEF v
      <4>2. /\ g.seq + 1 > f.seq
            /\ (g.unit + 1) - f.unit = (g.seq + 1) - f.seq
        BY <1>5, <3>1
      <4> QED
        BY <2>4, <4>1, <4>2
    <3>3. ChannelOK(c)'
      BY <1>1, <2>2, <2>3, <3>1, <3>2 DEF ChannelOK, f
    <3> QED
      BY <1>9, <1>10, <2>2, <2>4, <3>3
  <2>5. CASE v = <<>> /\ g.kind = "output" /\ lagging' = lagging \cup {c}
    <3>1. f.unit < g.unit
      BY <1>7, <2>1, <2>5
    <3>2. f.unit # out
      BY <1>1, <1>5, <1>6, <3>1
    <3>3. ChannelOK(c)'
      BY <1>1, <2>2, <2>3, <2>5, <3>2 DEF ChannelOK, f
    <3>4. Len(v) = 0
      BY <2>5
    <3> QED
      BY <1>9, <2>2, <3>3, <3>4
  <2> QED
    BY <2>1, <2>4, <2>5
<1>13. CASE OfferClosed(c)
  <2>1. v = <<>> /\ Len(v) = 0 /\ ~Open(c) /\ chan' = chan
    BY <1>13 DEF OfferClosed, TypeOK
  <2>2. /\ \A d \in Channels : LastOf(d)' = LastOf(d) /\ chan'[d] = chan[d]
        /\ NoSilentGap'
    BY <1>1, <2>1 DEF LastOf, Before, GapInv, NoSilentGap
  <2> QED
    BY <1>9, <2>1, <2>2
<1> QED
  BY <1>11, <1>12, <1>13

\* Taking a frame out leaves the last one that was sent, and the order.
LEMMA TakeChannel ==
  ASSUME TypeOK, GapInv, NEW c \in Channels, Take(c), NEW d \in Channels
  PROVE  /\ LastOf(d)' = LastOf(d)
         /\ \A i \in 1 .. Len(chan'[d]) : Follows(Before(d, i)', chan'[d][i])
<1>1. CASE d # c
  <2>1. chan'[d] = chan[d] /\ taken'[d] = taken[d]
    BY <1>1 DEF Take, TypeOK
  <2> QED
    BY <2>1 DEF LastOf, Before, GapInv, NoSilentGap
<1>2. CASE d = c
  <2> DEFINE q == chan[c]
             r == chan'[c]
  <2>1. q \in Seq(Frames) /\ q # <<>> /\ r = Tail(q) /\ taken'[c] = Head(q)
    BY DEF Take, TypeOK
  <2>2. /\ r \in Seq(Frames) /\ taken'[c] = q[1]
        /\ Len(q) \in Nat /\ Len(q) > 0 /\ Len(r) = Len(q) - 1
        /\ \A i \in 1 .. Len(r) : r[i] = q[i + 1]
    <3> HIDE DEF q, r
    <3> QED
      BY <2>1
  <2>3. LastOf(c)' = LastOf(c)
    <3>1. CASE Len(r) = 0
      <4> HIDE DEF q, r
      <4>1. Len(q) = 1 /\ r = <<>>
        BY <2>1, <2>2, <3>1
      <4> USE DEF q, r
      <4> QED
        BY <2>1, <2>2, <4>1 DEF LastOf
    <3>2. CASE Len(r) # 0
      <4> HIDE DEF q, r
      <4>1. r # <<>> /\ Len(r) \in 1 .. Len(r) /\ Len(r) + 1 = Len(q)
        BY <2>2, <3>2
      <4> USE DEF q, r
      <4>2. r[Len(r)] = q[Len(q)]
        BY <2>2, <4>1
      <4> QED
        BY <2>1, <4>1, <4>2 DEF LastOf
    <3> QED
      BY <3>1, <3>2
  <2>4. ASSUME NEW i \in 1 .. Len(r) PROVE Follows(Before(c, i)', r[i])
    <3>1. i + 1 \in 1 .. Len(q) /\ r[i] = q[i + 1] /\ i + 1 # 1 /\ (i + 1) - 1 = i
      BY <2>2
    <3>2. Follows(Before(c, i + 1), q[i + 1]) /\ Before(c, i + 1) = q[i]
      BY <3>1 DEF GapInv, NoSilentGap, Before
    <3>3. Before(c, i)' = q[i]
      <4>1. CASE i = 1
        BY <2>2, <4>1 DEF Before
      <4>2. CASE i # 1
        <5>1. i - 1 \in 1 .. Len(r) /\ (i - 1) + 1 = i
          BY <2>2, <4>2
        <5>2. r[i - 1] = q[i]
          BY <2>2, <5>1
        <5> QED
          BY <4>2, <5>2 DEF Before
      <4> QED
        BY <4>1, <4>2
    <3> QED
      BY <3>1, <3>2, <3>3
  <2> QED
    BY <1>2, <2>3, <2>4
<1> QED
  BY <1>1, <1>2

\* A new subscriber has the whole ring buffer in its channel: it lags behind
\* nothing, and the first frame is the start of a snapshot.
LEMMA SubscribeChannel ==
  ASSUME TypeOK, SubsStarted, NEW t \in Tunnels, NEW c \in Channels, Subscribe(t, c)
  PROVE  /\ \A i \in 1 .. Len(chan'[c]) : Follows(Before(c, i)', chan'[c][i])
         /\ LastOf(c)'.unit = out
         /\ c \notin lagging'
<1> DEFINE r == chan'[c]
           L == Len(r)
<1>1. /\ out \in 0 .. MaxOut /\ taken'[c] = Output(out) /\ r = Snapshot(history, out)
      /\ c \notin lagging'
      /\ history \subseteq 1 .. out /\ \A s \in history : out - s < HistCap
  BY DEF TypeOK, Subscribe, SubsStarted
<1>2. /\ r \in Seq(Frames)
      /\ IsSnapshot(r, out)
  BY <1>1, SnapshotFrames, Zenon
<1>3. \A i \in 1 .. Len(r) : Before(c, i)' = IF i = 1 THEN taken'[c] ELSE r[i - 1]
  BY DEF Before
<1>4. LastOf(c)' = IF r = <<>> THEN taken'[c] ELSE r[L]
  BY DEF LastOf
<1> HIDE DEF r
<1>5. L \in Nat
  BY <1>2
<1> HIDE DEF L
<1>6. \A i \in 1 .. L : /\ r[i].kind = "history" /\ r[i].seq = i - 1
                        /\ r[i].unit = out - L + i
  BY <1>2 DEF IsSnapshot, L
<1>7. LastOf(c)'.unit = out
  <2>1. CASE r = <<>>
    BY <1>1, <1>4, <2>1 DEF Output
  <2>2. CASE r # <<>>
    <3>1. L \in 1 .. L
      BY <1>2, <2>2 DEF L
    <3>2. r[L].unit = out - L + L
      BY <1>6, <3>1
    <3> QED
      BY <1>1, <1>4, <1>5, <2>2, <3>2
  <2> QED
    BY <2>1, <2>2
<1>8. ASSUME NEW i \in 1 .. L PROVE Follows(Before(c, i)', r[i])
  <2>1. CASE i = 1
    BY <1>6, <2>1 DEF Follows
  <2>2. CASE i # 1
    <3>1. i - 1 \in 1 .. L
      BY <1>5, <2>2
    <3>2. /\ r[i].kind = "history" /\ r[i].seq = i - 1 /\ r[i].unit = out - L + i
          /\ r[i - 1].kind = "history" /\ r[i - 1].seq = (i - 1) - 1
          /\ r[i - 1].unit = out - L + (i - 1)
      BY <1>6, <3>1
    <3>3. /\ i - 1 > (i - 1) - 1
          /\ (out - L + i) - (out - L + (i - 1)) = (i - 1) - ((i - 1) - 1)
      BY <1>1, <1>5
    <3>4. Before(c, i)' = r[i - 1]
      BY <1>3, <2>2 DEF L
    <3>5. r[i].seq > r[i - 1].seq /\ r[i].unit - r[i - 1].unit = r[i].seq - r[i - 1].seq
      BY <3>2, <3>3
    <3> QED
      BY <3>2, <3>4, <3>5 DEF Follows
  <2> QED
    BY <2>1, <2>2
<1> QED
  BY <1>1, <1>7, <1>8 DEF L, r

\* Every step keeps the order of the frames and the meaning of the flag.
LEMMA GapStep ==
  ASSUME MaxBurst <= HistCap
  PROVE  TypeOK /\ WorkOwned /\ SubsStarted /\ GapInv /\ [Next]_vars => GapInv'
<1> SUFFICES ASSUME TypeOK, WorkOwned, SubsStarted, GapInv, [Next]_vars PROVE GapInv'
  OBVIOUS
<1>0. /\ subs \subseteq Channels
      /\ NoSilentGap /\ WorkNewest /\ \A c \in subs : Open(c) => ChannelOK(c)
  BY GapByChannel DEF TypeOK
<1>1. CASE \E n \in 1 .. MaxBurst : Flush(n)
  <2> PICK n \in 1 .. MaxBurst : Flush(n)
    BY <1>1
  <2>1. subs' = subs /\ chan' = chan /\ taken' = taken
    BY DEF Flush
  <2>2. NoSilentGap'
    BY <2>1 DEF GapInv, NoSilentGap, Before
  <2>3. WorkNewest' /\ \A c \in subs' : Open(c)' => ChannelOK(c)'
    BY <2>1, FlushChannel DEF WorkNewest
  <2> QED
    BY <2>2, <2>3, GapByChannelNext
<1>2. CASE \E c \in Channels : OfferFits(c) \/ OfferFails(c) \/ OfferClosed(c)
  BY <1>2, OfferGap
<1>3. CASE \/ \E t \in Tunnels, p \in Pairings : OpenTunnel(t, p)
           \/ \E t \in Tunnels : ListRequest(t) \/ ListResponse(t) \/ SendFrame(t)
                                 \/ Wedge(t) \/ CloseTunnel(t)
           \/ UNCHANGED vars
  <2>1. UNCHANGED <<out, subs, lagging, work, chan, taken, fwd>>
    BY <1>3 DEF OpenTunnel, ListRequest, ListResponse, SendFrame, Wedge, CloseTunnel,
                terminal, tunnels, vars
  <2> QED
    BY <2>1 DEF GapInv, SentIsOut, NoSilentGap, LaggingExact, WorkNewest, WorkFollows,
                Open, LastOf, Before, Room
<1>4. CASE \E t \in Tunnels, c \in Channels : Subscribe(t, c)
  <2> PICK t \in Tunnels, c \in Channels : Subscribe(t, c)
    BY <1>4
  <2>1. /\ \A i \in 1 .. Len(chan'[c]) : Follows(Before(c, i)', chan'[c][i])
        /\ LastOf(c)'.unit = out
        /\ c \notin lagging'
    BY SubscribeChannel
  <2>2. out \in Nat /\ out' = out /\ \A d \in Channels : work'[d] = <<>>
    BY DEF TypeOK, Subscribe, terminal, Unlocked
  <2>3. ASSUME NEW d \in Channels, d # c
        PROVE  /\ chan'[d] = chan[d] /\ taken'[d] = taken[d] /\ fwd'[d] = fwd[d]
               /\ work'[d] = work[d]
               /\ d \in subs' => d \in subs /\ (d \in lagging' <=> d \in lagging)
    BY <2>3 DEF Subscribe, TypeOK
  <2>4. subs' \subseteq Channels
    BY DEF Subscribe, TypeOK
  <2>5. NoSilentGap'
    BY <2>1, <2>3 DEF GapInv, NoSilentGap, Before
  <2>6. WorkNewest'
    BY <2>2, <2>4 DEF WorkNewest
  <2>7. ChannelOK(c)'
    BY <2>1, <2>2 DEF ChannelOK
  <2>8. ASSUME NEW d \in subs', d # c, Open(d)' PROVE ChannelOK(d)'
    <3>1. ChannelOK(d) /\ LastOf(d)' = LastOf(d) /\ d \in Channels
      BY <1>0, <2>3, <2>4, <2>8 DEF Open, LastOf
    <3> QED
      BY <2>2, <2>3, <2>8, <3>1 DEF ChannelOK
  <2> QED
    BY <2>5, <2>6, <2>7, <2>8, GapByChannelNext
<1>5. CASE \E p \in Pairings : Unsubscribe(p)
  BY <1>5 DEF Unsubscribe, terminal, GapInv, SentIsOut, NoSilentGap, LaggingExact,
              WorkNewest, WorkFollows, Open, LastOf, Before, Room
<1>6. CASE \E c \in Channels : Take(c)
  <2> PICK c \in Channels : Take(c)
    BY <1>6
  <2>1. /\ subs' = subs /\ lagging' = lagging /\ out' = out /\ work' = work
        /\ \A d \in Channels : Open(d)' <=> Open(d)
    BY DEF Take, TypeOK, Open, terminal
  <2>2. \A d \in Channels : /\ LastOf(d)' = LastOf(d)
                            /\ \A i \in 1 .. Len(chan'[d]) : Follows(Before(d, i)', chan'[d][i])
    BY TakeChannel
  <2>3. ASSUME NEW d \in Channels, Room(chan[d]) > 0 PROVE Room(chan[d])' > 0
    <3>1. CASE d = c
      <4>1. chan[c] \in Seq(Frames) /\ chan[c] # <<>> /\ chan'[c] = Tail(chan[c])
        BY DEF Take, TypeOK
      <4>2. Len(chan'[c]) = Len(chan[c]) - 1 /\ Len(chan[c]) \in Nat
        BY <4>1, TailFrames
      <4>3. ChanCap - Len(chan[c]) > 0
        BY <2>3, <3>1 DEF Room
      <4>4. ChanCap - Len(chan'[c]) > 0
        BY <4>2, <4>3, MoreRoom, Zenon
      <4> QED
        BY <3>1, <4>4 DEF Room
    <3>2. CASE d # c
      BY <2>3, <3>2 DEF Take, TypeOK, Room
    <3> QED
      BY <3>1, <3>2
  <2>4. ASSUME NEW d \in subs', Open(d)' PROVE ChannelOK(d)'
    <3>1. d \in Channels /\ ChannelOK(d)
      BY <1>0, <2>1, <2>4
    <3> QED
      BY <2>1, <2>2, <2>3, <3>1 DEF ChannelOK
  <2>5. NoSilentGap' /\ WorkNewest'
    BY <1>0, <2>1, <2>2 DEF NoSilentGap, WorkNewest
  <2> QED
    BY <2>4, <2>5, GapByChannelNext
<1>7. CASE \E c \in Channels : Forward(c)
  <2>1. /\ UNCHANGED <<out, subs, lagging, work, chan, taken>>
        /\ \A c \in Channels : Open(c)' <=> Open(c)
    BY <1>7 DEF Forward, terminal, TypeOK, Open
  <2>2. NoSilentGap' /\ WorkNewest'
    BY <1>0, <2>1 DEF NoSilentGap, WorkNewest, Before
  <2>3. \A c \in subs' : Open(c)' => ChannelOK(c)'
    BY <1>0, <2>1 DEF ChannelOK, LastOf, Room
  <2> QED
    BY <2>2, <2>3, GapByChannelNext
<1>8. CASE \E c \in Channels : ForwardFails(c) \/ ForwardEnds(c)
  <2> PICK c \in Channels : ForwardFails(c) \/ ForwardEnds(c)
    BY <1>8
  <2>1. /\ subs' = subs /\ lagging' = lagging /\ out' = out /\ work' = work
        /\ fwd'[c] = "ended" /\ chan'[c] = <<>> /\ Len(chan'[c]) = 0
        /\ \A d \in Channels \ {c} :
             chan'[d] = chan[d] /\ taken'[d] = taken[d] /\ fwd'[d] = fwd[d]
    BY DEF ForwardFails, ForwardEnds, TypeOK, terminal
  <2>2. NoSilentGap' /\ WorkNewest'
    BY <1>0, <2>1 DEF NoSilentGap, WorkNewest, Before
  <2>3. ASSUME NEW d \in subs', Open(d)' PROVE ChannelOK(d)'
    <3>1. d \in Channels /\ d # c /\ Open(d)
      BY <1>0, <2>1, <2>3 DEF Open
    <3> QED
      BY <1>0, <2>1, <3>1 DEF ChannelOK, LastOf, Room
  <2> QED
    BY <2>2, <2>3, GapByChannelNext
<1> QED
  BY <1>1, <1>2, <1>3, <1>4, <1>5, <1>6, <1>7, <1>8 DEF Next

\* At first nothing was sent.
LEMMA GapInit == Init => GapInv
<1> SUFFICES ASSUME Init PROVE GapInv
  OBVIOUS
<1>1. subs = {} /\ \A c \in Channels : Len(chan[c]) = 0
  BY DEF Init
<1> QED
  BY <1>1 DEF GapInv, SentIsOut, NoSilentGap, LaggingExact, WorkNewest, WorkFollows

\* If no flush is larger than the ring buffer, no phone is sent a gap that does
\* not show, for any capacities, number of subscribers and order of the tasks.
THEOREM FanoutNoSilentGap ==
  ASSUME MaxBurst <= HistCap
  PROVE  Spec => []NoSilentGap
<1>1. Init => GapInv /\ SubsStarted /\ OneSubscription
  BY GapInit DEF Init, OneSubscription, SubsStarted
<1>2. TypeOK /\ WorkOwned /\ OneSubscription /\ SubsStarted /\ GapInv /\ [Next]_vars
        => OneSubscription' /\ SubsStarted' /\ GapInv'
  BY SubscribersStep, GapStep
<1>3. GapInv => NoSilentGap
  BY DEF GapInv
<1> QED
  BY <1>1, <1>2, <1>3, FanoutTypes, PTL DEF Spec

\* Under the same hypothesis the lagging flag says exactly which of the
\* subscribers whose last frame was complete have missed output since.
THEOREM FanoutLaggingExact ==
  ASSUME MaxBurst <= HistCap
  PROVE  Spec => []LaggingExact
<1>1. Init => GapInv /\ SubsStarted /\ OneSubscription
  BY GapInit DEF Init, OneSubscription, SubsStarted
<1>2. TypeOK /\ WorkOwned /\ OneSubscription /\ SubsStarted /\ GapInv /\ [Next]_vars
        => OneSubscription' /\ SubsStarted' /\ GapInv'
  BY SubscribersStep, GapStep
<1>3. GapInv => LaggingExact
  BY DEF GapInv
<1> QED
  BY <1>1, <1>2, <1>3, FanoutTypes, PTL DEF Spec
=============================================================================
