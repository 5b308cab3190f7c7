------------------------ MODULE IpcConnectionProofs ------------------------
(***************************************************************************)
(* IpcConnection implements RequestStream, for any number of calls and     *)
(* events and however many writes a request is made of.                    *)
(*                                                                         *)
(* The argument: the parts a client has written account for the parts of   *)
(* the frames handled, of the frame being read and of those still on their *)
(* way (Accounting), so that a frame is complete only if its request was   *)
(* made; and between two polls of the select every handled request is      *)
(* answered (Alternates).                                                  *)
(*                                                                         *)
(* A second invariant, Numbered, says which response a call takes, for any *)
(* number of events in between: the responses on their way are numbered on *)
(* from those the client has taken.  It counts events in sequences, whence *)
(* the lemmas on EventsIn.                                                 *)
(***************************************************************************)
EXTENDS IpcConnection, FiniteSetTheorems, TLAPS

Accounting == inbox + got + left + handled * Parts <= calls * Parts

Alternates ==
    /\ daemon = "select" => handled = answered
    /\ daemon = "handling" => handled = answered + 1 /\ ~torn

\* A request is written to its end, unless the client ends.
Written ==
    /\ client = "sending" => left > 0
    /\ client \in {"idle", "waiting", "following"} => left = 0

\* A call returns before the next begins.
OneCall ==
    /\ Len(returned) <= calls
    /\ client \in {"sending", "waiting"} => Len(returned) < calls

IpcInv == TypeOK /\ Accounting /\ Alternates /\ Written /\ OneCall

\* Of the first n frames of s, those that are events.
EventsIn(s, n) == Cardinality({i \in 1..n : s[i] = Event})

\* The responses on their way go on with the numbers where those a client took
\* have ended, and the last of them has the number of the last answer.  A
\* client that follows takes frames for itself, and calls no more.
Numbered ==
    client \in {"idle", "sending", "waiting"} =>
        LET taken == Len(returned) - EventsIn(returned, Len(returned)) IN
        /\ \A j \in DOMAIN outbox :
              outbox[j] # Event => outbox[j] = taken + j - EventsIn(outbox, j - 1)
        /\ answered = taken + Len(outbox) - EventsIn(outbox, Len(outbox))

BehindInv == IpcInv /\ Numbered /\ BehindByEvents

-----------------------------------------------------------------------------

\* Multiplication keeps the order.
LEMMA TimesMonotone ==
    ASSUME NEW a \in Nat, NEW b \in Nat, NEW p \in Nat, a <= b
    PROVE  a * p <= b * p
<1>1. PICK d \in Nat : b = a + d
  <2>1. b - a \in Nat /\ b = a + (b - a)
    OBVIOUS
  <2> QED
    BY <2>1
<1>2. d * p \in Nat /\ (a + d) * p = a * p + d * p /\ a * p \in Nat
  OBVIOUS
<1> QED
  BY <1>1, <1>2

\* So does division.
LEMMA TimesReflects ==
    ASSUME NEW a \in Nat, NEW b \in Nat, NEW p \in Nat \ {0}, a * p + p <= b * p
    PROVE  a < b
<1>1. SUFFICES ASSUME b <= a PROVE FALSE
  OBVIOUS
<1>2. b * p <= a * p
  BY <1>1, TimesMonotone
<1>3. a * p \in Nat /\ b * p \in Nat
  OBVIOUS
<1> QED
  BY <1>2, <1>3

\* IpcInv holds of a new connection.
LEMMA IpcInit == Init => IpcInv
<1> USE IpcAssumption
<1>1. 0 * Parts = 0 /\ MaxCalls * Parts \in Nat
  OBVIOUS
<1>2. <<>> \in Seq(Frames) /\ Len(<<>>) = 0
  OBVIOUS
<1>3. Init => TypeOK
  <2>1. Init => inbox \in 0..MaxCalls * Parts
    BY <1>1 DEF Init
  <2>2. Init => returned \in Seq(Frames) /\ outbox \in Seq(Frames) /\ Len(returned) <= calls
    BY <1>2 DEF Init
  <2>3. Init => left \in 0..Parts /\ got \in 0..Parts - 1 /\ calls \in 0..MaxCalls
    BY DEF Init
  <2>4. Init => /\ handled \in 0..calls /\ answered \in 0..handled
                /\ pending \in 0..events /\ events \in 0..MaxEvents
    BY DEF Init
  <2>5. Init => /\ client \in {"idle", "sending", "waiting", "following", "gone"}
                /\ daemon \in {"select", "handling", "closed"} /\ torn \in BOOLEAN
    BY DEF Init
  <2> QED
    BY <2>1, <2>2, <2>3, <2>4, <2>5 DEF TypeOK
<1>4. Init => Accounting
  BY <1>1 DEF Init, Accounting
<1>5. Init => Alternates /\ Written /\ OneCall
  BY <1>2 DEF Init, Alternates, Written, OneCall
<1> QED
  BY <1>3, <1>4, <1>5 DEF IpcInv

\* Every step keeps IpcInv.
LEMMA IpcStep == IpcInv /\ [Next]_vars => IpcInv'
<1> SUFFICES ASSUME IpcInv, [Next]_vars PROVE IpcInv'
  OBVIOUS
<1> USE IpcAssumption
<1>0. TypeOK /\ Accounting /\ Alternates /\ Written /\ OneCall
  BY DEF IpcInv
<1>p. /\ handled * Parts \in Nat /\ calls * Parts \in Nat /\ MaxCalls * Parts \in Nat
      /\ calls * Parts <= MaxCalls * Parts
      /\ (calls + 1) * Parts = calls * Parts + Parts
      /\ (handled + 1) * Parts = handled * Parts + Parts
  BY <1>0, TimesMonotone DEF TypeOK
<1>s. /\ \A e \in Frames, q \in Seq(Frames) :
             Append(q, e) \in Seq(Frames) /\ Len(Append(q, e)) = Len(q) + 1
      /\ \A q \in Seq(Frames) :
             /\ Len(q) \in Nat
             /\ q # <<>> => Tail(q) \in Seq(Frames) /\ Head(q) \in Frames
  OBVIOUS
<1>1. CASE UNCHANGED vars
  BY <1>0, <1>1 DEF vars, clientVars, daemonVars, IpcInv, TypeOK, Accounting, Alternates,
                    Written, OneCall
<1>2. CASE Call
  <2>1. (calls + 1) * Parts <= MaxCalls * Parts
    BY <1>0, <1>2, TimesMonotone DEF Call, TypeOK
  <2> QED
    BY <1>0, <1>p, <1>2, <2>1
    DEF Call, daemonVars, IpcInv, TypeOK, Accounting, Alternates, Written, OneCall
<1>3. CASE Write
  <2>1. /\ client' \in {"sending", "waiting", "gone"} /\ client = "sending"
        /\ \/ UNCHANGED <<left, inbox>> /\ client' = "gone"
           \/ /\ inbox' = inbox + 1 /\ left' = left - 1
              /\ client' = IF left = 1 THEN "waiting" ELSE "sending"
        /\ UNCHANGED <<calls, returned, outbox, daemonVars, pending, events>>
    <3>1. CASE daemon = "closed"
      BY <1>3, <3>1 DEF Write
    <3>2. CASE daemon # "closed"
      BY <1>3, <3>2 DEF Write
    <3> QED
      BY <3>1, <3>2
  <2>2. left' \in 0..Parts /\ inbox' + got + left' = inbox + got + left /\ inbox' \in Nat
    BY <1>0, <2>1 DEF TypeOK, Written
  <2>3. Accounting'
    BY <1>0, <1>p, <2>1, <2>2 DEF Accounting, daemonVars
  <2>4. inbox' \in 0..MaxCalls * Parts
    BY <1>0, <1>p, <2>1, <2>2 DEF Accounting, TypeOK
  <2>5. TypeOK'
    BY <1>0, <2>1, <2>2, <2>4 DEF TypeOK, daemonVars
  <2>6. Alternates' /\ Written' /\ OneCall'
    BY <1>0, <2>1 DEF TypeOK, Alternates, Written, OneCall, daemonVars
  <2> QED
    BY <2>3, <2>5, <2>6 DEF IpcInv
<1>4. CASE Receive
  BY <1>0, <1>s, <1>4
  DEF Receive, daemonVars, IpcInv, TypeOK, Accounting, Alternates, Written, OneCall
<1>5. CASE Follow \/ EndOfStream \/ Quit
  <2>1. /\ client' \in {"following", "gone"}
        /\ client' = "following" => client = "idle"
        /\ UNCHANGED <<calls, left, returned, inbox, outbox, daemonVars, pending, events>>
    BY <1>5 DEF Follow, EndOfStream, Quit
  <2> QED
    BY <1>0, <2>1
    DEF daemonVars, IpcInv, TypeOK, Accounting, Alternates, Written, OneCall
<1>6. CASE FollowNext
  BY <1>0, <1>s, <1>6
  DEF FollowNext, clientVars, daemonVars, IpcInv, TypeOK, Accounting, Alternates,
      Written, OneCall
<1>7. CASE Read
  <2>1. /\ Ready \in 0..inbox /\ Ready <= Parts - got /\ inbox - Ready \in Nat
        /\ daemon = "select" /\ inbox' = inbox - Ready
        /\ UNCHANGED <<clientVars, outbox, pending, events>>
    BY <1>0, <1>7 DEF Read, Ready, TypeOK
  <2>2. CASE torn
    BY <1>0, <1>p, <1>7, <2>1, <2>2
    DEF Read, Close, clientVars, IpcInv, TypeOK, Accounting, Alternates, Written, OneCall
  <2>3. CASE ~torn /\ got + Ready = Parts
    <3>1. /\ daemon' = "handling" /\ got' = 0 /\ handled' = handled + 1
          /\ torn' = torn /\ answered' = answered
      BY <1>7, <2>3 DEF Read
    <3>2. handled * Parts + Parts <= calls * Parts
      BY <1>0, <1>p, <2>1, <2>3 DEF Accounting, TypeOK
    <3>3. handled < calls
      BY <1>0, <3>2, TimesReflects DEF TypeOK
    <3> QED
      BY <1>0, <1>p, <2>1, <2>3, <3>1, <3>3
      DEF clientVars, IpcInv, TypeOK, Accounting, Alternates, Written, OneCall
  <2>4. CASE ~torn /\ got + Ready # Parts
    BY <1>0, <1>p, <1>7, <2>1, <2>4
    DEF Read, clientVars, IpcInv, TypeOK, Accounting, Alternates, Written, OneCall
  <2> QED
    BY <2>2, <2>3, <2>4
<1>8. CASE ReadEnd \/ Exit
  BY <1>0, <1>8
  DEF ReadEnd, Exit, Close, clientVars, IpcInv, TypeOK, Accounting, Alternates, Written,
      OneCall
<1>9. CASE Reply
  <2>1. handled \in Frames
    BY <1>0 DEF TypeOK, Frames
  <2>2. Append(outbox, handled) \in Seq(Frames)
    BY <1>0, <1>s, <2>1 DEF TypeOK
  <2>3. CASE client = "gone"
    BY <1>0, <1>9, <2>3
    DEF Reply, Close, clientVars, IpcInv, TypeOK, Accounting, Alternates, Written, OneCall
  <2>4. CASE client # "gone"
    BY <1>0, <1>9, <2>2, <2>4
    DEF Reply, clientVars, IpcInv, TypeOK, Accounting, Alternates, Written, OneCall
  <2> QED
    BY <2>3, <2>4
<1>10. CASE ForwardEvent
  <2>1. Append(outbox, Event) \in Seq(Frames)
    BY <1>0, <1>s DEF TypeOK, Frames, Event
  <2>2. CASE client = "gone"
    BY <1>0, <1>10, <2>2
    DEF ForwardEvent, Close, clientVars, IpcInv, TypeOK, Accounting, Alternates, Written,
        OneCall
  <2>3. CASE client # "gone"
    BY <1>0, <1>p, <1>10, <2>1, <2>3
    DEF ForwardEvent, clientVars, IpcInv, TypeOK, Accounting, Alternates, Written, OneCall
  <2> QED
    BY <2>2, <2>3
<1>11. CASE Broadcast
  BY <1>0, <1>11
  DEF Broadcast, clientVars, daemonVars, IpcInv, TypeOK, Accounting, Alternates, Written,
      OneCall
<1> QED
  BY <1>1, <1>2, <1>3, <1>4, <1>5, <1>6, <1>7, <1>8, <1>9, <1>10, <1>11 DEF Next

\* The invariant the other theorems rest on.
THEOREM IpcInductive == Spec => []IpcInv
  BY IpcInit, IpcStep, PTL DEF Spec

\* Every variable keeps its type, whatever is cut off or interrupted.
THEOREM IpcTypeCorrect == Spec => []TypeOK
<1>1. IpcInv => TypeOK
  BY DEF IpcInv
<1> QED
  BY <1>1, IpcInductive, PTL

\* A step of the connection is a step of a stream of requests, or none.
LEMMA StreamStep == IpcInv /\ [Next]_vars => [Stream!Next]_(Stream!vars)
<1> SUFFICES ASSUME IpcInv, [Next]_vars PROVE [Stream!Next]_(Stream!vars)
  OBVIOUS
<1> USE IpcAssumption DEF Stream!Next, Stream!vars
<1>0. TypeOK /\ Accounting /\ Alternates /\ IpcInv'
  BY IpcStep DEF IpcInv
<1>1. CASE UNCHANGED vars
  BY <1>1 DEF vars, daemonVars, clientVars
<1>2. CASE Call
  BY <1>2 DEF Call, daemonVars, Stream!Ask
<1>3. CASE Write \/ Receive \/ Follow \/ FollowNext \/ EndOfStream \/ Quit \/ Broadcast
  BY <1>3 DEF Write, Receive, Follow, FollowNext, EndOfStream, Quit, Broadcast,
              daemonVars, clientVars
<1>4. CASE Read
  <2>1. CASE torn
    BY <1>4, <2>1 DEF Read, Close, clientVars
  <2>2. CASE ~torn /\ got + Ready = Parts
    <3>1. /\ daemon = "select" /\ daemon' = "handling" /\ handled' = handled + 1
          /\ torn' = torn /\ answered' = answered /\ calls' = calls
      BY <1>4, <2>2 DEF Read, clientVars
    <3>2. handled + 1 <= calls
      BY <1>0, <3>1 DEF IpcInv, TypeOK
    <3> QED
      BY <1>0, <2>2, <3>1, <3>2 DEF TypeOK, Alternates, Stream!Handle
  <2>3. CASE ~torn /\ got + Ready # Parts
    BY <1>4, <2>3 DEF Read, clientVars
  <2> QED
    BY <2>1, <2>2, <2>3
<1>5. CASE ReadEnd \/ Exit
  BY <1>5 DEF ReadEnd, Exit, Close, clientVars, Stream!Break
<1>6. CASE Reply
  <2>1. CASE client = "gone"
    BY <1>6, <2>1 DEF Reply, Close, clientVars, Stream!Break
  <2>2. CASE client # "gone"
    <3>1. /\ daemon = "handling" /\ daemon' = "select" /\ answered' = answered + 1
          /\ UNCHANGED <<calls, torn, handled>>
      BY <1>6, <2>2 DEF Reply, clientVars
    <3> QED
      BY <1>0, <3>1 DEF TypeOK, Alternates, Stream!Answer
  <2> QED
    BY <2>1, <2>2
<1>7. CASE ForwardEvent
  BY <1>0, <1>7 DEF ForwardEvent, Close, clientVars, Stream!Break, TypeOK
<1> QED
  BY <1>1, <1>2, <1>3, <1>4, <1>5, <1>6, <1>7 DEF Next

\* The handling of the requests on one connection is what RequestStream says,
\* although handle_unix_client drops reads half done: in order, at most once,
\* answered before the next.
THEOREM IpcInOrderAtMostOnce == Spec => InOrderAtMostOnce
<1>1. Init => Stream!Init
  BY DEF Init, Stream!Init
<1> QED
  BY <1>1, StreamStep, IpcInductive, PTL DEF Spec, Stream!Spec, InOrderAtMostOnce

-----------------------------------------------------------------------------
(* Counting the events                                                     *)

\* What EventsIn counts is finite.
LEMMA EventsInType ==
    ASSUME NEW s, NEW n \in Nat
    PROVE  /\ IsFiniteSet({i \in 1..n : s[i] = Event})
           /\ EventsIn(s, n) \in Nat
           /\ EventsIn(s, 0) = 0
<1>1. IsFiniteSet(1..n)
  BY FS_Interval
<1>2. IsFiniteSet({i \in 1..n : s[i] = Event})
  BY <1>1, FS_Subset
<1>3. EventsIn(s, n) \in Nat
  BY <1>2, FS_CardinalityType DEF EventsIn
<1>4. {i \in 1..0 : s[i] = Event} = {}
  OBVIOUS
<1>5. EventsIn(s, 0) = 0
  BY <1>4, FS_EmptySet DEF EventsIn
<1> QED
  BY <1>2, <1>3, <1>5

\* Frames that agree so far count the same.
LEMMA EventsInSame ==
    ASSUME NEW s, NEW t, NEW n \in Nat, \A i \in 1..n : s[i] = t[i]
    PROVE  EventsIn(s, n) = EventsIn(t, n)
<1>1. {i \in 1..n : s[i] = Event} = {i \in 1..n : t[i] = Event}
  OBVIOUS
<1> QED
  BY <1>1 DEF EventsIn

\* One more element is one more event, or none.
LEMMA EventsInNext ==
    ASSUME NEW s, NEW n \in Nat
    PROVE  EventsIn(s, n + 1) = EventsIn(s, n) + (IF s[n + 1] = Event THEN 1 ELSE 0)
<1> DEFINE E == {i \in 1..n : s[i] = Event}
           F == {i \in 1..n + 1 : s[i] = Event}
<1>1. IsFiniteSet(E) /\ n + 1 \notin E /\ Cardinality(E) \in Nat
  BY EventsInType DEF EventsIn
<1>2. CASE s[n + 1] = Event
  <2>1. F = E \cup {n + 1}
    BY <1>2
  <2>2. Cardinality(E \cup {n + 1}) = Cardinality(E) + 1
    <3> HIDE DEF E
    <3> QED
      BY <1>1, FS_AddElement
  <2> QED
    BY <1>2, <2>1, <2>2 DEF EventsIn
<1>3. CASE s[n + 1] # Event
  <2>1. F = E
    BY <1>3
  <2> QED
    BY <1>1, <1>3, <2>1 DEF EventsIn
<1> QED
  BY <1>2, <1>3

\* Taking the first frame off shifts the count.
LEMMA EventsInTail ==
    ASSUME NEW s \in Seq(Frames), s # <<>>, NEW n \in Nat, n < Len(s)
    PROVE  EventsIn(s, n + 1) = EventsIn(Tail(s), n) + (IF Head(s) = Event THEN 1 ELSE 0)
<1> DEFINE t == Tail(s)
           E == {i \in 1..n : t[i] = Event}
           F == {i \in 1..n + 1 : s[i] = Event} \ {1}
           up == [i \in E |-> i + 1]
<1>1. /\ Len(s) \in Nat \ {0} /\ Head(s) = s[1]
      /\ \A i \in 1..n : t[i] = s[i + 1]
  OBVIOUS
<1>2. IsFiniteSet(E) /\ EventsIn(t, n) = Cardinality(E) /\ Cardinality(E) \in Nat
  BY EventsInType DEF EventsIn
<1>3. Cardinality(F) = Cardinality(E)
  <2>1. up \in Bijection(E, F)
    <3>1. ASSUME NEW i \in E PROVE i + 1 \in F
      BY <1>1
    <3>2. ASSUME NEW j \in F PROVE j - 1 \in E /\ j = (j - 1) + 1
      BY <1>1
    <3>3. \A i, j \in E : i + 1 = j + 1 => i = j
      OBVIOUS
    <3>4. up \in [E -> F] /\ \A i \in E : up[i] = i + 1
      BY <3>1
    <3>5. \A i, j \in E : up[i] = up[j] => i = j
      BY <3>3, <3>4
    <3>6. \A j \in F : \E i \in E : up[i] = j
      BY <3>2, <3>4
    <3> HIDE DEF E, F, up
    <3> QED
      BY <3>4, <3>5, <3>6 DEF Bijection, Injection, IsInjective, Surjection
  <2>2. ExistsBijection(E, F)
    BY <2>1 DEF ExistsBijection
  <2> HIDE DEF E, F
  <2> QED
    BY <1>2, <2>2, FS_Bijection
<1>4. /\ IsFiniteSet({i \in 1..n + 1 : s[i] = Event})
      /\ EventsIn(s, n + 1) = Cardinality({i \in 1..n + 1 : s[i] = Event})
      /\ EventsIn(s, n + 1) \in Nat
  BY EventsInType, n + 1 \in Nat DEF EventsIn
<1>5. Cardinality(F) = IF Head(s) = Event THEN EventsIn(s, n + 1) - 1 ELSE EventsIn(s, n + 1)
  <2> DEFINE G == {i \in 1..n + 1 : s[i] = Event}
  <2>1. 1 \in G <=> Head(s) = Event
    BY <1>1
  <2>2. F = G \ {1} /\ IsFiniteSet(G) /\ EventsIn(s, n + 1) = Cardinality(G)
    BY <1>4
  <2> HIDE DEF F, G
  <2> QED
    BY <2>1, <2>2, FS_RemoveElement
<1> HIDE DEF E, F, t
<1> QED
  BY <1>2, <1>3, <1>4, <1>5 DEF t

-----------------------------------------------------------------------------
(* Which response a call takes                                             *)

\* Every step keeps Numbered: a response gets the next number when it is served,
\* and keeps it until a call takes it.
LEMMA NumberedStep ==
    ASSUME IpcInv, Numbered, [Next]_vars
    PROVE  Numbered'
<1> DEFINE L == Len(returned)
           taken == L - EventsIn(returned, L)
           O == Len(outbox)
           Calling == client \in {"idle", "sending", "waiting"}
<1>0. /\ returned \in Seq(Frames) /\ outbox \in Seq(Frames)
      /\ L \in Nat /\ O \in Nat /\ answered \in Nat
      /\ daemon = "handling" => handled = answered + 1
  <2>1. TypeOK /\ Alternates
    BY DEF IpcInv
  <2>2. /\ returned \in Seq(Frames) /\ outbox \in Seq(Frames)
        /\ daemon = "handling" => handled = answered + 1
    BY <2>1 DEF TypeOK, Alternates
  <2>3. calls \in Nat /\ handled \in Nat /\ answered \in Nat
    BY <2>1, IpcAssumption DEF TypeOK
  <2> QED
    BY <2>2, <2>3
<1>n. \A s, n : n \in Nat => EventsIn(s, n) \in Nat
  BY EventsInType
<1>t. EventsIn(returned, L) \in Nat /\ EventsIn(outbox, O) \in Nat /\ taken \in Int
  <2>1. EventsIn(returned, L) \in Nat /\ EventsIn(outbox, O) \in Nat
    BY <1>0, <1>n
  <2> QED
    BY <1>0, <2>1
<1>1. ASSUME Calling
      PROVE  /\ \A j \in 1..O : outbox[j] # Event => outbox[j] = taken + j - EventsIn(outbox, j - 1)
             /\ answered = taken + O - EventsIn(outbox, O)
  <2>1. DOMAIN outbox = 1..O
    BY <1>0
  <2> QED
    BY <1>1, <2>1, Zenon DEF Numbered
<1>2. CASE ~Calling'
  BY <1>2 DEF Numbered
<1>3. CASE UNCHANGED <<returned, outbox, answered>> /\ (Calling' => Calling)
  BY <1>3 DEF Numbered
<1>4. CASE Receive
  <2> DEFINE h == Head(outbox)
             one == IF h = Event THEN 1 ELSE 0
  <2>0. one \in {0, 1}
    OBVIOUS
  <2>1. /\ Calling /\ outbox # <<>> /\ returned' = Append(returned, h) /\ outbox' = Tail(outbox)
        /\ answered' = answered
    BY <1>4 DEF Receive, daemonVars
  <2>2. /\ L' = L + 1 /\ returned'[L + 1] = h
        /\ \A i \in 1..L : returned'[i] = returned[i]
    BY <1>0, <2>1
  <2>3. EventsIn(returned', L') = EventsIn(returned, L) + one
    <3>1. EventsIn(returned', L) = EventsIn(returned, L)
      BY <1>0, <2>2, EventsInSame
    <3>2. EventsIn(returned', L + 1) = EventsIn(returned', L) + one
      BY <1>0, <2>2, EventsInNext
    <3> QED
      BY <2>2, <3>1, <3>2
  <2>4. /\ O # 0 /\ O' = O - 1 /\ DOMAIN outbox' = 1..O - 1
        /\ \A j \in 1..O - 1 : outbox'[j] = outbox[j + 1]
    BY <1>0, <2>1
  <2>5. \A n \in Nat : n < O => EventsIn(outbox, n + 1) = EventsIn(outbox', n) + one
    BY <1>0, <2>1, EventsInTail
  <2>7. taken' = taken + 1 - one
    <3> HIDE DEF one, L
    <3> QED
      BY <1>0, <1>t, <2>0, <2>2, <2>3
  <2> HIDE DEF one, h, taken, L, O
  <2>8. ASSUME NEW j \in 1..O - 1, outbox'[j] # Event
        PROVE  outbox'[j] = taken' + j - EventsIn(outbox', j - 1)
    <3>1. j + 1 \in 1..O /\ j \in Nat /\ j - 1 \in Nat /\ outbox'[j] = outbox[j + 1]
          /\ (j + 1) - 1 = j /\ (j - 1) + 1 = j /\ j - 1 < O
      BY <1>0, <2>4
    <3>2. outbox[j + 1] = taken + (j + 1) - EventsIn(outbox, (j + 1) - 1)
      BY <1>1, <2>1, <2>8, <3>1
    <3>3. EventsIn(outbox, (j - 1) + 1) = EventsIn(outbox', j - 1) + one
      BY <2>5, <3>1
    <3>4. EventsIn(outbox', j - 1) \in Nat
      BY <1>n, <3>1
    <3> QED
      BY <1>t, <2>0, <2>7, <3>1, <3>2, <3>3, <3>4
  <2>9. answered' = taken' + O' - EventsIn(outbox', O')
    <3>1. O - 1 \in Nat /\ O - 1 < O /\ (O - 1) + 1 = O
      BY <1>0, <2>4
    <3>2. EventsIn(outbox, O) = EventsIn(outbox', O - 1) + one
      BY <2>5, <3>1
    <3>3. EventsIn(outbox', O - 1) \in Nat
      BY <1>n, <3>1
    <3>4. answered = taken + O - EventsIn(outbox, O)
      BY <1>1, <2>1
    <3>5. answered = (taken + 1 - one) + (O - 1) - EventsIn(outbox', O - 1)
      BY <1>0, <1>t, <2>0, <3>2, <3>3, <3>4
    <3> QED
      BY <2>1, <2>4, <2>7, <3>5
  <2> QED
    BY <2>4, <2>8, <2>9, Zenon DEF Numbered, taken, L, O
<1>5. ASSUME NEW e, Calling, returned' = returned, outbox' = Append(outbox, e),
             \/ e = Event /\ answered' = answered
             \/ e = answered + 1 /\ answered' = answered + 1
      PROVE  Numbered'
  <2> DEFINE one == IF e = Event THEN 1 ELSE 0
  <2>1. /\ O' = O + 1 /\ outbox'[O + 1] = e
        /\ \A i \in 1..O : outbox'[i] = outbox[i]
        /\ DOMAIN outbox' = 1..O + 1
    BY <1>0, <1>5
  <2>2. \A n \in 0..O : EventsIn(outbox', n) = EventsIn(outbox, n)
    <3>1. ASSUME NEW n \in 0..O PROVE n \in Nat /\ \A i \in 1..n : outbox'[i] = outbox[i]
      BY <1>0, <2>1
    <3> QED
      BY <3>1, EventsInSame
  <2>3. /\ e # Event <=> e = answered + 1 /\ answered' = answered + 1
        /\ one \in {0, 1} /\ answered' = answered + 1 - one
        /\ e # Event => one = 0
    <3>1. CASE e = Event
      BY <1>0, <1>5, <3>1 DEF Event
    <3>2. CASE e # Event
      BY <1>0, <1>5, <3>2
    <3> QED
      BY <3>1, <3>2
  <2>4. EventsIn(outbox', O + 1) = EventsIn(outbox, O) + one
    <3>1. EventsIn(outbox', O + 1) = EventsIn(outbox', O) + one
      BY <1>0, <2>1, EventsInNext
    <3>2. EventsIn(outbox', O) = EventsIn(outbox, O)
      BY <1>0, <2>2
    <3> QED
      BY <3>1, <3>2
  <2>5. taken' = taken
    BY <1>5
  <2>6. answered = taken + O - EventsIn(outbox, O)
    BY <1>1, <1>5
  <2> HIDE DEF one, taken, L, O
  <2>7. answered' = taken' + O' - EventsIn(outbox', O')
    <3>1. answered + 1 - one = taken + (O + 1) - (EventsIn(outbox, O) + one)
      <4>1. one \in {0, 1} /\ EventsIn(outbox, O) \in Nat /\ taken \in Int /\ O \in Nat
        BY <1>0, <1>t, <2>3
      <4> QED
        BY <2>6, <4>1
    <3> QED
      BY <1>0, <1>t, <2>1, <2>3, <2>4, <2>5, <3>1
  <2>8. ASSUME NEW j \in 1..O + 1, outbox'[j] # Event
        PROVE  outbox'[j] = taken' + j - EventsIn(outbox', j - 1)
    <3>1. EventsIn(outbox', j - 1) = EventsIn(outbox, j - 1)
      BY <1>0, <2>2
    <3>2. CASE j \in 1..O
      BY <1>1, <1>5, <2>1, <2>5, <2>8, <3>1, <3>2
    <3>3. CASE j = O + 1
      <4>1. (O + 1) - 1 = O /\ outbox'[j] = e
        BY <1>0, <2>1, <3>3
      <4>2. EventsIn(outbox', j - 1) = EventsIn(outbox, O)
        BY <3>1, <3>3, <4>1
      <4> QED
        BY <1>0, <1>t, <2>3, <2>5, <2>6, <2>8, <3>3, <4>1, <4>2
    <3> QED
      BY <1>0, <3>2, <3>3
  <2> QED
    BY <2>1, <2>7, <2>8, Zenon DEF Numbered, taken, L, O
<1>6. CASE Reply
  <2>1. CASE client \in {"gone", "following"}
    BY <1>2, <1>6, <2>1 DEF Reply, clientVars
  <2>3. CASE Calling
    <3>1. /\ returned' = returned /\ outbox' = Append(outbox, handled) /\ handled = answered + 1
          /\ answered' = answered + 1
      BY <1>0, <1>6, <2>3 DEF Reply, clientVars
    <3> QED
      BY <1>5, <2>3, <3>1
  <2> QED
    BY <2>1, <2>3 DEF IpcInv, TypeOK
<1>7. CASE ForwardEvent
  <2>1. CASE client \in {"gone", "following"}
    BY <1>2, <1>7, <2>1 DEF ForwardEvent, clientVars
  <2>3. CASE Calling
    BY <1>5, <1>7, <2>3 DEF ForwardEvent, clientVars
  <2> QED
    BY <2>1, <2>3 DEF IpcInv, TypeOK
<1>8. CASE Call \/ Write \/ Broadcast
  BY <1>3, <1>8 DEF Call, Write, Broadcast, clientVars, daemonVars
<1>9. CASE Follow \/ FollowNext \/ EndOfStream \/ Quit
  BY <1>2, <1>9 DEF Follow, FollowNext, EndOfStream, Quit, clientVars
<1>10. CASE Read \/ ReadEnd \/ Exit
  BY <1>3, <1>10 DEF Read, ReadEnd, Exit, Close, clientVars, daemonVars
<1>11. CASE UNCHANGED vars
  BY <1>3, <1>11 DEF vars, clientVars, daemonVars
<1> QED
  BY <1>4, <1>6, <1>7, <1>8, <1>9, <1>10, <1>11 DEF Next

\* BehindByEvents follows for the response a call takes.
LEMMA BehindStep ==
    ASSUME IpcInv, Numbered, BehindByEvents, [Next]_vars
    PROVE  BehindByEvents'
<1>0. /\ returned \in Seq(Frames) /\ outbox \in Seq(Frames) /\ Len(returned) \in Nat
      /\ DOMAIN returned = 1..Len(returned)
      /\ EventsIn(outbox, 0) = 0
      /\ \A n \in Nat : EventsIn(returned, n) \in Nat
  <2>1. returned \in Seq(Frames) /\ outbox \in Seq(Frames)
    BY DEF IpcInv, TypeOK
  <2>2. EventsIn(outbox, 0) = 0 /\ \A n \in Nat : EventsIn(returned, n) \in Nat
    BY EventsInType
  <2> QED
    BY <2>1, <2>2
<1>1. \A k \in 1..Len(returned) : returned[k] # Event => returned[k] = k - EventsIn(returned, k - 1)
  BY <1>0 DEF BehindByEvents, EventsIn
<1>2. CASE Receive
  <2> DEFINE h == Head(outbox)
  <2>1. /\ client = "waiting" /\ outbox # <<>> /\ returned' = Append(returned, h)
    BY <1>2 DEF Receive
  <2>2. h = outbox[1] /\ 1 \in DOMAIN outbox
    BY <1>0, <2>1
  <2>3. h # Event => h = Len(returned) + 1 - EventsIn(returned, Len(returned))
    <3>1. h # Event => h = Len(returned) - EventsIn(returned, Len(returned)) + 1 - EventsIn(outbox, 1 - 1)
      BY <2>1, <2>2 DEF Numbered
    <3>2. EventsIn(returned, Len(returned)) \in Nat /\ EventsIn(outbox, 1 - 1) = 0
      BY <1>0
    <3> QED
      BY <1>0, <3>1, <3>2
  <2> DEFINE L == Len(returned)
  <2>4. /\ DOMAIN returned' = 1..L + 1 /\ returned'[L + 1] = h
        /\ \A i \in 1..L : returned'[i] = returned[i]
    BY <1>0, <2>1, <2>2
  <2>5. \A n \in 0..L : EventsIn(returned', n) = EventsIn(returned, n)
    <3>1. ASSUME NEW n \in 0..L PROVE n \in Nat /\ \A i \in 1..n : returned'[i] = returned[i]
      BY <1>0, <2>4
    <3> QED
      BY <3>1, EventsInSame
  <2>6. L \in Nat /\ (L + 1) - 1 = L /\ EventsIn(returned, L) \in Nat
    BY <1>0
  <2> HIDE DEF h, L
  <2>7. ASSUME NEW k \in 1..L + 1, returned'[k] # Event
        PROVE  returned'[k] = k - EventsIn(returned', k - 1)
    <3>1. EventsIn(returned', k - 1) = EventsIn(returned, k - 1)
      BY <2>5, <2>6
    <3>2. CASE k \in 1..L
      BY <1>1, <2>4, <2>7, <3>1, <3>2 DEF L
    <3>3. CASE k = L + 1
      <4>1. returned'[k] = h /\ k - 1 = L
        BY <2>4, <2>6, <3>3
      <4>2. EventsIn(returned', k - 1) = EventsIn(returned, L)
        BY <3>1, <4>1
      <4>3. h = L + 1 - EventsIn(returned, L)
        BY <2>3, <2>7, <4>1 DEF L
      <4> QED
        BY <2>6, <3>3, <4>1, <4>2, <4>3
    <3> QED
      BY <2>6, <3>2, <3>3
  <2> QED
    BY <2>4, <2>7, Zenon DEF BehindByEvents, EventsIn
<1>3. CASE UNCHANGED returned
  BY <1>3 DEF BehindByEvents
<1> QED
  BY <1>2, <1>3 DEF Next, vars, clientVars, Call, Write, Follow, FollowNext, EndOfStream, Quit,
                    Read, ReadEnd, Reply, ForwardEvent, Broadcast, Exit

\* A call that takes a response is behind by the events earlier calls took for
\* theirs, whatever it does about it (send_request reads one frame, and looks
\* at no id).
THEOREM IpcBehindByEvents == Spec => []BehindByEvents
<1>1. Init => BehindInv
  <2>1. Init => Numbered /\ BehindByEvents
    <3>1. EventsIn(<<>>, 0) = 0
      BY EventsInType
    <3> QED
      BY <3>1 DEF Init, Numbered, BehindByEvents
  <2> QED
    BY <2>1, IpcInit DEF BehindInv
<1>2. BehindInv /\ [Next]_vars => BehindInv'
  BY IpcStep, NumberedStep, BehindStep DEF BehindInv
<1>3. BehindInv => BehindByEvents
  BY DEF BehindInv
<1> QED
  BY <1>1, <1>2, <1>3, PTL DEF Spec
=============================================================================
