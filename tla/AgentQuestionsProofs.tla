------------------------ MODULE AgentQuestionsProofs ------------------------
(***************************************************************************)
(* What TLAPS proves of AgentQuestions: its type invariant and its three   *)
(* safety invariants, for any number of phones, dialogs, questions and     *)
(* events.  The inductive invariant AgentInv is stated in AgentQuestions,  *)
(* where TLC checks it.  Each of its parts has a lemma with a step for     *)
(* every action that can disturb it; the lemmas come first that say what   *)
(* is in a queue after a question or a frame was put in or taken out.      *)
(***************************************************************************)
EXTENDS AgentQuestions, SequenceTheorems, TLAPS

USE AgentAssumption

\* A sequence over a set is one over a larger set.
LEMMA SeqGrows ==
  ASSUME NEW S, NEW T, S \subseteq T, NEW s \in Seq(S)
  PROVE  s \in Seq(T)
<1>1. Len(s) \in Nat /\ \A i \in 1..Len(s) : s[i] \in T
  OBVIOUS
<1>2. s = [i \in 1..Len(s) |-> s[i]]
  OBVIOUS
<1> QED
  BY <1>1, <1>2

\* What is left of a sequence without one of its positions.
LEMMA RemoveAtSeq ==
  ASSUME NEW S, NEW s \in Seq(S), NEW k \in 1..Len(s)
  PROVE  /\ RemoveAt(s, k) \in Seq(S)
         /\ Len(RemoveAt(s, k)) = Len(s) - 1
         /\ \A i \in 1..Len(s) - 1 : RemoveAt(s, k)[i] = IF i < k THEN s[i] ELSE s[i + 1]
<1> DEFINE a == SubSeq(s, 1, k - 1)
           b == SubSeq(s, k + 1, Len(s))
<1>1. a \in Seq(S) /\ Len(a) = k - 1 /\ \A i \in 1..k - 1 : a[i] = s[i]
  OBVIOUS
<1>2. b \in Seq(S) /\ Len(b) = Len(s) - k /\ \A i \in 1..Len(s) - k : b[i] = s[k + i]
  OBVIOUS
<1>3. RemoveAt(s, k) = a \o b
  BY DEF RemoveAt
<1> HIDE DEF a, b
<1>4. /\ a \o b \in Seq(S) /\ Len(a \o b) = Len(s) - 1
      /\ \A i \in 1..Len(s) - 1 : (a \o b)[i] = IF i <= k - 1 THEN a[i] ELSE b[i - (k - 1)]
  <2>1. /\ a \o b \in Seq(S) /\ Len(a \o b) = Len(a) + Len(b)
        /\ \A i \in 1..Len(a) + Len(b) :
              (a \o b)[i] = IF i <= Len(a) THEN a[i] ELSE b[i - Len(a)]
    BY <1>1, <1>2, ConcatProperties
  <2>2. Len(a) + Len(b) = Len(s) - 1
    BY <1>1, <1>2
  <2> QED
    BY <1>1, <2>1, <2>2
<1>5. ASSUME NEW i \in 1..Len(s) - 1
      PROVE  (a \o b)[i] = IF i < k THEN s[i] ELSE s[i + 1]
  <2>1. CASE i < k
    BY <1>1, <1>4, <2>1
  <2>2. CASE ~(i < k)
    <3>1. (a \o b)[i] = b[i - (k - 1)] /\ i - (k - 1) \in 1..Len(s) - k
      BY <1>4, <2>2
    <3>2. b[i - (k - 1)] = s[k + (i - (k - 1))] /\ k + (i - (k - 1)) = i + 1
      BY <1>2, <3>1
    <3> QED
      BY <2>2, <3>1, <3>2
  <2> QED
    BY <2>1, <2>2
<1> QED
  BY <1>3, <1>4, <1>5

\* The questions that are left when one is taken out.
LEMMA WithoutQuestion ==
  ASSUME NEW S, pending \in Seq(S), NEW q,
         \A i, j \in DOMAIN pending : pending[i] = pending[j] => i = j
  PROVE  /\ Without(q) \in Seq(S)
         /\ \A x : x \in Range(Without(q)) <=> x \in Range(pending) /\ x # q
         /\ \A i, j \in DOMAIN Without(q) : Without(q)[i] = Without(q)[j] => i = j
<1>1. CASE q \notin Range(pending)
  BY <1>1 DEF Without, Range
<1>2. CASE q \in Range(pending)
  <2> DEFINE k == CHOOSE i \in DOMAIN pending : pending[i] = q
             r == RemoveAt(pending, k)
             n == Len(pending)
  <2>1. k \in 1..n /\ pending[k] = q /\ n \in Nat
    BY <1>2 DEF Range
  <2>2. Without(q) = r
    BY <1>2 DEF Without
  <2>3. /\ r \in Seq(S) /\ Len(r) = n - 1
        /\ \A i \in 1..n - 1 : r[i] = IF i < k THEN pending[i] ELSE pending[i + 1]
    BY <2>1, RemoveAtSeq
  <2>4. \A i, j \in 1..n : pending[i] = pending[j] => i = j
    OBVIOUS
  <2> HIDE DEF r, k
  <2>5. DOMAIN r = 1..n - 1
    BY <2>3
  <2>6. \A i, j \in DOMAIN r : r[i] = r[j] => i = j
    <3> SUFFICES ASSUME NEW i \in 1..n - 1, NEW j \in 1..n - 1, r[i] = r[j] PROVE i = j
      BY <2>5
    <3> DEFINE old(x) == IF x < k THEN x ELSE x + 1
    <3>1. ASSUME NEW x \in 1..n - 1 PROVE old(x) \in 1..n /\ r[x] = pending[old(x)]
      <4>1. CASE x < k
        BY <2>1, <2>3, <4>1
      <4>2. CASE ~(x < k)
        BY <2>1, <2>3, <4>2
      <4> QED
        BY <4>1, <4>2
    <3>2. old(i) = old(j)
      <4> HIDE DEF old
      <4> QED
        BY <2>4, <3>1
    <3> QED
      BY <2>1, <3>2
  <2>7. ASSUME NEW x \in Range(r) PROVE x \in Range(pending) /\ x # q
    <3>1. PICK i \in 1..n - 1 : x = r[i]
      BY <2>5, <2>7, Zenon DEF Range
    <3>2. CASE i < k
      <4>1. x = pending[i] /\ i \in 1..n /\ i # k
        BY <2>1, <2>3, <3>1, <3>2
      <4> QED
        BY <2>1, <2>4, <4>1 DEF Range
    <3>3. CASE ~(i < k)
      <4>1. x = pending[i + 1] /\ i + 1 \in 1..n /\ i + 1 # k
        BY <2>1, <2>3, <3>1, <3>3
      <4> QED
        BY <2>1, <2>4, <4>1 DEF Range
    <3> QED
      BY <3>2, <3>3
  <2>8. ASSUME NEW x \in Range(pending), x # q PROVE x \in Range(r)
    <3>1. PICK i \in 1..n : x = pending[i]
      BY <2>8 DEF Range
    <3>2. CASE i < k
      <4>1. i \in 1..n - 1 /\ r[i] = x
        <5>1. i \in 1..n - 1
          <6> HIDE DEF n
          <6> QED
            BY <2>1, <3>2
        <5> HIDE DEF n
        <5> QED
          BY <2>3, <3>1, <3>2, <5>1
      <4> QED
        BY <2>5, <4>1 DEF Range
    <3>3. CASE ~(i < k)
      <4>1. i - 1 \in 1..n - 1 /\ r[i - 1] = x
        <5>1. i # k /\ i > k
          BY <2>1, <2>8, <3>1, <3>3
        <5> QED
          BY <2>1, <2>3, <3>1, <5>1
      <4> QED
        BY <2>5, <4>1 DEF Range
    <3> QED
      BY <3>2, <3>3
  <2> QED
    BY <2>2, <2>3, <2>6, <2>7, <2>8
<1> QED
  BY <1>1, <1>2

\* What is in a queue after something was taken from it.
LEMMA TailItems ==
  ASSUME NEW S, NEW s \in Seq(S), s # <<>>
  PROVE  /\ Tail(s) \in Seq(S) /\ Head(s) \in S /\ Head(s) = s[1] /\ 1 \in DOMAIN s
         /\ \A i \in DOMAIN Tail(s) : i + 1 \in DOMAIN s /\ Tail(s)[i] = s[i + 1]
         /\ \A x : x \in Range(s) <=> x = Head(s) \/ x \in Range(Tail(s))
<1>1. /\ Tail(s) \in Seq(S) /\ Head(s) \in S /\ Head(s) = s[1] /\ Len(s) \in Nat \ {0}
      /\ DOMAIN s = 1..Len(s) /\ DOMAIN Tail(s) = 1..Len(s) - 1
      /\ \A i \in 1..Len(s) - 1 : Tail(s)[i] = s[i + 1]
  OBVIOUS
<1>2. ASSUME NEW x \in Range(s), x # Head(s) PROVE x \in Range(Tail(s))
  <2>1. PICK i \in 1..Len(s) : x = s[i]
    BY <1>1, <1>2, Zenon DEF Range
  <2>2. i - 1 \in 1..Len(s) - 1 /\ Tail(s)[i - 1] = x
    BY <1>1, <1>2, <2>1
  <2> QED
    BY <1>1, <2>2, Zenon DEF Range
<1>3. ASSUME NEW x \in Range(Tail(s)) PROVE x \in Range(s)
  <2>1. PICK i \in 1..Len(s) - 1 : x = Tail(s)[i]
    BY <1>1, <1>3, Zenon DEF Range
  <2>2. i + 1 \in 1..Len(s) /\ s[i + 1] = x
    BY <1>1, <2>1
  <2> QED
    BY <1>1, <2>2, Zenon DEF Range
<1>4. Head(s) \in Range(s)
  BY <1>1 DEF Range
<1> QED
  BY <1>1, <1>2, <1>3, <1>4

\* What is in a queue after something was put into it.
LEMMA AppendItems ==
  ASSUME NEW S, NEW s \in Seq(S), NEW y \in S
  PROVE  /\ Append(s, y) \in Seq(S) /\ DOMAIN Append(s, y) = 1..Len(s) + 1
         /\ \A i \in 1..Len(s) : Append(s, y)[i] = s[i]
         /\ Append(s, y)[Len(s) + 1] = y
         /\ \A x : x \in Range(Append(s, y)) <=> x \in Range(s) \/ x = y
<1>1. /\ Append(s, y) \in Seq(S) /\ DOMAIN s = 1..Len(s) /\ Len(s) \in Nat
      /\ DOMAIN Append(s, y) = 1..Len(s) + 1
      /\ \A i \in 1..Len(s) : Append(s, y)[i] = s[i]
      /\ Append(s, y)[Len(s) + 1] = y
  OBVIOUS
<1>2. ASSUME NEW x \in Range(Append(s, y)), x # y PROVE x \in Range(s)
  <2>1. PICK i \in 1..Len(s) + 1 : x = Append(s, y)[i]
    BY <1>1, <1>2, Zenon DEF Range
  <2>2. i \in 1..Len(s) /\ s[i] = x
    BY <1>1, <1>2, <2>1
  <2> QED
    BY <1>1, <2>2, Zenon DEF Range
<1>3. ASSUME NEW x \in Range(s) PROVE x \in Range(Append(s, y))
  <2>1. PICK i \in 1..Len(s) : x = s[i]
    BY <1>1, <1>3, Zenon DEF Range
  <2>2. i \in 1..Len(s) + 1 /\ Append(s, y)[i] = x
    BY <1>1, <2>1
  <2> QED
    BY <1>1, <2>2, Zenon DEF Range
<1>4. y \in Range(Append(s, y))
  <2>1. Len(s) + 1 \in 1..Len(s) + 1
    BY <1>1
  <2> QED
    BY <1>1, <2>1, Zenon DEF Range
<1> QED
  BY <1>1, <1>2, <1>3, <1>4

-----------------------------------------------------------------------------
(* What the daemon sends to phones                                         *)

\* A broadcast adds one frame, to some phones.
LEMMA BroadcastFrames ==
  ASSUME TypeOK, NEW kind \in {"ask", "done"}, NEW q \in Pushed, Broadcast(kind, q)
  PROVE  /\ wire' \in [Phones -> Seq(Frames)]
         /\ \A p \in Phones : \A f \in Range(wire[p]) : f \in Range(wire'[p])
         /\ \A p \in Phones : \A f \in Range(wire'[p]) :
               f \in Range(wire[p]) \/ f = Frame(kind, q, FALSE)
<1> DEFINE g == Frame(kind, q, FALSE)
<1>1. g \in Frames /\ wire \in [Phones -> Seq(Frames)]
  BY DEF Frame, Frames, TypeOK
<1>2. \A p \in Phones : wire[p] \in Seq(Frames)
  BY <1>1
<1>3. wire' = [p \in Phones |-> IF p \in subscribed /\ Len(wire[p]) < QueueCap
                                THEN Append(wire[p], g) ELSE wire[p]]
  BY DEF Broadcast
<1> HIDE DEF g
<1>4. ASSUME NEW p \in Phones
      PROVE  /\ wire'[p] \in {wire[p], Append(wire[p], g)}
             /\ Append(wire[p], g) \in Seq(Frames)
             /\ \A x : x \in Range(Append(wire[p], g)) <=> x \in Range(wire[p]) \/ x = g
  <2>1. wire'[p] \in {wire[p], Append(wire[p], g)}
    BY <1>3
  <2>2. wire[p] \in Seq(Frames)
    BY <1>2
  <2>3. /\ Append(wire[p], g) \in Seq(Frames)
        /\ \A x : x \in Range(Append(wire[p], g)) <=> x \in Range(wire[p]) \/ x = g
    BY <1>1, <2>2, AppendItems
  <2> QED
    BY <2>1, <2>3
<1>5. wire' \in [Phones -> Seq(Frames)]
  <2>1. ASSUME NEW p \in Phones PROVE (IF p \in subscribed /\ Len(wire[p]) < QueueCap
                                THEN Append(wire[p], g) ELSE wire[p]) \in Seq(Frames)
    BY <1>2, <1>4, Zenon
  <2> QED
    BY <1>3, <2>1
<1>6. g = Frame(kind, q, FALSE)
  BY DEF g
<1> QED
  BY <1>4, <1>5, <1>6, Zenon

\* A flush puts every pending question on one wire.
LEMMA FlushFrames ==
  ASSUME TypeOK, NEW p \in Phones, Flush(p)
  PROVE  /\ wire' \in [Phones -> Seq(Frames)]
         /\ \A r \in Phones \ {p} : wire'[r] = wire[r]
         /\ \A f \in Range(wire[p]) : f \in Range(wire'[p])
         /\ \A q \in Range(pending) : Frame("ask", q, TRUE) \in Range(wire'[p])
         /\ \A f \in Range(wire'[p]) : f \in Range(wire[p]) \/ f.kind = "ask"
<1> DEFINE b == [i \in DOMAIN pending |-> Frame("ask", pending[i], TRUE)]
           w == wire[p] \o b
<1>1. wire \in [Phones -> Seq(Frames)] /\ wire[p] \in Seq(Frames) /\ pending \in Seq(Pushed)
  BY DEF TypeOK
<1>2. b \in Seq(Frames) /\ DOMAIN b = 1..Len(pending)
  <2>1. DOMAIN pending = 1..Len(pending) /\ Len(pending) \in Nat
    BY <1>1
  <2>2. \A i \in 1..Len(pending) : Frame("ask", pending[i], TRUE) \in Frames
    BY <1>1 DEF Frame, Frames
  <2>3. b \in [1..Len(pending) -> Frames]
    BY <2>1, <2>2, Zenon
  <2> HIDE DEF b
  <2> QED
    BY <2>1, <2>3
<1>3. \A f : f \in Range(b) <=> \E q \in Range(pending) : f = Frame("ask", q, TRUE)
  BY Zenon DEF Range
<1>4. w \in Seq(Frames) /\ Range(w) = Range(wire[p]) \cup Range(b)
  <2> HIDE DEF b
  <2> QED
    BY <1>1, <1>2, ConcatProperties, RangeConcatenation
<1>5. wire' = [wire EXCEPT ![p] = w]
  BY DEF Flush
<1>6. \A q : Frame("ask", q, TRUE).kind = "ask"
  BY DEF Frame
<1> HIDE DEF b, w
<1>7. wire' \in [Phones -> Seq(Frames)] /\ wire'[p] = w /\ \A r \in Phones \ {p} : wire'[r] = wire[r]
  BY <1>1, <1>4, <1>5
<1> QED
  BY <1>3, <1>4, <1>6, <1>7

-----------------------------------------------------------------------------
(* The steps                                                               *)

\* Only a push gives out an id, and the earlier questions keep theirs.
LEMMA PushedGrows ==
  ASSUME TypeOK, [Next]_vars
  PROVE  \/ asked' = asked /\ Pushed' = Pushed
         \/ /\ NewPush /\ (Push \/ PushTab) /\ asked' # asked
            /\ Pushed' = Pushed \cup {Len(asked) + 1} /\ Len(asked) + 1 \notin Pushed
<1>1. CASE NewPush /\ (Push \/ PushTab)
  <2>1. asked \in Seq(1..MaxDialogs) /\ Len(asked) \in Nat /\ dialog \in 0..MaxDialogs
    BY DEF TypeOK
  <2>2. Len(asked') = Len(asked) + 1
    BY <1>1, <2>1 DEF NewPush
  <2> QED
    BY <1>1, <2>1, <2>2 DEF Pushed
<1>2. CASE asked' = asked
  BY <1>2 DEF Pushed
<1> QED
  BY <1>1, <1>2, Zenon DEF Next, FrontNext, DaemonNext, PhoneNext, vars, frontVars, ShowDialog, Push,
     PushTab, Unblocked, TurnsIdle, LocalAnswer, LocalAnswerUnmarked, TabGone, HandleEvent,
     Enqueue, CloseTerminal, ServeBlocked, ServeResolved, ServeMark, Forget, TypesItself, OpenTunnel, List, Subscribe, Unsubscribe, Receive,
     CloseTunnel, Answer, Dismiss, Confirm

\* Types: a push adds an id to every set of ids, anything else keeps the sets.
LEMMA TypeStep ==
  ASSUME TypeOK, BlockedByDialog, QueueKept, [Next]_vars
  PROVE  TypeOK'
<1>1. CASE /\ NewPush /\ (Push \/ PushTab)
          /\ Pushed' = Pushed \cup {Len(asked) + 1}
  <2>1. Pushed \subseteq Pushed' /\ Len(asked) + 1 \in Pushed'
    BY <1>1
  <2>2. events \in Seq(Events') /\ pending \in Seq(Pushed')
    <3>1. Events \subseteq Events'
      BY <2>1 DEF Events
    <3> QED
      BY <2>1, <3>1, SeqGrows DEF TypeOK
  <2>3. wire \in [Phones -> Seq(Frames')]
    <3>1. Frames \subseteq Frames'
      BY <2>1 DEF Frames
    <3>2. wire \in [Phones -> Seq(Frames)]
      BY DEF TypeOK
    <3>3. \A p \in Phones : wire[p] \in Seq(Frames')
      BY <3>1, <3>2, SeqGrows
    <3> QED
      BY <3>2, <3>3
  <2>4. UNCHANGED <<status, dialog, events, daemonVars, phoneVars, history>>
    BY <1>1 DEF Push, PushTab
  <2>5. /\ asked' \in Seq(1..MaxDialogs) /\ Len(asked') <= MaxIds /\ ref' \in Pushed'
        /\ dialog \in 1..MaxDialogs
    <3>1. dialog \in 1..MaxDialogs
      BY <1>1 DEF Push, PushTab, TypeOK, BlockedByDialog
    <3> QED
      BY <1>1, <2>1, <3>1 DEF NewPush, TypeOK
  <2>6. calls' \subseteq Calls'
    <3>1. calls \subseteq Calls'
      BY <2>1 DEF TypeOK, Calls
    <3>2. /\ calls' \subseteq calls \cup {Call("resolved", ref), Call("blocked", ref')}
          /\ ref = 0 => calls' = calls \cup {Call("blocked", ref')}
      BY <1>1 DEF Push, PushTab, Invoke
    <3>3. /\ Call("blocked", ref') \in Calls'
          /\ ref # 0 => Call("resolved", ref) \in Calls'
      BY <2>1, <2>5 DEF Call, Calls, TypeOK
    <3> QED
      BY <3>1, <3>2, <3>3
  <2> QED
    BY <2>1, <2>2, <2>3, <2>4, <2>5, <2>6 DEF TypeOK, daemonVars, phoneVars, history, typing
<1>2. CASE asked' = asked /\ Pushed' = Pushed
  <2> DEFINE Typed ==
               /\ status' \in {"working", "blocked"}
               /\ dialog' \in 0..MaxDialogs
               /\ {listed', closed'} \subseteq BOOLEAN /\ again' \in {"no", "unmarked", "marked"}
               /\ ref' \in Pushed \cup {0} /\ asking' \in Pushed \cup {0}
               /\ calls' \subseteq Calls
               /\ events' \in Seq(Events)
               /\ pending' \in Seq(Pushed)
               /\ {answered', settled', ghosts', lost', typed'} \subseteq SUBSET Pushed
               /\ online' \subseteq Phones /\ subscribed' \subseteq online'
               /\ wire' \in [Phones -> Seq(Frames)]
               /\ shown' \in [Phones -> SUBSET Pushed]
  <2> SUFFICES Typed
    BY <1>2 DEF TypeOK, Calls, Frames, Events
  <2> USE DEF TypeOK, frontVars, daemonVars, phoneVars, history, typing, Invoke
  <2>0. /\ wire \in [Phones -> Seq(Frames)]
        /\ \A p \in Phones : wire[p] \in Seq(Frames)
    BY DEF TypeOK
  <2>1. ASSUME NEW q PROVE Without(q) \in Seq(Pushed)
    BY WithoutQuestion DEF TypeOK, QueueKept
  <2>2. \A q \in Pushed : /\ Call("resolved", q) \in Calls
                          /\ Call("mark", q) \in Calls
    BY DEF Call, Calls
  <2>3. CASE ShowDialog
    BY <2>0, <2>3 DEF ShowDialog
  <2>4. CASE Push \/ PushTab
    BY <1>2, <2>0, <2>2, <2>4, PushedGrows DEF Push, PushTab, NewPush
  <2>5. CASE Unblocked \/ TurnsIdle
    BY <2>0, <2>2, <2>5 DEF Unblocked, TurnsIdle, Resolutions
  <2>6. CASE LocalAnswer \/ LocalAnswerUnmarked \/ TabGone
    <3>1. CASE LocalAnswer
      BY <2>0, <2>2, <3>1 DEF LocalAnswer
    <3>2. CASE LocalAnswerUnmarked
      BY <1>2, <2>0, <3>2 DEF LocalAnswerUnmarked
    <3>3. CASE TabGone
      <4>1. events' \in Seq(Events)
        BY <3>3 DEF TabGone
      <4> QED
        BY <1>2, <2>0, <3>3, <4>1 DEF TabGone
    <3> QED
      BY <2>6, <3>1, <3>2, <3>3
  <2>7. CASE HandleEvent
    <3> DEFINE e == Head(events)
    <3>1. events \in Seq(Events) /\ events # <<>>
      BY <2>7 DEF HandleEvent, Events
    <3>2. e \in Events /\ events' \in Seq(Events)
      BY <2>7, <3>1 DEF HandleEvent
    <3>3. e.kind # "typed" => e.q \in Pushed
      BY <3>2 DEF Events
    <3> HIDE DEF e
    <3>4. /\ UNCHANGED <<status, dialog, asked, daemonVars, phoneVars, settled, ghosts, lost>>
          /\ ref' \in {ref, 0}
          /\ \/ e.kind # "typed" /\ Types(e.q)
             \/ UNCHANGED typing
          /\ calls' \subseteq calls \cup Resolutions(ref)
                                \cup (IF e.kind # "typed" THEN {Call("resolved", e.q)} ELSE {})
      BY <2>7 DEF HandleEvent, e
    <3>5. calls' \subseteq Calls
      BY <2>2, <3>3, <3>4 DEF Resolutions
    <3>6. typed' \in SUBSET Pushed /\ again' \in {"no", "unmarked", "marked"}
      <4>1. CASE e.kind # "typed" /\ Types(e.q)
        BY <3>3, <4>1 DEF Types
      <4> QED
        BY <3>4, <4>1
    <3> QED
      BY <2>0, <3>2, <3>4, <3>5, <3>6
  <2>8. CASE Enqueue
    <3>1. asking \in Pushed
      BY <2>8 DEF Enqueue
    <3>2. Append(Without(asking), asking) \in Seq(Pushed)
      BY <2>1, <3>1
    <3> QED
      BY <2>0, <2>8, <3>1, <3>2 DEF Enqueue
  <2>9. ASSUME NEW q \in Pushed PROVE ghosts \ {q} \in SUBSET Pushed /\ settled \cup {q} \in SUBSET Pushed
    OBVIOUS
  <2>10. ASSUME NEW q \in Pushed, NEW kind \in {"ask", "done"}, Broadcast(kind, q)
         PROVE  wire' \in [Phones -> Seq(Frames)]
    BY <2>10, BroadcastFrames
  <2>23. ASSUME NEW q \in Pushed, Settle(q)
         PROVE  /\ pending' \in Seq(Pushed) /\ settled' \in SUBSET Pushed
                /\ ghosts' \in SUBSET Pushed /\ lost' \in SUBSET Pushed
    <3>1. CASE listed
      BY <2>1, <2>9, <2>23, <3>1 DEF Settle
    <3>2. CASE ~listed
      BY <2>9, <2>23, <3>2 DEF Settle
    <3> QED
      BY <3>1, <3>2
  <2>24. CASE CloseTerminal
    BY <1>2, <2>0, <2>24 DEF CloseTerminal
  <2>11. ASSUME NEW p \in Phones, Flush(p)
         PROVE  wire' \in [Phones -> Seq(Frames)] /\ pending' \in Seq(Pushed)
    <3>1. wire' \in [Phones -> Seq(Frames)]
      BY <2>11, FlushFrames
    <3>2. pending' = <<>>
      BY <2>11 DEF Flush
    <3> QED
      BY <3>1, <3>2
  <2>12. ASSUME NEW q \in Pushed, ServeBlocked(q) PROVE Typed
    <3>1. wire' \in [Phones -> Seq(Frames)]
      BY <2>0, <2>10, <2>12 DEF ServeBlocked
    <3> QED
      BY <1>2, <2>12, <3>1 DEF ServeBlocked
  <2>13. ASSUME NEW q \in Pushed, ServeResolved(q) PROVE Typed
    <3>1. wire' \in [Phones -> Seq(Frames)] /\ Settle(q)
      BY <2>0, <2>10, <2>13 DEF ServeResolved
    <3> QED
      BY <1>2, <2>13, <2>23, <3>1 DEF ServeResolved
  <2>14. ASSUME NEW q \in Pushed, ServeMark(q) PROVE Typed
    <3>1. typed' \in SUBSET Pushed /\ again' \in {"no", "unmarked", "marked"}
      BY <2>14 DEF ServeMark, Types
    <3>2. calls' \subseteq Calls
      BY <2>2, <2>14 DEF ServeMark
    <3> QED
      BY <1>2, <2>0, <2>14, <3>1, <3>2 DEF ServeMark
  <2>15. ASSUME NEW q \in Pushed, Forget(q) PROVE Typed
    BY <1>2, <2>0, <2>15 DEF Forget
  <2>16. ASSUME NEW p \in Phones, TypesItself(p) \/ List(p) \/ Unsubscribe(p) PROVE Typed
    <3>1. events' \in Seq(Events)
      <4>1. [kind |-> "typed", q |-> 0] \in Events
        BY DEF Events
      <4>2. Append(events, [kind |-> "typed", q |-> 0]) \in Seq(Events) /\ events \in Seq(Events)
        BY <4>1
      <4> QED
        BY <2>16, <4>2 DEF TypesItself, List, Unsubscribe, Emit
    <3> QED
      BY <1>2, <2>0, <2>16, <3>1 DEF TypesItself, List, Unsubscribe
  <2>17. ASSUME NEW p \in Phones, OpenTunnel(p) \/ Subscribe(p) PROVE Typed
    <3>1. Flush(p)
      BY <2>17 DEF OpenTunnel, Subscribe
    <3>2. ghosts' = {}
      BY <3>1 DEF Flush
    <3> QED
      BY <1>2, <2>11, <2>17, <3>1, <3>2 DEF OpenTunnel, Subscribe
  <2>18. ASSUME NEW p \in Phones, Receive(p) PROVE Typed
    <3>1. wire[p] \in Seq(Frames) /\ wire[p] # <<>>
      BY <2>0, <2>18 DEF Receive
    <3>2. Tail(wire[p]) \in Seq(Frames) /\ Head(wire[p]) \in Frames
      BY <3>1
    <3>3. Head(wire[p]).q \in Pushed
      BY <3>2 DEF Frames
    <3>4. wire' \in [Phones -> Seq(Frames)]
      BY <2>0, <2>18, <3>2 DEF Receive
    <3>5. shown' \in [Phones -> SUBSET Pushed]
      BY <2>18, <3>3 DEF Receive
    <3> QED
      BY <1>2, <2>18, <3>4, <3>5 DEF Receive
  <2>19. ASSUME NEW p \in Phones, CloseTunnel(p) PROVE Typed
    <3>1. wire' \in [Phones -> Seq(Frames)]
      BY <2>0, <2>19 DEF CloseTunnel
    <3>2. lost' \in SUBSET Pushed
      <4>1. ASSUME NEW f \in Range(wire[p]) PROVE f.q \in Pushed
        <5>1. PICK i \in DOMAIN wire[p] : f = wire[p][i]
          BY Zenon DEF Range
        <5>2. f \in Frames
          BY <2>0, <5>1
        <5> QED
          BY <5>2 DEF Frames
      <4> QED
        BY <2>19, <4>1 DEF CloseTunnel
    <3> QED
      BY <1>2, <2>19, <3>1, <3>2 DEF CloseTunnel
  <2>20. ASSUME NEW p \in Phones, NEW q \in Pushed, Answer(p, q) \/ Confirm(p, q) PROVE Typed
    <3>1. events' \in Seq(Events)
      <4>1. [kind |-> "answer", q |-> q] \in Events /\ [kind |-> "confirm", q |-> q] \in Events
        BY DEF Events
      <4>2. /\ Append(events, [kind |-> "answer", q |-> q]) \in Seq(Events)
            /\ Append(events, [kind |-> "confirm", q |-> q]) \in Seq(Events)
        BY <4>1
      <4> QED
        BY <2>20, <4>2 DEF Answer, Confirm, Emit
    <3>2. Settle(q)
      BY <2>20 DEF Answer, Confirm
    <3> QED
      BY <1>2, <2>0, <2>20, <2>23, <3>1, <3>2 DEF Answer, Confirm
  <2>21. ASSUME NEW p \in Phones, NEW q \in Pushed, Dismiss(p, q) PROVE Typed
    <3>1. wire' \in [Phones -> Seq(Frames)] /\ Settle(q)
      BY <2>10, <2>21 DEF Dismiss
    <3>2. shown' \in [Phones -> SUBSET Pushed]
      BY <2>21 DEF Dismiss
    <3> QED
      BY <1>2, <2>21, <2>23, <3>1, <3>2 DEF Dismiss
  <2>22. CASE UNCHANGED vars
    BY <1>2, <2>22 DEF vars, Events, Calls, Frames
  <2> QED
    <3> HIDE DEF Typed
    <3> QED
    BY <2>3, <2>4, <2>5, <2>6, <2>7, <2>8, <2>12, <2>13, <2>14, <2>15, <2>16, <2>17, <2>18,
       <2>19, <2>20, <2>21, <2>22, <2>24, Zenon DEF Next, FrontNext, DaemonNext, PhoneNext
<1> QED
  BY <1>1, <1>2, PushedGrows

\* A queue's order does not matter here, only that no question is in it twice.
LEMMA QueueStep ==
  ASSUME TypeOK, QueueKept, [Next]_vars
  PROVE  QueueKept'
<1> DEFINE Once(s) == \A i, j \in DOMAIN s : s[i] = s[j] => i = j
<1>1. pending \in Seq(Pushed) /\ Once(pending)
  BY DEF TypeOK, QueueKept
<1>2. ASSUME NEW q
      PROVE  /\ Once(Without(q)) /\ Without(q) \in Seq(Pushed) /\ q \notin Range(Without(q))
             /\ Without(q) # <<>> => pending # <<>>
  <2>1. /\ Once(Without(q)) /\ Without(q) \in Seq(Pushed)
        /\ \A x : x \in Range(Without(q)) <=> x \in Range(pending) /\ x # q
    BY <1>1, WithoutQuestion
  <2>2. pending = <<>> => Without(q) = <<>>
    <3>1. pending = <<>> => Range(pending) = {}
      BY DEF Range
    <3> QED
      BY <3>1 DEF Without
  <2> QED
    BY <2>1, <2>2
<1>3. Once(<<>>)
  OBVIOUS
<1>0. closed' => ~listed' /\ subscribed' = {}
  <2> DEFINE Stays == UNCHANGED <<listed, closed, subscribed>>
  <2>1. ASSUME FrontNext PROVE Stays
    BY <2>1, Zenon DEF FrontNext, ShowDialog, Push, PushTab, Unblocked, TurnsIdle, LocalAnswer,
       LocalAnswerUnmarked, TabGone, HandleEvent, daemonVars, phoneVars
  <2>2. ASSUME DaemonNext PROVE Stays \/ CloseTerminal
    BY <2>2, Zenon DEF DaemonNext, Enqueue, ServeBlocked, ServeResolved, ServeMark, Forget, phoneVars
  <2>3. ASSUME NEW p \in Phones,
               \/ TypesItself(p) \/ OpenTunnel(p) \/ Receive(p)
               \/ \E q \in Pushed : Answer(p, q) \/ Dismiss(p, q) \/ Confirm(p, q)
        PROVE  Stays
    BY <2>3, Zenon DEF TypesItself, OpenTunnel, Receive, Answer, Dismiss, Confirm, daemonVars, phoneVars
  <2>4. CASE Stays \/ CloseTerminal
    BY <2>4 DEF QueueKept, CloseTerminal
  <2>5. ASSUME NEW p \in Phones, List(p) \/ Subscribe(p) \/ Unsubscribe(p) \/ CloseTunnel(p)
        PROVE  closed' => ~listed' /\ subscribed' = {}
    BY <2>5 DEF QueueKept, List, Subscribe, Unsubscribe, CloseTunnel, daemonVars, phoneVars
  <2>6. CASE UNCHANGED vars
    BY <2>6 DEF QueueKept, vars, daemonVars, phoneVars
  <2> QED
    BY <2>1, <2>2, <2>3, <2>4, <2>5, <2>6, Zenon DEF Next, PhoneNext
<1>4. CASE UNCHANGED <<asking, pending>> /\ (listed \/ closed => listed' \/ closed')
  BY <1>0, <1>4 DEF QueueKept
<1>5. ASSUME NEW q, Settle(q), UNCHANGED <<asking, listed, closed>> PROVE QueueKept'
  BY <1>0, <1>2, <1>5 DEF QueueKept, Settle
<1>6. ASSUME NEW p, Flush(p), UNCHANGED <<asking, listed, closed>> PROVE QueueKept'
  BY <1>0, <1>6 DEF QueueKept, Flush
<1>7. CASE Enqueue
  <2> DEFINE r == Without(asking)
  <2>1. /\ pending' = Append(r, asking) /\ asking \in Pushed /\ asking # 0
        /\ asking' = 0 /\ UNCHANGED <<listed, closed>>
    BY <1>7 DEF Enqueue, TypeOK
  <2>2. r \in Seq(Pushed) /\ Once(r) /\ asking \notin Range(r)
    BY <1>2
  <2> HIDE DEF r
  <2>3. /\ DOMAIN pending' = 1..Len(r) + 1 /\ Len(r) \in Nat /\ DOMAIN r = 1..Len(r)
        /\ \A i \in 1..Len(r) : pending'[i] = r[i]
        /\ pending'[Len(r) + 1] = asking
    BY <2>1, <2>2, AppendItems
  <2>4. \A i \in 1..Len(r) : r[i] # asking
    BY <2>2, <2>3, Zenon DEF Range
  <2>5. Once(pending')
    BY <2>2, <2>3, <2>4
  <2> QED
    BY <1>0, <2>1, <2>5 DEF QueueKept
<1>8. ASSUME NEW q \in Pushed, ServeBlocked(q) PROVE QueueKept'
  BY <1>0, <1>8 DEF ServeBlocked, QueueKept
<1> HIDE DEF Once
<1>9. ASSUME NEW q \in Pushed, ServeResolved(q) PROVE QueueKept'
  BY <1>5, <1>9 DEF ServeResolved
<1>10. CASE CloseTerminal
  BY <1>4, <1>10 DEF CloseTerminal
<1> QED
  BY <1>4, <1>5, <1>6, <1>7, <1>8, <1>9, <1>10 DEF Next, FrontNext, DaemonNext, PhoneNext, vars,
     daemonVars, ShowDialog, Push, PushTab, Unblocked, TurnsIdle, LocalAnswer,
     LocalAnswerUnmarked, TabGone, HandleEvent, ServeMark, Forget,
     TypesItself, OpenTunnel, List, Subscribe, Unsubscribe, Receive, CloseTunnel,
     Answer, Dismiss, Confirm

\* An open question leaves the front end with its resolution.
LEMMA AskedStep ==
  ASSUME TypeOK, AskedIsOpen, [Next]_vars
  PROVE  AskedIsOpen'
<1> SUFFICES ASSUME NEW q \in Pushed',
                    asking' = q \/ Call("blocked", q) \in calls'
             PROVE  q \in settled' \cup {ref'} \/ Call("resolved", q) \in calls' \/ closed'
  BY DEF AskedIsOpen
<1> DEFINE Open == q \in settled' \cup {ref'} \/ Call("resolved", q) \in calls' \/ closed'
<1>0. /\ q # 0
      /\ \A op1, op2, x, y : Call(op1, x) = Call(op2, y) => op1 = op2 /\ x = y
      /\ asking = q \/ Call("blocked", q) \in calls =>
            q \in settled \cup {ref} \/ Call("resolved", q) \in calls \/ closed
      /\ closed => closed'
  <2>1. closed => closed'
    BY Zenon DEF Next, FrontNext, DaemonNext, PhoneNext, vars, daemonVars,
       ShowDialog, Push, PushTab, Unblocked, TurnsIdle, LocalAnswer, LocalAnswerUnmarked, TabGone,
       HandleEvent, Enqueue, CloseTerminal, ServeBlocked, ServeResolved, ServeMark, Forget,
       TypesItself, OpenTunnel, List, Subscribe, Unsubscribe, Receive, CloseTunnel,
       Answer, Dismiss, Confirm
  <2> QED
    BY <2>1 DEF Call, AskedIsOpen, Pushed, TypeOK, Calls
<1>1. CASE Push \/ PushTab
  BY <1>0, <1>1 DEF Push, PushTab, NewPush, Invoke, daemonVars, history
<1>2. CASE Unblocked \/ LocalAnswer
  BY <1>0, <1>2 DEF Unblocked, LocalAnswer, Resolutions, Invoke, daemonVars, history
<1>3. CASE HandleEvent
  BY <1>0, <1>3 DEF HandleEvent, Resolutions, Invoke, daemonVars, history
<1>4. ASSUME NEW x, ServeBlocked(x) PROVE Open
  BY <1>0, <1>4 DEF ServeBlocked, Serving, frontVars
<1>5. ASSUME NEW x, ServeResolved(x) PROVE Open
  BY <1>0, <1>5 DEF ServeResolved, Settle, frontVars
<1>6. ASSUME NEW x, ServeMark(x) PROVE Open
  BY <1>0, <1>6 DEF ServeMark, frontVars
<1>7. CASE Enqueue
  BY <1>0, <1>7 DEF Enqueue, frontVars
<1>8. CASE UNCHANGED <<ref, calls, asking>> /\ settled \subseteq settled'
  BY <1>0, <1>8
<1>9. CASE TabGone
  BY <1>0, <1>9 DEF TabGone
<1> QED
  BY <1>1, <1>2, <1>3, <1>4, <1>5, <1>6, <1>7, <1>8, <1>9 DEF Next, FrontNext, DaemonNext, PhoneNext, vars,
     frontVars, daemonVars, history, ShowDialog, TurnsIdle, LocalAnswerUnmarked, Forget,
     CloseTerminal, Settle,
     TypesItself, OpenTunnel, List, Subscribe, Unsubscribe, Receive, CloseTunnel,
     Answer, Dismiss, Confirm

\* A question leaves the queue with its settlement, and enters it with its
\* resolution to come.
LEMMA PendingStep ==
  ASSUME TypeOK, QueueKept, AskedIsOpen, PendingIsOpen, [Next]_vars
  PROVE  PendingIsOpen'
<1> SUFFICES ASSUME NEW q \in Range(pending'), q \notin ghosts'
             PROVE  /\ q \notin settled'
                    /\ q = ref' \/ Call("resolved", q) \in calls' \/ closed'
  BY DEF PendingIsOpen
<1> DEFINE Open == /\ q \notin settled'
                   /\ q = ref' \/ Call("resolved", q) \in calls' \/ closed'
<1> SUFFICES Open
  OBVIOUS
<1>1. \A op1, op2, x, y : Call(op1, x) = Call(op2, y) => op1 = op2 /\ x = y
  BY DEF Call
<1>2. q \in Range(pending) \ ghosts =>
        /\ q \notin settled
        /\ q = ref \/ Call("resolved", q) \in calls \/ closed
  BY DEF PendingIsOpen
<1>0. closed => closed'
  BY Zenon DEF Next, FrontNext, DaemonNext, PhoneNext, vars, daemonVars,
     ShowDialog, Push, PushTab, Unblocked, TurnsIdle, LocalAnswer, LocalAnswerUnmarked, TabGone,
     HandleEvent, Enqueue, CloseTerminal, ServeBlocked, ServeResolved, ServeMark, Forget,
     TypesItself, OpenTunnel, List, Subscribe, Unsubscribe, Receive, CloseTunnel,
     Answer, Dismiss, Confirm
<1>3. \A x, y : y \in Range(Without(x)) <=> y \in Range(pending) /\ y # x
  BY WithoutQuestion DEF TypeOK, QueueKept
<1>4. \A s : s = <<>> => Range(s) = {}
  BY DEF Range
<1>5. CASE /\ UNCHANGED <<pending, ghosts, settled>>
           /\ ref' # ref /\ ref # 0 => Call("resolved", ref) \in calls' \/ closed'
           /\ \A x : Call("resolved", x) \in calls => Call("resolved", x) \in calls'
  <2>1. q # 0
    <3>1. PICK i \in DOMAIN pending : q = pending[i]
      BY <1>5, Zenon DEF Range
    <3> QED
      BY <3>1 DEF TypeOK, Pushed
  <2> QED
    BY <1>0, <1>2, <1>5, <2>1
<1>6. ASSUME NEW x, Settle(x), ref' = ref, calls \ {Call("resolved", x)} \subseteq calls' PROVE Open
  <2>1. CASE listed
    BY <1>0, <1>1, <1>2, <1>3, <1>6, <2>1 DEF Settle
  <2>2. CASE ~listed
    BY <1>0, <1>1, <1>2, <1>6, <2>2 DEF Settle
  <2> QED
    BY <2>1, <2>2
<1>7. CASE pending' = <<>>
  BY <1>4, <1>7
<1>8. CASE Enqueue
  <2>1. /\ pending' = Append(Without(asking), asking) /\ asking \in Pushed
        /\ ghosts' = ghosts \cup ({asking} \cap settled) /\ UNCHANGED <<ref, calls, settled, closed>>
    BY <1>8 DEF Enqueue, TypeOK, frontVars
  <2>2. Without(asking) \in Seq(Pushed)
    BY WithoutQuestion DEF TypeOK, QueueKept
  <2>3. q \in Range(Without(asking)) \/ q = asking
    BY <2>1, <2>2, AppendItems
  <2>4. CASE q = asking
    BY <2>1, <2>4 DEF AskedIsOpen
  <2> QED
    BY <1>2, <1>3, <2>1, <2>3, <2>4
<1>9. ASSUME NEW x \in Pushed, ServeResolved(x) PROVE Open
  BY <1>6, <1>9 DEF ServeResolved, frontVars
<1>10. ASSUME NEW p, NEW x, Answer(p, x) \/ Dismiss(p, x) \/ Confirm(p, x) PROVE Open
  BY <1>6, <1>10 DEF Answer, Dismiss, Confirm, frontVars
<1>11. ASSUME NEW p, OpenTunnel(p) \/ Subscribe(p) PROVE Open
  BY <1>7, <1>11 DEF OpenTunnel, Subscribe, Flush
<1>12. CASE Push \/ PushTab \/ Unblocked \/ LocalAnswer \/ TabGone
  BY <1>5, <1>12 DEF Push, PushTab, NewPush, Unblocked, LocalAnswer, TabGone, Resolutions, Invoke, daemonVars, history
<1>13. CASE HandleEvent
  BY <1>5, <1>13 DEF HandleEvent, Resolutions, Invoke, daemonVars
<1>14. ASSUME NEW x, ServeBlocked(x) \/ ServeMark(x) PROVE Open
  BY <1>1, <1>5, <1>14 DEF ServeBlocked, ServeMark, frontVars
<1>15. CASE UNCHANGED <<ref, calls, pending, ghosts, settled>>
  BY <1>0, <1>5, <1>15
<1> HIDE DEF Open
<1>16. ASSUME NEW p, TypesItself(p) \/ List(p) \/ Unsubscribe(p) \/ Receive(p) \/ CloseTunnel(p) PROVE Open
  BY <1>15, <1>16 DEF TypesItself, List, Unsubscribe, Receive, CloseTunnel, frontVars, daemonVars, history
<1>17. ASSUME NEW x, Forget(x) PROVE Open
  BY <1>15, <1>17 DEF Forget, frontVars
<1>18. CASE \/ ShowDialog \/ TurnsIdle \/ LocalAnswerUnmarked \/ CloseTerminal
            \/ UNCHANGED vars
  BY <1>15, <1>18 DEF ShowDialog, TurnsIdle, LocalAnswerUnmarked, CloseTerminal, vars, frontVars, daemonVars, history
<1> QED
  BY <1>8, <1>9, <1>10, <1>11, <1>12, <1>13, <1>14, <1>16, <1>17, <1>18, Zenon
     DEF Next, FrontNext, DaemonNext, PhoneNext

\* Frames of the kind "done" are sent by those who settle.
LEMMA DoneStep ==
  ASSUME TypeOK, DoneIsSettled, [Next]_vars
  PROVE  DoneIsSettled'
<1> SUFFICES ASSUME NEW p \in Phones, NEW f \in Range(wire'[p]), f.kind = "done"
             PROVE  f.q \in settled'
  BY DEF DoneIsSettled
<1>1. f \in Range(wire[p]) => f.q \in settled
  BY DEF DoneIsSettled
<1>3. ASSUME NEW x \in Pushed, Broadcast("done", x), settled' = settled \cup {x}
      PROVE  f.q \in settled'
  <2>1. f \in Range(wire[p]) \/ f = Frame("done", x, FALSE)
    BY <1>3, BroadcastFrames
  <2> QED
    BY <1>1, <1>3, <2>1 DEF Frame
<1>4. ASSUME NEW x \in Pushed, Broadcast("ask", x), settled' = settled
      PROVE  f.q \in settled'
  <2>1. f \in Range(wire[p]) \/ f = Frame("ask", x, FALSE)
    BY <1>4, BroadcastFrames
  <2> QED
    BY <1>1, <1>4, <2>1 DEF Frame
<1>5. ASSUME NEW r \in Phones, Flush(r), settled' = settled PROVE f.q \in settled'
  <2>1. f \in Range(wire[p])
    BY <1>5, FlushFrames
  <2> QED
    BY <1>1, <1>5, <2>1
<1>6. CASE wire' = wire /\ settled \subseteq settled'
  BY <1>1, <1>6
<1>7. ASSUME NEW x \in Pushed, ServeBlocked(x) PROVE f.q \in settled'
  BY <1>4, <1>6, <1>7 DEF ServeBlocked
<1>8. ASSUME NEW x \in Pushed, ServeResolved(x) PROVE f.q \in settled'
  BY <1>3, <1>6, <1>8 DEF ServeResolved, Settle
<1>9. ASSUME NEW r \in Phones, NEW x \in Pushed, Dismiss(r, x) PROVE f.q \in settled'
  BY <1>3, <1>9 DEF Dismiss, Settle
<1>10. ASSUME NEW r \in Phones, NEW x \in Pushed, Answer(r, x) \/ Confirm(r, x) PROVE f.q \in settled'
  BY <1>6, <1>10 DEF Answer, Confirm, Settle, phoneVars
<1>11. ASSUME NEW r \in Phones, OpenTunnel(r) \/ Subscribe(r) PROVE f.q \in settled'
  BY <1>5, <1>11 DEF OpenTunnel, Subscribe
<1>12. ASSUME NEW r \in Phones, Receive(r) PROVE f.q \in settled'
  <2>1. wire[r] \in Seq(Frames) /\ wire[r] # <<>> /\ settled' = settled
    BY <1>12 DEF Receive, TypeOK, history
  <2>2. \A x : x \in Range(Tail(wire[r])) => x \in Range(wire[r])
    BY <2>1, TailItems
  <2>3. wire'[p] = IF p = r THEN Tail(wire[r]) ELSE wire[p]
    BY <1>12 DEF Receive, TypeOK
  <2> QED
    BY <1>1, <2>1, <2>2, <2>3
<1>13. ASSUME NEW r \in Phones, CloseTunnel(r) PROVE f.q \in settled'
  <2>1. wire'[p] = IF p = r THEN <<>> ELSE wire[p]
    BY <1>13 DEF CloseTunnel, TypeOK
  <2>2. Range(<<>>) = {}
    BY DEF Range
  <2>3. settled' = settled
    BY <1>13 DEF CloseTunnel
  <2> QED
    BY <1>1, <2>1, <2>2, <2>3
<1> QED
  BY <1>6, <1>7, <1>8, <1>9, <1>10, <1>11, <1>12, <1>13 DEF Next, FrontNext, DaemonNext, PhoneNext,
     vars, phoneVars, history, ShowDialog, Push, PushTab, Unblocked, TurnsIdle, LocalAnswer,
     LocalAnswerUnmarked, TabGone, HandleEvent, Enqueue, CloseTerminal, ServeMark, Forget, TypesItself, List, Unsubscribe

\* The question on the front end's mind is handed on from one to the next.
LEMMA ForgottenStep ==
  ASSUME TypeOK, QueueKept, DoneIsSettled, NoQuestionForgotten, [Next]_vars
  PROVE  NoQuestionForgotten'
<1> DEFINE Kept ==
      \/ Call("blocked", ref) \in calls \/ asking = ref
      \/ ref \in Range(pending)
      \/ \E p \in Phones : ref \in shown[p] \/ Frame("ask", ref, TRUE) \in Range(wire[p])
           Goal == ref' # 0 /\ ref' \notin settled' \cup lost' => Kept'
<1> SUFFICES Goal
  BY DEF NoQuestionForgotten
<1>1. ref # 0 /\ ref \notin settled \cup lost => Kept
  BY DEF NoQuestionForgotten
<1>2. \A op1, op2, x, y : Call(op1, x) = Call(op2, y) => op1 = op2 /\ x = y
  BY DEF Call
<1>3. \A x, y : y \in Range(Without(x)) <=> y \in Range(pending) /\ y # x
  BY WithoutQuestion DEF TypeOK, QueueKept
<1>4. CASE ref' = 0
  BY <1>4
<1>5. CASE /\ UNCHANGED <<ref, asking, pending, wire>> /\ settled \subseteq settled' /\ lost \subseteq lost'
           /\ Call("blocked", ref) \in calls => Call("blocked", ref) \in calls'
           /\ \A p \in Phones : shown[p] \subseteq shown'[p]
  BY <1>1, <1>5
<1>6. CASE Push \/ PushTab
  <2>1. CASE NewPush /\ Call("blocked", ref') \in calls'
    BY <2>1
  <2>2. CASE UNCHANGED ref
    BY <1>5, <1>6, <2>2 DEF Push, PushTab, Invoke, daemonVars, phoneVars, history
  <2> QED
    BY <1>6, <2>1, <2>2 DEF Push, PushTab, Invoke
<1>7. CASE Unblocked \/ LocalAnswer \/ TabGone
  BY <1>4, <1>7 DEF Unblocked, LocalAnswer, TabGone
<1>8. CASE HandleEvent
  <2>1. CASE ref' = ref
    BY <1>5, <1>8, <2>1 DEF HandleEvent, Invoke, daemonVars, phoneVars
  <2> QED
    BY <1>4, <1>8, <2>1 DEF HandleEvent
<1>9. ASSUME NEW x \in Pushed, ServeBlocked(x) PROVE Goal
  <2>1. CASE ~listed
    <3>1. /\ ref' = ref /\ settled' = settled /\ lost' = lost \cup ({x} \ settled)
          /\ calls' = calls \ {Call("blocked", x)} /\ UNCHANGED <<asking, pending, shown, wire>>
      BY <1>9, <2>1 DEF ServeBlocked, frontVars
    <3> QED
      BY <1>1, <1>2, <3>1
  <2>2. CASE listed
    <3>1. /\ UNCHANGED <<ref, settled, lost, pending, shown>> /\ asking = 0 /\ asking' = x
          /\ calls' = calls \ {Call("blocked", x)} /\ Broadcast("ask", x)
      BY <1>9, <2>2 DEF ServeBlocked, Serving, frontVars
    <3>2. \A p \in Phones : \A f \in Range(wire[p]) : f \in Range(wire'[p])
      BY <3>1, BroadcastFrames
    <3> QED
      BY <1>1, <1>2, <3>1, <3>2
  <2> QED
    BY <2>1, <2>2
<1>10. ASSUME NEW x \in Pushed, Settle(x), ref' = ref, asking' = asking,
              Call("blocked", ref) \in calls => Call("blocked", ref) \in calls',
              \A p \in Phones : shown[p] \ {x} \subseteq shown'[p],
              \A p \in Phones : \A f \in Range(wire[p]) : f \in Range(wire'[p])
       PROVE  Goal
  BY <1>1, <1>3, <1>10 DEF Settle
<1>11. ASSUME NEW x \in Pushed, ServeResolved(x) PROVE Goal
  <2>1. CASE ~listed
    BY <1>10, <1>11, <2>1 DEF ServeResolved, frontVars, Call
  <2>2. CASE listed
    <3>1. Broadcast("done", x)
      BY <1>11, <2>2 DEF ServeResolved
    <3>2. \A p \in Phones : \A f \in Range(wire[p]) : f \in Range(wire'[p])
      BY <3>1, BroadcastFrames
    <3> QED
      BY <1>10, <1>11, <2>2, <3>2 DEF ServeResolved, frontVars, Call
  <2> QED
    BY <2>1, <2>2
<1>12. ASSUME NEW p \in Phones, NEW x \in Pushed, Answer(p, x) \/ Confirm(p, x) PROVE Goal
  BY <1>10, <1>12 DEF Answer, Confirm, frontVars, phoneVars
<1>13. ASSUME NEW p \in Phones, NEW x \in Pushed, Dismiss(p, x) PROVE Goal
  <2>1. Broadcast("done", x)
    BY <1>13 DEF Dismiss
  <2>2. \A r \in Phones : \A f \in Range(wire[r]) : f \in Range(wire'[r])
    BY <2>1, BroadcastFrames
  <2>3. \A r \in Phones : shown[r] \ {x} \subseteq shown'[r]
    BY <1>13 DEF Dismiss, TypeOK
  <2> QED
    BY <1>10, <1>13, <2>2, <2>3 DEF Dismiss, frontVars
<1>14. CASE Enqueue
  <2>1. Without(asking) \in Seq(Pushed) /\ asking \in Pushed
    BY <1>14, WithoutQuestion DEF TypeOK, QueueKept, Enqueue
  <2>2. \A x : x \in Range(pending') <=> x \in Range(pending) \/ x = asking
    BY <1>3, <1>14, <2>1, AppendItems DEF Enqueue
  <2> QED
    BY <1>1, <1>14, <2>2 DEF Enqueue, frontVars, phoneVars
<1>15. ASSUME NEW x, ServeMark(x) \/ Forget(x) PROVE Goal
  BY <1>5, <1>15 DEF ServeMark, Forget, frontVars, phoneVars, Call
<1>16. ASSUME NEW p \in Phones, OpenTunnel(p) \/ Subscribe(p) PROVE Goal
  <2>1. Flush(p) /\ UNCHANGED <<ref, asking, calls, settled, lost, shown>>
    BY <1>16 DEF OpenTunnel, Subscribe, frontVars
  <2>2. /\ \A r \in Phones \ {p} : wire'[r] = wire[r]
        /\ \A f \in Range(wire[p]) : f \in Range(wire'[p])
        /\ \A q \in Range(pending) : Frame("ask", q, TRUE) \in Range(wire'[p])
    BY <2>1, FlushFrames
  <2> QED
    BY <1>1, <2>1, <2>2
<1>17. ASSUME NEW p \in Phones, Receive(p) PROVE Goal
  <2>1. /\ wire[p] \in Seq(Frames) /\ wire[p] # <<>>
        /\ UNCHANGED <<ref, asking, calls, pending, settled, lost>>
    BY <1>17 DEF Receive, TypeOK, frontVars, daemonVars, history
  <2> DEFINE f == Head(wire[p])
  <2>2. \A x : x \in Range(wire[p]) <=> x = f \/ x \in Range(Tail(wire[p]))
    BY <2>1, TailItems
  <2>3. f.kind = "done" => f.q \in settled
    BY <2>2 DEF DoneIsSettled
  <2>4. /\ \A r \in Phones \ {p} : wire'[r] = wire[r] /\ shown'[r] = shown[r]
        /\ wire'[p] = Tail(wire[p])
        /\ shown'[p] = IF f.kind = "ask" THEN shown[p] \cup {f.q} ELSE shown[p] \ {f.q}
    BY <1>17 DEF Receive, TypeOK
  <2>5. f \in Frames
    BY <2>1
  <2>6. f.kind \in {"ask", "done"} /\ (f = Frame("ask", ref, TRUE) => f.kind = "ask" /\ f.q = ref)
    BY <2>5 DEF Frames, Frame
  <2> HIDE DEF f
  <2> QED
    BY <1>1, <2>1, <2>2, <2>3, <2>4, <2>6
<1>18. ASSUME NEW p \in Phones, CloseTunnel(p) PROVE Goal
  <2> DEFINE g == Frame("ask", ref, TRUE)
  <2>1. g.kind = "ask" /\ g.flush /\ g.q = ref
    BY DEF Frame
  <2>2. /\ UNCHANGED <<ref, asking, calls, pending, settled, shown>>
        /\ lost \subseteq lost'
        /\ \A r \in Phones \ {p} : wire'[r] = wire[r]
    BY <1>18 DEF CloseTunnel, TypeOK, frontVars, daemonVars
  <2>3. g \in Range(wire[p]) => ref \in lost' \cup settled
    BY <1>18, <2>1 DEF CloseTunnel
  <2> QED
    BY <1>1, <2>2, <2>3
<1> HIDE DEF Kept, Goal
<1>19. ASSUME NEW p, TypesItself(p) \/ List(p) \/ Unsubscribe(p) PROVE Goal
  BY <1>5, <1>19 DEF TypesItself, List, Unsubscribe, frontVars, daemonVars, phoneVars, history
<1>20. CASE \/ ShowDialog \/ TurnsIdle \/ LocalAnswerUnmarked \/ CloseTerminal
            \/ UNCHANGED vars
  BY <1>5, <1>20 DEF ShowDialog, TurnsIdle, LocalAnswerUnmarked, CloseTerminal, vars, frontVars, daemonVars, phoneVars, history
<1> QED
  BY <1>6, <1>7, <1>8, <1>9, <1>11, <1>12, <1>13, <1>14, <1>15, <1>16, <1>17, <1>18, <1>19, <1>20,
     Zenon DEF Next, FrontNext, DaemonNext, PhoneNext

\* Who types an answer was the first to mark the question, and takes the mark
\* along: no event is left, and none can come, that would type it again.
LEMMA TypedStep ==
  ASSUME TypeOK, TypedIsFirst, FirstAnswerWins, [Next]_vars
  PROVE  TypedIsFirst' /\ FirstAnswerWins'
<1> DEFINE Answers(s, q, i) == i \in DOMAIN s /\ s[i].kind = "answer" /\ s[i].q = q
           First(s, a, t) == /\ t \subseteq a
                             /\ \A q, i : Answers(s, q, i) => q \in a \ t
                             /\ \A q, i, j : Answers(s, q, i) /\ Answers(s, q, j) => i = j
<1>0. events \in Seq(Events)
  BY DEF TypeOK
<1>1. First(events, answered, typed) /\ again # "marked"
  BY DEF TypedIsFirst, FirstAnswerWins, TypeOK
<1> SUFFICES First(events', answered', typed') /\ again' # "marked"
  BY DEF TypedIsFirst, FirstAnswerWins
<1>2. ASSUME NEW e \in Events, events' = Append(events, e), e.kind = "answer" => e.q \notin answered,
             answered' = answered \cup (IF e.kind = "answer" THEN {e.q} ELSE {}), typed' = typed
      PROVE  First(events', answered', typed')
  <2>1. /\ DOMAIN events = 1..Len(events) /\ DOMAIN events' = 1..Len(events) + 1 /\ Len(events) \in Nat
        /\ \A i \in 1..Len(events) : events'[i] = events[i]
        /\ events'[Len(events) + 1] = e
    BY <1>0, <1>2, AppendItems
  <2>2. ASSUME NEW q, NEW i, Answers(events', q, i)
        PROVE  Answers(events, q, i) \/ (i = Len(events) + 1 /\ q = e.q /\ e.kind = "answer")
    BY <2>1, <2>2
  <2>3. \A i : i = Len(events) + 1 => i \notin DOMAIN events
    BY <2>1
  <2> HIDE DEF Answers
  <2> QED
    BY <1>1, <1>2, <2>2, <2>3
<1>3. ASSUME NEW x, x \notin answered, events' = events, answered' = answered \cup {x},
             typed' \subseteq typed \cup {x}
      PROVE  First(events', answered', typed')
  BY <1>1, <1>3
<1>4. CASE UNCHANGED <<answered, again>> /\ events' \in {events, <<>>} /\ typed' \subseteq typed
  BY <1>1, <1>4
<1>5. CASE HandleEvent
  <2> DEFINE e == Head(events)
  <2>1. /\ DOMAIN events' = 1..Len(events) - 1 /\ DOMAIN events = 1..Len(events)
        /\ Len(events) \in Nat \ {0} /\ e = events[1]
        /\ \A i \in 1..Len(events) - 1 : events'[i] = events[i + 1]
    BY <1>0, <1>5 DEF HandleEvent
  <2>2. ASSUME NEW q, NEW i, Answers(events', q, i)
        PROVE  Answers(events, q, i + 1) /\ i + 1 # 1 /\ i \in Nat
    BY <2>1, <2>2
  <2>3. e.kind = "answer" => Answers(events, e.q, 1)
    BY <2>1
  <2>4. /\ answered' = answered
        /\ \/ /\ e.kind = "answer" /\ typed' \subseteq typed \cup {e.q}
              /\ again' = (IF e.q \in typed THEN "marked" ELSE again)
           \/ UNCHANGED <<typed, again>>
    BY <1>5 DEF HandleEvent, Types, daemonVars, typing
  <2> HIDE DEF Answers, e
  <2>5. \A q, i, j : Answers(events', q, i) /\ Answers(events', q, j) => i = j
    <3> SUFFICES ASSUME NEW q, NEW i, NEW j, Answers(events', q, i), Answers(events', q, j) PROVE i = j
      OBVIOUS
    <3>1. i + 1 = j + 1 /\ i \in Nat /\ j \in Nat
      BY <1>1, <2>2
    <3> QED
      BY <3>1
  <2>6. CASE e.kind = "answer" /\ typed' \subseteq typed \cup {e.q} /\ again' = (IF e.q \in typed THEN "marked" ELSE again)
    <3>1. e.q \in answered \ typed
      BY <1>1, <2>3, <2>6
    <3>2. again' # "marked"
      BY <1>1, <2>6, <3>1
    <3>3. \A q, i : Answers(events', q, i) => q # e.q
      BY <1>1, <2>2, <2>3, <2>6
    <3>4. \A q, i : Answers(events', q, i) => q \in answered \ typed
      BY <1>1, <2>2
    <3> QED
      BY <1>1, <2>4, <2>5, <2>6, <3>1, <3>2, <3>3, <3>4
  <2>7. CASE UNCHANGED <<typed, again>>
    BY <1>1, <2>2, <2>4, <2>5, <2>7
  <2> QED
    BY <2>4, <2>6, <2>7
<1>6. ASSUME NEW x, ServeMark(x) PROVE First(events', answered', typed') /\ again' # "marked"
  <2>1. CASE x \in answered
    BY <1>4, <1>6, <2>1 DEF ServeMark, typing
  <2>2. CASE x \notin answered
    <3>1. /\ answered' = answered \cup {x} /\ typed' \subseteq typed \cup {x} /\ events' = events
          /\ again' = (IF x \in typed THEN "marked" ELSE again)
      BY <1>6, <2>2 DEF ServeMark, Types
    <3>2. First(events', answered', typed')
      BY <1>3, <2>2, <3>1
    <3>3. again' # "marked"
      BY <1>1, <2>2, <3>1
    <3> QED
      BY <3>2, <3>3
  <2> QED
    BY <2>1, <2>2
<1>7. ASSUME NEW x, Forget(x) PROVE First(events', answered', typed') /\ again' # "marked"
  <2>1. \A i \in DOMAIN events : events[i].q # x
    BY <1>7, Zenon DEF Forget, Range
  <2> QED
    BY <1>1, <1>7, <2>1 DEF Forget
<1>8. ASSUME NEW p, NEW x \in Pushed, Answer(p, x) PROVE First(events', answered', typed') /\ again' # "marked"
  <2>1. [kind |-> "answer", q |-> x] \in Events
    BY DEF Events
  <2>2. answered' = answered \cup {x} /\ x \notin answered /\ UNCHANGED <<typed, again>>
    BY <1>8 DEF Answer, typing
  <2>3. CASE listed
    BY <1>1, <1>2, <1>8, <2>1, <2>2, <2>3 DEF Answer, Emit
  <2>4. CASE ~listed
    BY <1>1, <1>3, <1>8, <2>2, <2>4 DEF Answer, Emit
  <2> QED
    BY <2>3, <2>4
<1>9. ASSUME NEW p, NEW x \in Pushed, Confirm(p, x) PROVE First(events', answered', typed') /\ again' # "marked"
  <2>1. [kind |-> "confirm", q |-> x] \in Events
    BY DEF Events
  <2>2. UNCHANGED <<answered, typed, again>>
    BY <1>9 DEF Confirm, typing
  <2>3. CASE listed
    BY <1>1, <1>2, <1>9, <2>1, <2>2, <2>3 DEF Confirm, Emit
  <2>4. CASE ~listed
    BY <1>1, <1>4, <1>9, <2>2, <2>4 DEF Confirm, Emit
  <2> QED
    BY <2>3, <2>4
<1>10. ASSUME NEW p, TypesItself(p) PROVE First(events', answered', typed') /\ again' # "marked"
  <2>1. [kind |-> "typed", q |-> 0] \in Events
    BY DEF Events
  <2>2. UNCHANGED <<answered, typed, again>>
    BY <1>10 DEF TypesItself, daemonVars, history, typing
  <2>3. CASE listed
    BY <1>1, <1>2, <1>10, <2>1, <2>2, <2>3 DEF TypesItself, Emit
  <2>4. CASE ~listed
    BY <1>1, <1>4, <1>10, <2>2, <2>4 DEF TypesItself, Emit
  <2> QED
    BY <2>3, <2>4
<1>11. ASSUME NEW p, NEW x, Dismiss(p, x) PROVE First(events', answered', typed') /\ again' # "marked"
  BY <1>1, <1>3, <1>11 DEF Dismiss, typing
<1> HIDE DEF First
<1>12. ASSUME NEW p, \/ OpenTunnel(p) \/ List(p) \/ Subscribe(p) \/ Unsubscribe(p)
                     \/ Receive(p) \/ CloseTunnel(p)
       PROVE  UNCHANGED <<events, answered, typed, again>>
  BY <1>12 DEF OpenTunnel, List, Subscribe, Unsubscribe, Receive, CloseTunnel, daemonVars, history, typing
<1>13. ASSUME NEW x, ServeBlocked(x) \/ ServeResolved(x)
       PROVE  UNCHANGED <<events, answered, typed, again>>
  BY <1>13 DEF ServeBlocked, ServeResolved, typing
<1>14. CASE \/ ShowDialog \/ Push \/ PushTab \/ Unblocked \/ TurnsIdle \/ LocalAnswer
            \/ TabGone \/ Enqueue \/ CloseTerminal \/ UNCHANGED vars
  BY <1>4, <1>14 DEF ShowDialog, Push, PushTab, Unblocked, TurnsIdle, LocalAnswer,
     TabGone, Enqueue, CloseTerminal, vars, daemonVars, history, typing
<1>15. CASE LocalAnswerUnmarked
  <2>1. UNCHANGED <<events, answered, typed>> /\ again' = "unmarked"
    BY <1>15 DEF LocalAnswerUnmarked, daemonVars
  <2> QED
    BY <1>1, <2>1 DEF First
<1> QED
  BY <1>4, <1>5, <1>6, <1>7, <1>8, <1>9, <1>10, <1>11, <1>12, <1>13, <1>14, <1>15, Zenon
     DEF Next, FrontNext, DaemonNext, PhoneNext

-----------------------------------------------------------------------------
(* The theorems                                                            *)

\* The inductive invariant holds at first and after every step.
LEMMA AgentInitially == Init => AgentInv
<1> SUFFICES ASSUME Init PROVE AgentInv
  OBVIOUS
<1> USE DEF Init
<1>1. TypeOK
  <2>1. wire \in [Phones -> Seq(Frames)] /\ shown \in [Phones -> SUBSET Pushed]
    OBVIOUS
  <2>2. asked \in Seq(1..MaxDialogs) /\ Len(asked) <= MaxIds /\ dialog \in 0..MaxDialogs
    BY DEF AgentAssumption
  <2>3. events \in Seq(Events) /\ pending \in Seq(Pushed) /\ calls \subseteq Calls
    OBVIOUS
  <2> QED
    BY <2>1, <2>2, <2>3 DEF TypeOK
<1>2. BlockedByDialog /\ QueueKept /\ FirstAnswerWins /\ TypedIsFirst
  BY DEF BlockedByDialog, QueueKept, FirstAnswerWins, TypedIsFirst
<1>3. Pushed = {} /\ \A p \in Phones : Range(wire[p]) = {}
  BY DEF Pushed, Range
<1>4. Range(pending) = {}
  BY DEF Range
<1>5. AskedIsOpen /\ PendingIsOpen /\ DoneIsSettled /\ NoQuestionForgotten
  BY <1>3, <1>4 DEF AskedIsOpen, PendingIsOpen, DoneIsSettled, NoQuestionForgotten
<1> QED
  BY <1>1, <1>2, <1>5 DEF AgentInv

\* AgentInv is inductive: each step keeps each part.
LEMMA AgentStep == AgentInv /\ [Next]_vars => AgentInv'
<1> SUFFICES ASSUME AgentInv, [Next]_vars PROVE AgentInv'
  OBVIOUS
<1>1. BlockedByDialog'
  BY DEF AgentInv, BlockedByDialog, TypeOK, Next, FrontNext, DaemonNext, PhoneNext, vars, frontVars,
     ShowDialog, Push, PushTab, Unblocked, TurnsIdle, LocalAnswer, LocalAnswerUnmarked, TabGone,
     HandleEvent, Enqueue, CloseTerminal, ServeBlocked, ServeResolved, ServeMark, Forget, TypesItself, OpenTunnel, List, Subscribe, Unsubscribe,
     Receive, CloseTunnel, Answer, Dismiss, Confirm
<1> QED
  BY <1>1, TypeStep, QueueStep, AskedStep, PendingStep, DoneStep, ForgottenStep, TypedStep DEF AgentInv

\* It holds in every reachable state.
LEMMA AgentInductive == Spec => []AgentInv
  BY AgentInitially, AgentStep, PTL DEF Spec

\* Every variable of the questions keeps its type, whatever the phones, the
\* daemon and the front end do.
THEOREM AgentTypeCorrect == Spec => []TypeOK
<1>1. AgentInv => TypeOK
  BY DEF AgentInv
<1> QED
  BY <1>1, AgentInductive, PTL

\* The question the front end holds is queued, on its way, or shown, until
\* someone settles it or it is lost (remote_server.rs notify_agent_blocked).
THEOREM AgentNoQuestionForgotten == Spec => []NoQuestionForgotten
<1>1. AgentInv => NoQuestionForgotten
  BY DEF AgentInv
<1> QED
  BY <1>1, AgentInductive, PTL

\* A question left for the next phone is open or about to be resolved, but for
\* a ghost and for the questions of a closed terminal (remote_server.rs
\* notify_agent_resolved, handle_input_answer).
THEOREM AgentPendingIsOpen == Spec => []PendingIsOpen
<1>1. AgentInv => PendingIsOpen
  BY DEF AgentInv
<1> QED
  BY <1>1, AgentInductive, PTL

\* However many phones answer, and the desktop, one answer that is marked is
\* typed (remote_server.rs mark_question_answered).
THEOREM AgentFirstAnswerWins == Spec => []FirstAnswerWins
<1>1. AgentInv => FirstAnswerWins
  BY DEF AgentInv
<1> QED
  BY <1>1, AgentInductive, PTL
=============================================================================
