--------------------------- MODULE AgentQuestions ---------------------------
(***************************************************************************)
(* The questions of a coding agent in one terminal, and who answers them:  *)
(* the desktop's front end (useAgentRemoteAnswer.ts and the handlers of    *)
(* TerminalView.tsx), which pushes a question to the phones when the user  *)
(* is away; the daemon's queue of pending questions and its map of         *)
(* answered ones (remote_server.rs); and the phones, which see a question  *)
(* when it is broadcast to subscribers or flushed to a new connection.     *)
(*                                                                         *)
(* The agent shows one dialog after another (the tabs of a dialog with     *)
(* several questions count as dialogs).  Each push has an id of its own.   *)
(* The front end's calls to the daemon run one at a time under the lock of *)
(* the tunnel manager, in any order; a phone's answer takes no such lock.  *)
(* A frame to a phone is [kind, q, flush]; a queue that is full drops what *)
(* is broadcast, and has room for what is flushed (OutputFanout has its    *)
(* capacity).  The limit of 100 questions and their day's life are not     *)
(* reached.  Left out: what the desktop shows over a terminal, and answers *)
(* given there to a dialog that was not pushed.  When the terminal is      *)
(* closed the daemon forgets its number and its subscribers.               *)
(***************************************************************************)
EXTENDS Naturals, Sequences, FiniteSets, SequencesExt

CONSTANTS
    Phones,
    MaxDialogs,   \* bound: dialogs of the agent
    QueueCap,     \* capacity of the queue to a phone for what is broadcast
    MaxIds,       \* bound: questions pushed
    MaxCalls,     \* bound: calls of the front end the daemon has yet to serve
    MaxEvents     \* bound: answers the front end has yet to handle

ASSUME AgentAssumption == {MaxDialogs, QueueCap, MaxIds, MaxCalls, MaxEvents} \subseteq Nat

VARIABLES
    status,      \* the agent, as the front end sees it
    dialog,      \* number of dialogs shown; the last is on screen while blocked
    ref,         \* pushedQuestionIdRef; 0 is null
    asked,       \* per id pushed, the dialog it is about
    calls,       \* the front end's calls the daemon has not served
    events,      \* agent_remote_answer events the front end has not handled
    listed,      \* the terminal is in the IdMap
    closed,      \* the terminal is closed
    asking,      \* the question notify_agent_blocked has yet to enqueue; 0: none
    pending,     \* pending_questions of the terminal
    answered,    \* answered_questions
    online,      \* phones with a tunnel
    subscribed,  \* phones that subscribed to the terminal
    wire,        \* per phone, the frames on their way to it
    shown,       \* per phone, the questions it shows
    settled,     \* history: answered, dismissed or resolved at the daemon
    ghosts,      \* history: in pending although settled
    lost,        \* history: flushed to a tunnel that closed, or not listed
    typed,       \* history: answered questions whose marked answer was typed
    again        \* history: how another answer to one of typed came to be typed

frontVars == <<status, dialog, ref, asked>>
daemonVars == <<listed, closed, asking, pending, answered>>
phoneVars == <<online, subscribed, wire, shown>>
typing == <<typed, again>>
history == <<settled, ghosts, lost, typing>>
vars == <<frontVars, calls, events, daemonVars, phoneVars, history>>

Ids == 1..MaxIds
Pushed == 1..Len(asked)
Call(op, q) == [op |-> op, q |-> q]
Frame(kind, q, flush) == [kind |-> kind, q |-> q, flush |-> flush]
Calls == [op : {"blocked", "resolved", "mark"}, q : Pushed]
Frames == [kind : {"ask", "done"}, q : Pushed, flush : BOOLEAN]
Events == [kind : {"answer", "confirm"}, q : Pushed] \cup [kind : {"typed"}, q : {0}]

TypeOK ==
    /\ status \in {"working", "blocked"}
    /\ dialog \in 0..MaxDialogs
    /\ {listed, closed} \subseteq BOOLEAN /\ again \in {"no", "unmarked", "marked"}
    /\ ref \in Pushed \cup {0} /\ asking \in Pushed \cup {0}
    /\ asked \in Seq(1..MaxDialogs) /\ Len(asked) <= MaxIds
    /\ calls \subseteq Calls
    /\ events \in Seq(Events)
    /\ pending \in Seq(Pushed)
    /\ {answered, settled, ghosts, lost, typed} \subseteq SUBSET Pushed
    /\ online \subseteq Phones /\ subscribed \subseteq online
    /\ wire \in [Phones -> Seq(Frames)]
    /\ shown \in [Phones -> SUBSET Pushed]

Init ==
    /\ status = "working" /\ dialog = 0
    /\ ref = 0 /\ asked = <<>> /\ calls = {} /\ events = <<>>
    /\ listed = FALSE /\ closed = FALSE /\ asking = 0 /\ pending = <<>> /\ answered = {}
    /\ online = {} /\ subscribed = {}
    /\ wire = [p \in Phones |-> <<>>] /\ shown = [p \in Phones |-> {}]
    /\ settled = {} /\ ghosts = {} /\ lost = {}
    /\ typed = {} /\ again = "no"

-----------------------------------------------------------------------------
(* The front end                                                           *)

\* A new dialog, on its own or as the next tab.
ShowDialog ==
    /\ ~closed /\ dialog < MaxDialogs
    /\ status' = "blocked" /\ dialog' = dialog + 1
    /\ UNCHANGED <<ref, asked, calls, events, daemonVars, phoneVars, history>>

\* The id of the next push, which is about the dialog on screen.
NewPush ==
    /\ Len(asked) < MaxIds
    /\ ref' = Len(asked) + 1
    /\ asked' = Append(asked, dialog)

\* The front end's calls, which the daemon serves later.
Invoke(new) ==
    /\ calls' = calls \cup new
    /\ Cardinality(calls') <= MaxCalls

Resolutions(q) == IF q = 0 THEN {} ELSE {Call("resolved", q)}

\* Blocked, the user away (which may be at any time), nothing pushed yet.
Push ==
    /\ status = "blocked" /\ ref = 0
    /\ NewPush
    /\ Invoke({Call("blocked", ref')})
    /\ UNCHANGED <<status, dialog, events, daemonVars, phoneVars, history>>

\* Another tab than that of the question held: that one is resolved, the new one
\* is pushed once its text is on the screen.
PushTab ==
    /\ status = "blocked" /\ ref # 0 /\ asked[ref] # dialog
    /\ \/ NewPush /\ Invoke({Call("resolved", ref), Call("blocked", ref')})
       \/ Invoke({Call("resolved", ref)}) /\ UNCHANGED <<ref, asked>>
    /\ UNCHANGED <<status, dialog, events, daemonVars, phoneVars, history>>

\* Mutant: the phones are not told that the agent went on.
UnblockedSilently ==
    /\ status = "blocked" /\ status' = "working" /\ ref' = 0
    /\ UNCHANGED <<dialog, asked, calls, events, daemonVars, phoneVars, history>>

\* The agent goes on or exits, whoever answered it.
Unblocked ==
    /\ status = "blocked" /\ status' = "working"
    /\ ref' = 0 /\ Invoke(Resolutions(ref))
    /\ UNCHANGED <<dialog, asked, events, daemonVars, phoneVars, history>>

\* The screen shows an idle agent: the question is kept, for good if the agent
\* goes on from there, and the next dialog passes for the one it is about.
TurnsIdle ==
    /\ status = "blocked" /\ status' = "working"
    /\ UNCHANGED <<dialog, ref, asked, calls, events, daemonVars, phoneVars, history>>

\* The keystrokes of an answer that marked q are sent to the terminal.
Types(q) ==
    /\ typed' = typed \cup {q}
    /\ again' = IF q \in typed THEN "marked" ELSE again

\* The user answers at the desktop: clearPushedQuestionRef, then, if the
\* question was pushed, mark it first.
LocalAnswer ==
    /\ status = "blocked" /\ ref # 0
    /\ ref' = 0
    /\ Invoke({Call("resolved", ref), Call("mark", ref)})
    /\ UNCHANGED <<status, dialog, asked, events, daemonVars, phoneVars, history>>

\* He answers with no question held, an answer from a phone or from here having
\* cleared it: the keystrokes are sent unmarked.  Recorded the first time it
\* answers what was answered already; else nothing here sees it.
LocalAnswerUnmarked ==
    /\ status = "blocked" /\ ref = 0
    /\ again = "no" /\ \E q \in typed : asked[q] = dialog
    /\ again' = "unmarked"
    /\ UNCHANGED <<frontVars, calls, events, daemonVars, phoneVars, settled, ghosts, lost, typed>>

\* The tab of a closed terminal goes, and what the front end held for it.
TabGone ==
    /\ closed /\ status' = "working" /\ ref' = 0 /\ events' = <<>>
    /\ UNCHANGED <<dialog, asked, calls, daemonVars, phoneVars, history>>

\* The front end handles an answer given at a phone.  An answer to one of
\* several questions is not reported as resolved.
HandleEvent ==
    /\ events # <<>> /\ events' = Tail(events)
    /\ LET e == Head(events) IN
         \/ /\ e.kind = "answer"
            /\ ref' = 0 /\ Types(e.q)
            /\ \E own \in {{}, {Call("resolved", e.q)}} : Invoke(Resolutions(ref) \cup own)
         \/ /\ e.kind = "typed"
            /\ ref' = 0 /\ Invoke(Resolutions(ref))
            /\ UNCHANGED typing
         \/ /\ e.kind = "confirm"
            /\ Invoke({Call("resolved", e.q)})
            /\ UNCHANGED <<ref, typing>>
    /\ UNCHANGED <<status, dialog, asked, daemonVars, phoneVars, settled, ghosts, lost>>

-----------------------------------------------------------------------------
(* The daemon serves the front end's calls, holding the tunnel manager's lock *)

\* A frame to the subscribers whose queues have room.
Broadcast(kind, q) ==
    wire' = [p \in Phones |->
        IF p \in subscribed /\ Len(wire[p]) < QueueCap THEN Append(wire[p], Frame(kind, q, FALSE)) ELSE wire[p]]

Serving(op, q) == asking = 0 /\ Call(op, q) \in calls

\* The pending questions but q, which is there once at most.
Without(q) ==
    IF q \in Range(pending) THEN RemoveAt(pending, CHOOSE i \in DOMAIN pending : pending[i] = q)
                            ELSE pending

\* The daemon is done with the question q; it finds the pending ones of a
\* terminal that is in the IdMap only.
Settle(q) ==
    /\ settled' = settled \cup {q} /\ lost' = lost \ {q}
    /\ \/ listed /\ pending' = Without(q) /\ ghosts' = ghosts \ {q}
       \/ ~listed /\ ghosts' = ghosts \cup ({q} \cap Range(pending)) /\ UNCHANGED pending

\* notify_agent_blocked: nothing if the terminal is not in the IdMap, else
\* broadcast and, in a step of its own, enqueue.
ServeBlocked(q) ==
    /\ Serving("blocked", q) /\ calls' = calls \ {Call("blocked", q)}
    /\ \/ listed /\ asking' = q /\ Broadcast("ask", q) /\ UNCHANGED lost
       \/ ~listed /\ lost' = lost \cup ({q} \ settled) /\ UNCHANGED <<asking, wire>>
    /\ UNCHANGED <<frontVars, events, listed, closed, pending, answered, online, subscribed,
                   shown, settled, ghosts, typing>>

\* Mutant: a question that went out to a subscriber is not enqueued.
EnqueueUnlessSent ==
    /\ asking # 0 /\ asking' = 0
    /\ pending' = IF subscribed # {} THEN pending ELSE Append(pending, asking)
    /\ UNCHANGED <<frontVars, calls, events, listed, closed, answered, phoneVars, history>>

Enqueue ==
    /\ asking # 0 /\ asking' = 0
    /\ pending' = Append(Without(asking), asking)
    /\ ghosts' = ghosts \cup ({asking} \cap settled)
    /\ UNCHANGED <<frontVars, calls, events, listed, closed, answered, phoneVars,
                   settled, lost, typing>>

\* notify_agent_resolved: nothing if the terminal is not in the IdMap.
ServeResolved(q) ==
    /\ Serving("resolved", q) /\ calls' = calls \ {Call("resolved", q)}
    /\ Settle(q)
    /\ IF listed THEN Broadcast("done", q) ELSE UNCHANGED wire
    /\ UNCHANGED <<frontVars, events, listed, closed, asking, answered, online, subscribed,
                   shown, typing>>

\* Mutant: the first answer is not asked for.
ServeMarkUnchecked(q) ==
    /\ Serving("mark", q)
    /\ answered' = answered \cup {q} /\ Types(q)
    /\ calls' = (calls \ {Call("mark", q)}) \cup {Call("resolved", q)}
    /\ UNCHANGED <<frontVars, events, listed, closed, asking, pending, phoneVars,
                   settled, ghosts, lost>>

\* mark_question_answered, and the desktop's answer that waits for it: typed
\* unless the question has been answered already.
ServeMark(q) ==
    /\ Serving("mark", q)
    /\ \/ /\ q \notin answered
          /\ answered' = answered \cup {q} /\ Types(q)
          /\ calls' = (calls \ {Call("mark", q)}) \cup {Call("resolved", q)}
       \/ /\ q \in answered
          /\ calls' = calls \ {Call("mark", q)}
          /\ UNCHANGED <<answered, typing>>
    /\ UNCHANGED <<frontVars, events, listed, closed, asking, pending, phoneVars,
                   settled, ghosts, lost>>

\* 30 seconds after an answer the daemon forgets it; the front end has handled
\* the answer by then.
Forget(q) ==
    /\ q \in answered /\ answered' = answered \ {q}
    /\ \A e \in Range(events) : e.q # q
    /\ typed' = typed \ {q}
    /\ UNCHANGED <<frontVars, calls, events, listed, closed, asking, pending, phoneVars,
                   settled, ghosts, lost, again>>

\* on_closed: the terminal leaves the IdMap, and its subscribers go with it.
CloseTerminal ==
    /\ ~closed /\ closed' = TRUE
    /\ listed' = FALSE /\ subscribed' = {}
    /\ UNCHANGED <<frontVars, calls, events, asking, pending, answered, online, wire, shown,
                   history>>

-----------------------------------------------------------------------------
(* The phones                                                              *)

\* The front end is told of an answer at a phone, unless the daemon cannot tell
\* the terminal's session any more.
Emit(kind, q) ==
    \/ /\ listed /\ Len(events) < MaxEvents
       /\ events' = Append(events, [kind |-> kind, q |-> q])
    \/ ~listed /\ UNCHANGED events

\* INPUT_ANSWER of a phone: the first answer to a question wins and goes to
\* the front end.
Answer(p, q) ==
    /\ p \in online /\ q \in shown[p] /\ q \notin answered
    /\ answered' = answered \cup {q} /\ Settle(q)
    /\ Emit("answer", q)
    /\ UNCHANGED <<frontVars, calls, listed, closed, asking, phoneVars, typing>>

\* The phone dismisses the question: the other phones are told, the front end
\* is not.
Dismiss(p, q) ==
    /\ p \in online /\ q \in shown[p] /\ q \notin answered
    /\ answered' = answered \cup {q} /\ Settle(q)
    /\ Broadcast("done", q)
    /\ shown' = [shown EXCEPT ![p] = @ \ {q}]
    /\ UNCHANGED <<frontVars, calls, events, listed, closed, asking, online, subscribed, typing>>

\* The phone confirms a dialog of several questions: no first answer counts.
Confirm(p, q) ==
    /\ p \in online /\ q \in shown[p] /\ Settle(q)
    /\ Emit("confirm", q)
    /\ UNCHANGED <<frontVars, calls, listed, closed, asking, answered, phoneVars, typing>>

\* The phone answers in the terminal itself and reports it under an id of its
\* own making, which no question has.
TypesItself(p) ==
    /\ p \in subscribed /\ status = "blocked"
    /\ Emit("typed", 0)
    /\ UNCHANGED <<frontVars, calls, daemonVars, phoneVars, history>>

\* All pending questions go to the tunnel of p.
Flush(p) ==
    /\ wire' = [wire EXCEPT ![p] = @ \o [i \in DOMAIN pending |-> Frame("ask", pending[i], TRUE)]]
    /\ pending' = <<>> /\ ghosts' = {}

OpenTunnel(p) ==
    /\ p \notin online /\ online' = online \cup {p}
    /\ Flush(p)
    /\ UNCHANGED <<frontVars, calls, events, listed, closed, asking, answered, subscribed,
                   shown, settled, lost, typing>>

\* LIST_REQUEST gives the terminal its number.
List(p) ==
    /\ p \in online /\ ~listed /\ ~closed /\ listed' = TRUE
    /\ UNCHANGED <<frontVars, calls, events, closed, asking, pending, answered, phoneVars, history>>

Subscribe(p) ==
    /\ p \in online /\ listed /\ subscribed' = subscribed \cup {p}
    /\ Flush(p)
    /\ UNCHANGED <<frontVars, calls, events, listed, closed, asking, answered, online, shown,
                   settled, lost, typing>>

Unsubscribe(p) ==
    /\ p \in subscribed /\ subscribed' = subscribed \ {p}
    /\ UNCHANGED <<frontVars, calls, events, daemonVars, online, wire, shown, history>>

Receive(p) ==
    /\ p \in online /\ wire[p] # <<>>
    /\ wire' = [wire EXCEPT ![p] = Tail(@)]
    /\ LET f == Head(wire[p]) IN
         shown' = [shown EXCEPT ![p] = IF f.kind = "ask" THEN @ \cup {f.q} ELSE @ \ {f.q}]
    /\ UNCHANGED <<frontVars, calls, events, daemonVars, online, subscribed, history>>

\* Mutant: the subscriptions outlive the tunnel.
CloseTunnelOnly(p) ==
    /\ p \in online /\ online' = online \ {p}
    /\ wire' = [wire EXCEPT ![p] = <<>>]
    /\ UNCHANGED <<frontVars, calls, events, daemonVars, subscribed, shown, history>>

\* A tunnel dies with the frames on it.
CloseTunnel(p) ==
    /\ p \in online /\ online' = online \ {p} /\ subscribed' = subscribed \ {p}
    /\ wire' = [wire EXCEPT ![p] = <<>>]
    /\ lost' = lost \cup ({f.q : f \in {g \in Range(wire[p]) : g.kind = "ask" /\ g.flush}} \ settled)
    /\ UNCHANGED <<frontVars, calls, events, daemonVars, shown, settled, ghosts, typing>>

-----------------------------------------------------------------------------
FrontNext ==
    \/ ShowDialog \/ Push \/ PushTab \/ Unblocked \/ TurnsIdle
    \/ LocalAnswer \/ LocalAnswerUnmarked \/ HandleEvent \/ TabGone

DaemonNext ==
    \/ Enqueue \/ CloseTerminal
    \/ \E q \in Pushed : ServeBlocked(q) \/ ServeResolved(q) \/ ServeMark(q) \/ Forget(q)

PhoneNext == \E p \in Phones :
    \/ TypesItself(p) \/ OpenTunnel(p) \/ List(p) \/ Subscribe(p) \/ Unsubscribe(p)
    \/ Receive(p) \/ CloseTunnel(p)
    \/ \E q \in Pushed : Answer(p, q) \/ Dismiss(p, q) \/ Confirm(p, q)

Next == FrontNext \/ DaemonNext \/ PhoneNext

Spec == Init /\ [][Next]_vars

-----------------------------------------------------------------------------
(* Properties                                                              *)

\* A question pushed is not forgotten: while the front end holds its id, until
\* someone has settled it, it is queued for the next phone, flushed on a tunnel,
\* or shown (remote_server.rs notify_agent_blocked, flush_all_pending_for_pairing).
\* It is lost if the terminal is not in the IdMap or a tunnel dies with it.  It
\* may be about an earlier dialog than the one on screen: when the agent turned
\* idle in between, the front end holds on to it and pushes no other.
NoQuestionForgotten ==
    ref # 0 /\ ref \notin settled \cup lost =>
        \/ Call("blocked", ref) \in calls \/ asking = ref
        \/ ref \in Range(pending)
        \/ \E p \in Phones : ref \in shown[p] \/ Frame("ask", ref, TRUE) \in Range(wire[p])

\* A question left for the next phone is still open: the front end's own, or
\* one whose resolution is on its way.  The exceptions come back as ghosts
\* (remote_server.rs notify_agent_resolved, handle_input_answer): a question
\* settled before it was enqueued, and the questions of a closed terminal, which
\* the daemon cannot find to remove and the front end may never resolve.
PendingIsOpen == \A q \in Range(pending) \ ghosts :
    /\ q \notin settled
    /\ q = ref \/ Call("resolved", q) \in calls \/ closed

\* Of the answers of several phones and the desktop that ask the daemon who was
\* first, one is typed, until it forgets the question (remote_server.rs
\* mark_question_answered).  What is typed at the desktop while the front end
\* holds no question asks nobody (the else branch of handleAgentAnswer): it may
\* follow the first answer, and does not count here.
FirstAnswerWins == again # "marked"

-----------------------------------------------------------------------------
(* The inductive invariant behind the properties.                          *)

\* Only a dialog blocks the agent.
BlockedByDialog == status = "blocked" => dialog # 0

\* Only a terminal that phones know, or knew, has questions at the daemon, each once.
QueueKept ==
    /\ asking # 0 \/ pending # <<>> => listed \/ closed
    /\ closed => ~listed /\ subscribed = {}
    /\ \A i, j \in DOMAIN pending : pending[i] = pending[j] => i = j

\* A question on its way to the queue is the front end's own, or its
\* resolution follows or overtook it.
AskedIsOpen ==
    \A q \in Pushed :
        asking = q \/ Call("blocked", q) \in calls =>
            q \in settled \cup {ref} \/ Call("resolved", q) \in calls \/ closed

\* A phone is told to drop a question only when the daemon is done with it.
DoneIsSettled ==
    \A p \in Phones : \A f \in Range(wire[p]) : f.kind = "done" => f.q \in settled

\* Every marked answer typed, or yet to be typed by the front end, is the first one.
TypedIsFirst ==
    /\ typed \subseteq answered
    /\ \A i \in DOMAIN events : events[i].kind = "answer" => events[i].q \in answered \ typed
    /\ \A i, j \in DOMAIN events :
          events[i].kind = "answer" /\ events[j].kind = "answer" /\ events[i].q = events[j].q
             => i = j

AgentInv ==
    /\ TypeOK /\ BlockedByDialog /\ QueueKept /\ AskedIsOpen /\ PendingIsOpen
    /\ DoneIsSettled /\ NoQuestionForgotten /\ TypedIsFirst /\ FirstAnswerWins
=============================================================================
