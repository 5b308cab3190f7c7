--------------------------- MODULE LocalTerminals ---------------------------
(***************************************************************************)
(* The life of a local terminal (crates/daemon/src/terminal.rs): it is     *)
(* opened by the desktop or by a phone, ends because its shell exits or    *)
(* somebody closes it, and its end is announced once to the triggers, as   *)
(* BeforeTerminalClose, and to the desktop's window, as terminal:closed.   *)
(* The main task of the terminal, the requests of the desktop, those of    *)
(* the phones (remote_server.rs), the list that closes sessions the window *)
(* has lost, and the shutdown of the daemon do this side by side.          *)
(*                                                                         *)
(* sessions is a map behind a lock that close() keeps until it is done;    *)
(* closed_sessions, behind a lock of its own, tells who announces the end. *)
(* A request to close goes through the steps of its op; several run at a   *)
(* time.  The window (App.tsx, ServerDetail.tsx) is modelled by its tabs   *)
(* and what it reports of them.                                            *)
(*                                                                         *)
(* Left out: SSH terminals; output, input, sizes and names; overrides of   *)
(* triggers, and the triggers themselves; LIST_CHANGED.                    *)
(***************************************************************************)
EXTENDS Naturals, Sequences

CONSTANTS
  Sessions,   \* terminals, each opened once
  Ops         \* requests to close, list or shut down, each in use again and again

ASSUME LocalTerminalsAssumption == Sessions # {} /\ Ops # {}

VARIABLES
  open,       \* how far open_local and its caller are
  opener,     \* who asked for the terminal
  sessions,   \* TerminalManager.sessions
  shell,      \* the child process: "none", "running" or "exited"
  main,       \* the main task: reads, leaves, announces, or has ended
  closed,     \* closed_sessions
  remote,     \* remote_opened_sessions
  listed,     \* terminals with a handle in the IdMap
  op,         \* the requests that run
  down,       \* the shutdown: "no", "running" or "done"
  tabs,       \* the window's tabs: "none", "on", "off" (disconnected)
  waiting,    \* terminals the window has asked for and not got
  alive,      \* alive_session_ids
  reported,   \* alive_sessions_reported
  gui,        \* events on their way to the window
  sent,       \* Closed events sent, for the properties
  direct,     \* BeforeTerminalClose fired by the request itself, likewise
  cut,        \* main tasks that were stopped while they announced, likewise
  silent,     \* main tasks that ended and announced nothing, likewise
  missed      \* terminal:closed arrived before the tab was there, likewise

daemon  == <<sessions, shell, main, closed>>
opening == <<open, opener>>
phones  == <<remote, listed>>
window  == <<tabs, waiting, alive, reported>>
history == <<sent, direct, cut, silent, missed>>
vars    == <<daemon, opening, phones, op, down, window, gui, history>>

Idle == [kind |-> "none", step |-> "idle", todo |-> {}, now |-> {}]

Event == [kind : {"opened", "closed", "remove_tab"}, session : Sessions]
Steps == {"idle", "asked", "marking", "firing", "listing", "answering", "closing",
          "announcing", "clearing"}

Request ==
  [kind : {"none", "desktop", "phone", "list", "shutdown"}, step : Steps,
   todo : SUBSET Sessions, now : SUBSET Sessions]

TypeOK ==
  /\ open \in [Sessions -> {"unused", "starting", "opened", "shown", "done"}]
  /\ opener \in [Sessions -> {"desktop", "phone"}]
  /\ sessions \subseteq Sessions
  /\ shell \in [Sessions -> {"none", "running", "exited"}]
  /\ main \in [Sessions -> {"none", "loop", "leaving", "sending", "ended"}]
  /\ closed \subseteq Sessions /\ remote \subseteq Sessions /\ listed \subseteq Sessions
  /\ op \in [Ops -> Request]
  /\ down \in {"no", "running", "done"}
  /\ tabs \in [Sessions -> {"none", "on", "off"}]
  /\ waiting \subseteq Sessions /\ alive \subseteq Sessions /\ reported \in BOOLEAN
  /\ gui \in Seq(Event)
  /\ sent \in [Sessions -> Nat] /\ direct \in [Sessions -> Nat]
  /\ cut \subseteq Sessions /\ silent \subseteq Sessions /\ missed \subseteq Sessions

Init ==
  /\ open = [s \in Sessions |-> "unused"] /\ opener = [s \in Sessions |-> "desktop"]
  /\ sessions = {} /\ closed = {} /\ remote = {} /\ listed = {}
  /\ shell = [s \in Sessions |-> "none"] /\ main = [s \in Sessions |-> "none"]
  /\ op = [o \in Ops |-> Idle] /\ down = "no"
  /\ tabs = [s \in Sessions |-> "none"] /\ waiting = {} /\ alive = {} /\ reported = FALSE
  /\ gui = <<>>
  /\ sent = [s \in Sessions |-> 0] /\ direct = [s \in Sessions |-> 0]
  /\ cut = {} /\ silent = {} /\ missed = {}

\* An event for the window, or none.
One(cond, kind, s) == IF cond THEN << [kind |-> kind, session |-> s] >> ELSE <<>>
Emit(kind, s) == gui' = Append(gui, [kind |-> kind, session |-> s])

\* close() keeps the lock of sessions while it waits for the other one, and
\* close_all_local while it closes one terminal after another.
Holds(o) ==
  op[o].step = "announcing" \/ (op[o].kind = "shutdown" /\ op[o].step = "closing")
SessionsFree == \A o \in Ops : ~Holds(o)

\* The main task keeps the lock of closed_sessions while it waits to send.
ClosedFree == \A s \in Sessions : main[s] # "sending"

-----------------------------------------------------------------------------
(* Opening.                                                                 *)

\* open_local starts the shell and inserts the session; the window or the phone
\* that asked for it does not know its name yet.
Open(s, who) ==
  /\ open[s] = "unused" /\ s = CHOOSE u \in Sessions : open[u] = "unused"
  /\ SessionsFree
  /\ open' = [open EXCEPT ![s] = "starting"]
  /\ opener' = [opener EXCEPT ![s] = who]
  /\ sessions' = sessions \cup {s}
  /\ shell' = [shell EXCEPT ![s] = "running"]
  /\ main' = [main EXCEPT ![s] = "loop"]
  /\ waiting' = IF who = "desktop" THEN waiting \cup {s} ELSE waiting
  /\ UNCHANGED <<closed, phones, op, down, tabs, alive, reported, gui, history>>

\* The Opened event, 300 ms later, whatever has become of the session.
Opened(s) ==
  /\ open[s] = "starting"
  /\ open' = [open EXCEPT ![s] = "opened"]
  /\ UNCHANGED <<daemon, opener, phones, op, down, window, gui, history>>

\* ipc_terminal_open returns and the window adds the tab, unless it was loaded
\* again in the meantime.
Return(s) ==
  /\ open[s] = "opened" /\ opener[s] = "desktop"
  /\ open' = [open EXCEPT ![s] = "done"]
  /\ tabs' = IF s \in waiting THEN [tabs EXCEPT ![s] = "on"] ELSE tabs
  /\ waiting' = waiting \ {s}
  /\ UNCHANGED <<daemon, opener, phones, op, down, alive, reported, gui, history>>

\* NEW_TERMINAL of a phone: the window is told, then the session is exempted
\* from the reaping and gets its handle.
Show(s) ==
  /\ open[s] = "opened" /\ opener[s] = "phone"
  /\ open' = [open EXCEPT ![s] = "shown"]
  /\ Emit("opened", s)
  /\ UNCHANGED <<daemon, opener, phones, op, down, window, history>>

Adopt(s) ==
  /\ open[s] = "shown"
  /\ open' = [open EXCEPT ![s] = "done"]
  /\ remote' = remote \cup {s}
  /\ listed' = listed \cup {s}
  /\ UNCHANGED <<daemon, opener, op, down, window, gui, history>>

-----------------------------------------------------------------------------
(* The shell and the main task.                                             *)

ShellExits(s) ==
  /\ shell[s] = "running"
  /\ shell' = [shell EXCEPT ![s] = "exited"]
  /\ UNCHANGED <<sessions, main, closed, opening, phones, op, down, window, gui, history>>

MainLeaves(s) ==
  /\ main[s] = "loop" /\ shell[s] = "exited"
  /\ main' = [main EXCEPT ![s] = "leaving"]
  /\ UNCHANGED <<sessions, shell, closed, opening, phones, op, down, window, gui, history>>

\* Input for a shell that is gone: the writer has given up, the main task finds
\* its channel closed and leaves without a word.  The session stays in the map.
MainBreaks(s) ==
  /\ main[s] = "loop" /\ shell[s] = "exited"
  /\ main' = [main EXCEPT ![s] = "ended"]
  /\ silent' = silent \cup {s}
  /\ UNCHANGED <<sessions, shell, closed, opening, phones, op, down, window, gui, sent, direct, cut, missed>>

\* It takes the lock of closed_sessions, and that of the channel if the end was
\* not announced yet.
MainClaims(s) ==
  /\ main[s] = "leaving" /\ ClosedFree
  /\ closed' = closed \cup {s}
  /\ main' = [main EXCEPT ![s] = IF s \in closed THEN "ended" ELSE "sending"]
  /\ gui' = gui \o One(s \in closed, "closed", s)
  /\ UNCHANGED <<sessions, shell, opening, phones, op, down, window, history>>

MainSends(s) ==
  /\ main[s] = "sending"
  /\ main' = [main EXCEPT ![s] = "ended"]
  /\ sent' = [sent EXCEPT ![s] = @ + 1]
  /\ Emit("closed", s)
  /\ UNCHANGED <<sessions, shell, closed, opening, phones, op, down, window, direct, cut, silent, missed>>

\* abort() takes effect where the task waits; it may also run past that point.
MainDies(s) ==
  /\ main[s] \in {"leaving", "sending"} /\ s \notin sessions
  /\ main' = [main EXCEPT ![s] = "ended"]
  /\ cut' = IF main[s] = "sending" THEN cut \cup {s} ELSE cut
  /\ UNCHANGED <<sessions, shell, closed, opening, phones, op, down, window, gui, sent, direct, silent, missed>>

-----------------------------------------------------------------------------
(* Requests.                                                                *)

Start(o, kind, step, todo, now) ==
  /\ op[o] = Idle
  /\ op' = [op EXCEPT ![o] = [kind |-> kind, step |-> step, todo |-> todo, now |-> now]]

Goto(o, step) == op' = [op EXCEPT ![o].step = step]

\* The request is done with s: the next one of its sessions, or the end.
Proceed(o, s) ==
  LET rest == op[o].todo \ {s} IN
  op' = [op EXCEPT ![o] =
           IF rest # {} THEN [op[o] EXCEPT !.step = "closing", !.todo = rest, !.now = {}]
           ELSE IF op[o].kind = "shutdown"
             THEN [op[o] EXCEPT !.step = "clearing", !.todo = {}, !.now = {}]
             ELSE Idle]

\* The user closes a tab, or ends its terminal and keeps the tab.
CloseTab(o, s) ==
  /\ tabs[s] # "none"
  /\ Start(o, "desktop", "asked", {s}, {})
  /\ \E t \in {"none", "off"} :
       /\ t = "off" => tabs[s] = "on"
       /\ tabs' = [tabs EXCEPT ![s] = t]
  /\ UNCHANGED <<daemon, opening, phones, down, waiting, alive, reported, gui, history>>

\* handle_terminal_close: a session that is in the map is marked as announced,
\* its BeforeTerminalClose is fired here, and then it is closed.
CheckLocal(o, s) ==
  /\ op[o].step = "asked" /\ s \in op[o].todo /\ SessionsFree
  /\ IF s \in sessions THEN Goto(o, "marking") ELSE Proceed(o, s)
  /\ UNCHANGED <<daemon, opening, phones, down, window, gui, history>>

\* Mutant: leaves it to the consumer, which hears nothing of it.
MarkClosedUnfired(o, s) ==
  /\ op[o].step = "marking" /\ s \in op[o].todo /\ ClosedFree
  /\ closed' = closed \cup {s}
  /\ Goto(o, "closing")
  /\ UNCHANGED <<sessions, shell, main, opening, phones, down, window, gui, history>>

MarkClosed(o, s) ==
  /\ op[o].step = "marking" /\ s \in op[o].todo /\ ClosedFree
  /\ closed' = closed \cup {s}
  /\ Goto(o, "firing")
  /\ UNCHANGED <<sessions, shell, main, opening, phones, down, window, gui, history>>

FireBeforeClose(o, s) ==
  /\ op[o].step = "firing" /\ s \in op[o].todo
  /\ direct' = [direct EXCEPT ![s] = @ + 1]
  /\ Goto(o, "closing")
  /\ UNCHANGED <<daemon, opening, phones, down, window, gui, sent, cut, silent, missed>>

\* CLOSE_TERMINAL of a phone.
ClosePhone(o, s) ==
  /\ s \in listed
  /\ Start(o, "phone", "closing", {s}, {})
  /\ UNCHANGED <<daemon, opening, phones, down, window, gui, history>>

\* LIST_REQUEST: the sessions without a tab are left out of the answer and are
\* closed when it has been sent, but for those a phone has opened.
Zombies == {s \in sessions : reported /\ s \notin alive /\ s \notin remote}

List(o) ==
  /\ SessionsFree
  /\ Start(o, "list", "listing", Zombies, sessions \ Zombies)
  /\ UNCHANGED <<daemon, opening, phones, down, window, gui, history>>

ListHandles(o) ==
  /\ op[o].step = "listing"
  /\ listed' = listed \cup op[o].now
  /\ op' = [op EXCEPT ![o].step = "answering", ![o].now = {}]
  /\ UNCHANGED <<daemon, opening, remote, down, window, gui, history>>

\* The answer goes into the queue that only the loop serving the request
\* empties: it may wait for room for ever.
ListResponse(o) ==
  /\ op[o].step = "answering"
  /\ IF op[o].todo = {} THEN op' = [op EXCEPT ![o] = Idle] ELSE Goto(o, "closing")
  /\ UNCHANGED <<daemon, opening, phones, down, window, gui, history>>

\* Mutant: tries again.
NotFoundRetries(o, s) ==
  /\ op[o].step = "closing" /\ s \in op[o].todo /\ SessionsFree
  /\ s \notin sessions
  /\ UNCHANGED vars

\* close() finds no such session.
NotFound(o, s) ==
  /\ op[o].step = "closing" /\ s \in op[o].todo /\ SessionsFree
  /\ s \notin sessions
  /\ Proceed(o, s)
  /\ UNCHANGED <<daemon, opening, phones, down, window, gui, history>>

\* close(): the session leaves the map, its main task is told and aborted, the
\* child is killed.  The task may be past the point where it can be stopped.
Remove(o, s) ==
  /\ op[o].step = "closing" /\ s \in op[o].todo
  /\ SessionsFree \/ Holds(o)
  /\ s \in sessions
  /\ sessions' = sessions \ {s}
  /\ shell' = [shell EXCEPT ![s] = "exited"]
  /\ \E m \in IF main[s] = "loop" THEN {"leaving", "ended"} ELSE {main[s]} :
       main' = [main EXCEPT ![s] = m]
  /\ op' = [op EXCEPT ![o].step = "announcing", ![o].now = {s}]
  /\ UNCHANGED <<closed, opening, phones, down, window, gui, history>>

\* Mutant: does not look what the main task has announced.
UnannouncedAnyway(s) == s \in Sessions
\* Then it announces the end if nobody has.
Unannounced(s) == s \notin closed

\* Mutant: leaves it to the main task, which it has aborted.
TellsLess(o, s) == One(op[o].kind = "phone", "remove_tab", s)
\* What close() tells the window; the shutdown tells it nothing, a phone has it
\* remove the tab.
Tells(o, s) ==
  One(Unannounced(s) /\ op[o].kind # "shutdown", "closed", s)
    \o One(op[o].kind = "phone", "remove_tab", s)

AnnounceClosed(o, s) ==
  /\ op[o].step = "announcing" /\ s \in op[o].now /\ ClosedFree
  /\ closed' = closed \cup {s}
  /\ sent' = [sent EXCEPT ![s] = IF Unannounced(s) THEN @ + 1 ELSE @]
  /\ gui' = gui \o Tells(o, s)
  /\ listed' = listed \ {s}
  /\ remote' = IF op[o].kind = "phone" THEN remote \ {s} ELSE remote
  /\ Proceed(o, s)
  /\ UNCHANGED <<sessions, shell, main, opening, down, window, direct, cut, silent, missed>>

\* The shutdown closes all, then forgets what was announced.
Shutdown(o) ==
  /\ down = "no" /\ SessionsFree
  /\ Start(o, "shutdown", IF sessions = {} THEN "clearing" ELSE "closing", sessions, {})
  /\ down' = "running"
  /\ UNCHANGED <<daemon, opening, phones, window, gui, history>>

ClearClosed(o) ==
  /\ op[o].step = "clearing" /\ ClosedFree
  /\ closed' = {}
  /\ op' = [op EXCEPT ![o] = Idle]
  /\ down' = "done"
  /\ UNCHANGED <<sessions, shell, main, opening, phones, window, gui, history>>

-----------------------------------------------------------------------------
(* The window.                                                              *)

Deliver ==
  /\ gui # <<>>
  /\ LET s == Head(gui).session IN
     /\ gui' = Tail(gui)
     /\ tabs' = CASE Head(gui).kind = "opened" /\ tabs[s] = "none" -> [tabs EXCEPT ![s] = "on"]
                  [] Head(gui).kind = "closed" /\ tabs[s] = "on" -> [tabs EXCEPT ![s] = "off"]
                  [] Head(gui).kind = "remove_tab" -> [tabs EXCEPT ![s] = "none"]
                  [] OTHER -> tabs
     /\ missed' = IF Head(gui).kind = "closed" /\ tabs[s] = "none" THEN missed \cup {s} ELSE missed
  /\ UNCHANGED <<daemon, opening, phones, op, down, waiting, alive, reported, sent, direct, cut, silent>>

\* The window tells which tabs it has, some time after they changed.
Report ==
  /\ alive' = {s \in Sessions : tabs[s] = "on"}
  /\ reported' = TRUE
  /\ UNCHANGED <<daemon, opening, phones, op, down, tabs, waiting, gui, history>>

\* The window is loaded again and has lost its tabs.
Reload ==
  /\ tabs' = [s \in Sessions |-> "none"]
  /\ waiting' = {}
  /\ UNCHANGED <<daemon, opening, phones, op, down, alive, reported, gui, history>>

-----------------------------------------------------------------------------
Opening(s) == Opened(s) \/ Return(s) \/ Show(s) \/ Adopt(s)
Main(s)    == MainLeaves(s) \/ MainClaims(s) \/ MainSends(s) \/ MainDies(s)
Close(o)   ==
  \/ \E s \in Sessions : CheckLocal(o, s) \/ MarkClosed(o, s) \/ FireBeforeClose(o, s)
                           \/ NotFound(o, s) \/ Remove(o, s) \/ AnnounceClosed(o, s)
  \/ ListHandles(o) \/ ClearClosed(o)

Next ==
  \/ \E s \in Sessions :
       \/ \E who \in {"desktop", "phone"} : Open(s, who)
       \/ Opening(s) \/ ShellExits(s) \/ MainBreaks(s) \/ Main(s)
  \/ \E o \in Ops :
       \/ \E s \in Sessions : CloseTab(o, s) \/ ClosePhone(o, s)
       \/ List(o) \/ ListResponse(o) \/ Shutdown(o) \/ Close(o)
  \/ Deliver \/ Report \/ Reload

Spec == Init /\ [][Next]_vars

\* Tasks that can go on do, but for a loop that waits for itself (ListResponse).
Fairness ==
  /\ \A s \in Sessions : WF_vars(Main(s))
  /\ \A o \in Ops : WF_vars(Close(o))

FairSpec == Spec /\ Fairness

-----------------------------------------------------------------------------
(* Properties.                                                              *)

\* The event consumer is told once of the end of a terminal, whoever of close(),
\* the shutdown and the main task comes first (closed_sessions), as long as
\* closed_sessions has not been cleared.
ClosedSentOnce == \A s \in Sessions : down # "done" => sent[s] <= 1

\* The main task has ended and nobody is closing the terminal any more.
InHand(s) == \E o \in Ops : op[o].step = "announcing" /\ s \in op[o].now
Ended(s) == main[s] = "ended" /\ ~InHand(s)

\* A request fires the BeforeTerminalClose of s.
Firing(s) == \E o \in Ops : op[o].step = "firing" /\ s \in op[o].todo

\* The main task ended without a word, and nobody has closed the session since.
Unheard(s) == s \in silent \cap sessions

\* No terminal ends unnoticed by the triggers: the end of each was sent as an
\* event or is fired by the request that closes it, unless the task that was
\* about to send it was aborted.  One whose main task left without a word
\* (terminal.rs, "local PTY write task closed") is announced when somebody
\* closes its session.
EndAnnounced ==
  \A s \in Sessions : Ended(s) /\ s \notin cut =>
    sent[s] + direct[s] > 0 \/ Firing(s) \/ Unheard(s)

\* An event that takes the tab of s off, or marks it, is on its way.
Notice(s) == \E i \in DOMAIN gui : gui[i].session = s /\ gui[i].kind # "opened"

\* A tab does not go on looking connected over a terminal that has ended: it is
\* marked, or the event that marks it is on its way.  But for one the event
\* reached before the tab was there, for a task aborted before it sent it, and
\* for one that left without a word, until somebody closes the session.
TabsMarked ==
  \A s \in Sessions : Ended(s) /\ tabs[s] = "on" =>
    \/ Notice(s)
    \/ s \in missed \cup cut \/ Unheard(s) \/ down # "no"

\* Every request comes to its end, although close() waits for one lock with the
\* other in its hands; but for a LIST_REQUEST whose answer waits for the loop
\* that sends it (handle_list_request), which holds up no request of another.
CloseReturns ==
  \A o \in Ops : op[o].kind # "none" ~> op[o].kind = "none" \/ op[o].step = "answering"

\* Parts of the inductive invariant behind ClosedSentOnce and EndAnnounced: a
\* request before it closes is about one session, and one that announces about
\* the session it has removed; whatever is in closed_sessions, or has ended, is
\* announced or about to be, if it is not unheard of; a main task that reads has
\* its session in the map, and starts when it is opened.
Announced(s) ==
  sent[s] + direct[s] > 0 \/ s \in cut \/ main[s] = "sending" \/ Firing(s)

OneInHand ==
  \A o \in Ops : \A s, t \in Sessions :
    /\ op[o].step \in {"asked", "marking", "firing"} /\ {s, t} \subseteq op[o].todo => s = t
    /\ op[o].step = "announcing" /\ {s, t} \subseteq op[o].now => s = t
ClosedAnnounced == \A s \in closed : Announced(s)
EndsAnnounced ==
  \A s \in Sessions :
    main[s] = "ended" \/ (main[s] = "leaving" /\ s \notin sessions) =>
      Announced(s) \/ InHand(s) \/ Unheard(s)
MainAgrees ==
  \A s \in Sessions :
    /\ main[s] = "loop" => s \in sessions
    /\ open[s] = "unused" => main[s] = "none"
SentIsClosed ==
  down # "done" => \A s \in Sessions :
    /\ sent[s] <= 1
    /\ sent[s] = 1 => s \in closed
    /\ main[s] = "sending" => s \in closed /\ sent[s] = 0

IInv ==
  TypeOK /\ OneInHand /\ ClosedAnnounced /\ EndsAnnounced /\ MainAgrees /\ SentIsClosed

\* Parts of the inductive invariant behind TabsMarked.  Behind the first i
\* events for the window there is the tab of s: one that opening it will add, or
\* an event that does.
TabBehind(s, i) ==
  \/ open[s] \in {"starting", "opened"} /\ (opener[s] = "desktop" => s \in waiting)
  \/ \E k \in DOMAIN gui : k > i /\ gui[k] = [kind |-> "opened", session |-> s]
MayShow(s) == tabs[s] = "on" \/ TabBehind(s, 0)

\* A tab comes once, and nobody acts on a terminal that is not opened.
TabOnce ==
  /\ \A s \in Sessions : tabs[s] # "none" => ~TabBehind(s, 0)
  /\ \A i \in DOMAIN gui : gui[i].kind = "opened" => ~TabBehind(gui[i].session, i)
Fresh ==
  \A s \in Sessions : open[s] = "unused" =>
    /\ s \notin closed \cup sessions \cup listed /\ tabs[s] = "none"
    /\ \A o \in Ops : s \notin op[o].todo \cup op[o].now
    /\ \A i \in DOMAIN gui : gui[i].session # s

\* The user who closes a terminal has the tab no more.
TabGone ==
  \A o \in Ops : \A s \in op[o].todo : op[o].step \in {"asked", "marking"} => ~MayShow(s)

ShutsDown == \A o \in Ops : op[o].kind = "shutdown" => down # "no"

\* A tab that shows after all has missed its terminal:closed, or is still to be
\* told, unless nobody could tell it.
Excused(s) == s \in missed \cup cut \/ down # "no"
Settled(s) == Excused(s) \/ main[s] = "sending" \/ (MayShow(s) => Notice(s))

RemovalTold ==
  \A i \in DOMAIN gui :
    gui[i].kind = "remove_tab" /\ TabBehind(gui[i].session, i) =>
      \/ Excused(gui[i].session)
      \/ \E j \in 1..i - 1 : gui[j] = [kind |-> "closed", session |-> gui[i].session]
ClosedSettled == \A s \in closed : Settled(s)
EndsSettled ==
  \A s \in Sessions :
    main[s] = "ended" \/ (main[s] = "leaving" /\ s \notin sessions) =>
      Settled(s) \/ InHand(s) \/ Unheard(s)

TabInv ==
  IInv /\ TabOnce /\ Fresh /\ TabGone /\ ShutsDown /\ RemovalTold /\ ClosedSettled /\ EndsSettled
=============================================================================
