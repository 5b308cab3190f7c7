------------------------ MODULE LocalTerminalsProofs ------------------------
(***************************************************************************)
(* Who announces the end of a local terminal, for any number of terminals  *)
(* and requests.                                                           *)
(*                                                                         *)
(* The argument: membership of closed_sessions is claimed under its lock,  *)
(* by the one who then announces the end, or by one who still has to       *)
(* (a main task that waits to send, a request that is about to fire); and  *)
(* a main task ends announced, or in the hands of the request that removed *)
(* its session.  IInv of LocalTerminals says this, and is inductive.       *)
(*                                                                         *)
(* What the window learns of it needs more: an end that was announced is   *)
(* Settled, that is told to every tab that shows or may still show.  The   *)
(* user who closes a terminal has no tab of it left and none coming        *)
(* (TabGone); that stays so because a tab comes once (TabOnce) and nobody  *)
(* acts on a terminal that is not opened (Fresh).  A removal that reaches  *)
(* the window before the tab has a terminal:closed before it, which the    *)
(* window misses (RemovalTold).  TabInv is inductive with these.           *)
(***************************************************************************)
EXTENDS LocalTerminals, TLAPS

-----------------------------------------------------------------------------
(* Types                                                                    *)

\* What the helpers of requests do to op.
LEMMA StartType ==
  ASSUME TypeOK, NEW o \in Ops, NEW kind \in {"none", "desktop", "phone", "list", "shutdown"},
         NEW step \in Steps, NEW todo \in SUBSET Sessions, NEW now \in SUBSET Sessions,
         Start(o, kind, step, todo, now)
  PROVE  op' \in [Ops -> Request]
  BY DEF Start, TypeOK, Request

LEMMA GotoType ==
  ASSUME TypeOK, NEW o \in Ops, NEW step \in Steps, Goto(o, step)
  PROVE  op' \in [Ops -> Request]
<1>1. op[o] \in Request
  BY DEF TypeOK
<1>2. [op[o] EXCEPT !.step = step] \in Request
  BY <1>1 DEF Request
<1> QED
  BY <1>2 DEF Goto, TypeOK

LEMMA ProceedType ==
  ASSUME TypeOK, NEW o \in Ops, NEW s \in Sessions, Proceed(o, s)
  PROVE  op' \in [Ops -> Request]
<1>1. op[o] \in Request
  BY DEF TypeOK
<1>2. /\ op[o].todo \subseteq Sessions /\ op[o].kind \in {"none", "desktop", "phone", "list", "shutdown"}
      /\ op[o] = [kind |-> op[o].kind, step |-> op[o].step, todo |-> op[o].todo, now |-> op[o].now]
  BY <1>1 DEF Request
<1> DEFINE rest == op[o].todo \ {s}
<1>3. [op[o] EXCEPT !.step = "closing", !.todo = rest, !.now = {}] \in Request
  BY <1>2 DEF Request, Steps
<1>4. [op[o] EXCEPT !.step = "clearing", !.todo = {}, !.now = {}] \in Request
  BY <1>2 DEF Request, Steps
<1>5. Idle \in Request
  BY DEF Request, Steps, Idle
<1>6. CASE rest # {}
  BY <1>3, <1>6 DEF Proceed, TypeOK
<1>7. CASE rest = {} /\ op[o].kind = "shutdown"
  BY <1>4, <1>7 DEF Proceed, TypeOK
<1>8. CASE rest = {} /\ op[o].kind # "shutdown"
  BY <1>5, <1>8 DEF Proceed, TypeOK
<1> QED
  BY <1>6, <1>7, <1>8

\* Types hold at the start, and every step keeps them.
LEMMA TypeInit == Init => TypeOK
<1> SUFFICES ASSUME Init PROVE TypeOK
  OBVIOUS
<1>1. Idle \in Request
  BY DEF Request, Steps, Idle
<1>2. op \in [Ops -> Request]
  BY <1>1 DEF Init
<1>3. gui \in Seq(Event)
  BY DEF Init
<1> QED
  BY <1>2, <1>3 DEF Init, TypeOK

\* Every step keeps the types.
LEMMA TypeStep == TypeOK /\ [Next]_vars => TypeOK'
<1> SUFFICES ASSUME TypeOK, [Next]_vars PROVE TypeOK'
  OBVIOUS
<1>1. CASE UNCHANGED vars
  BY <1>1 DEF TypeOK, vars, daemon, opening, phones, window, history
<1>2. ASSUME NEW s \in Sessions, NEW who \in {"desktop", "phone"}, Open(s, who) PROVE TypeOK'
  BY <1>2 DEF Open, TypeOK, phones, history
<1>3. ASSUME NEW s \in Sessions, Opening(s) \/ ShellExits(s) PROVE TypeOK'
  <2>1. [kind |-> "opened", session |-> s] \in Event
    BY DEF Event
  <2>2. CASE Opened(s)
    BY <2>2 DEF Opened, TypeOK, daemon, phones, window, history
  <2>3. CASE Return(s)
    BY <2>3 DEF Return, TypeOK, daemon, phones, history
  <2>4. CASE Show(s)
    <3>1. gui' \in Seq(Event)
      BY <2>1, <2>4 DEF Show, Emit, TypeOK
    <3> QED
      BY <3>1, <2>4 DEF Show, TypeOK, daemon, phones, window, history
  <2>5. CASE Adopt(s)
    BY <2>5 DEF Adopt, TypeOK, daemon, window, history
  <2>6. CASE ShellExits(s)
    BY <2>6 DEF ShellExits, TypeOK, opening, phones, window, history
  <2> QED
    BY <1>3, <2>2, <2>3, <2>4, <2>5, <2>6 DEF Opening
<1>4. ASSUME NEW s \in Sessions, MainBreaks(s) \/ Main(s) PROVE TypeOK'
  <2>1. [kind |-> "closed", session |-> s] \in Event
    BY DEF Event
  <2>2. CASE MainLeaves(s)
    BY <2>2 DEF MainLeaves, TypeOK, opening, phones, window, history
  <2>3. CASE MainClaims(s)
    <3>1. One(s \in closed, "closed", s) \in Seq(Event)
      BY <2>1 DEF One
    <3>2. gui' \in Seq(Event)
      BY <3>1, <2>3 DEF MainClaims, TypeOK
    <3>3. main' \in [Sessions -> {"none", "loop", "leaving", "sending", "ended"}]
      BY <2>3 DEF MainClaims, TypeOK
    <3> QED
      BY <3>2, <3>3, <2>3 DEF MainClaims, TypeOK, opening, phones, window, history
  <2>4. CASE MainSends(s)
    <3>1. gui' \in Seq(Event)
      BY <2>1, <2>4 DEF MainSends, Emit, TypeOK
    <3> QED
      BY <3>1, <2>4 DEF MainSends, TypeOK, opening, phones, window
  <2>5. CASE MainDies(s)
    BY <2>5 DEF MainDies, TypeOK, opening, phones, window
  <2>6. CASE MainBreaks(s)
    BY <2>6 DEF MainBreaks, TypeOK, opening, phones, window
  <2> QED
    BY <1>4, <2>2, <2>3, <2>4, <2>5, <2>6 DEF Main
<1>5. ASSUME NEW o \in Ops, NEW s \in Sessions, CloseTab(o, s) \/ ClosePhone(o, s) PROVE TypeOK'
  <2>1. CASE CloseTab(o, s)
    <3>1. op' \in [Ops -> Request]
      BY <2>1, StartType DEF CloseTab, Steps
    <3> QED
      BY <3>1, <2>1 DEF CloseTab, TypeOK, daemon, opening, phones, history
  <2>2. CASE ClosePhone(o, s)
    <3>1. op' \in [Ops -> Request]
      BY <2>2, StartType DEF ClosePhone, Steps
    <3>2. UNCHANGED <<daemon, opening, phones, down, window, gui, history>>
      BY <2>2 DEF ClosePhone
    <3> QED
      BY <3>1, <3>2 DEF TypeOK, daemon, opening, phones, window, history
  <2> QED
    BY <1>5, <2>1, <2>2
<1>6. ASSUME NEW o \in Ops, List(o) \/ Shutdown(o) PROVE TypeOK'
  <2>1. Zombies \in SUBSET Sessions /\ sessions \in SUBSET Sessions
    BY DEF Zombies, TypeOK
  <2>2. CASE List(o)
    <3>1. op' \in [Ops -> Request]
      BY <2>1, <2>2, StartType DEF List, Steps
    <3>2. UNCHANGED <<daemon, opening, phones, down, window, gui, history>>
      BY <2>2 DEF List
    <3> QED
      BY <3>1, <3>2 DEF TypeOK, daemon, opening, phones, window, history
  <2>3. CASE Shutdown(o)
    <3>1. (IF sessions = {} THEN "clearing" ELSE "closing") \in Steps
      BY DEF Steps
    <3>2. PICK step \in Steps : Start(o, "shutdown", step, sessions, {})
      BY <2>3, <3>1 DEF Shutdown
    <3>3. op' \in [Ops -> Request]
      BY <2>1, <3>2, StartType
    <3> QED
      BY <3>3, <2>3 DEF Shutdown, TypeOK, daemon, opening, phones, window, history
  <2> QED
    BY <1>6, <2>2, <2>3
<1>7. ASSUME NEW o \in Ops, ListHandles(o) \/ ListResponse(o) \/ ClearClosed(o) PROVE TypeOK'
  <2>0. op[o] \in Request
    BY DEF TypeOK
  <2>1. CASE ListHandles(o) \/ ListResponse(o)
    <3>1. /\ Idle \in Request /\ [op[o] EXCEPT !.step = "closing"] \in Request
          /\ [op[o] EXCEPT !.step = "answering", !.now = {}] \in Request
      BY <2>0 DEF Request, Steps, Idle
    <3>2. op' \in [Ops -> Request]
      BY <3>1, <2>1 DEF ListHandles, ListResponse, Goto, TypeOK
    <3>3. op[o].now \subseteq Sessions
      BY <2>0 DEF Request
    <3> QED
      BY <3>2, <3>3, <2>1
         DEF ListHandles, ListResponse, TypeOK, daemon, opening, phones, window, history
  <2>2. CASE ClearClosed(o)
    <3>1. Idle \in Request
      BY DEF Request, Steps, Idle
    <3> QED
      BY <3>1, <2>2 DEF ClearClosed, TypeOK, opening, phones, window, history
  <2> QED
    BY <1>7, <2>1, <2>2
<1>8. ASSUME NEW o \in Ops, NEW s \in Sessions, Close(o),
             CheckLocal(o, s) \/ MarkClosed(o, s) \/ FireBeforeClose(o, s) \/ NotFound(o, s)
      PROVE TypeOK'
  <2>1. op' \in [Ops -> Request]
    BY <1>8, GotoType, ProceedType
       DEF CheckLocal, MarkClosed, FireBeforeClose, NotFound, Steps
  <2>2. CASE CheckLocal(o, s) \/ NotFound(o, s)
    BY <2>1, <2>2 DEF CheckLocal, NotFound, TypeOK, daemon, opening, phones, window, history
  <2>3. CASE MarkClosed(o, s)
    BY <2>1, <2>3 DEF MarkClosed, TypeOK, opening, phones, window, history
  <2>4. CASE FireBeforeClose(o, s)
    BY <2>1, <2>4 DEF FireBeforeClose, TypeOK, daemon, opening, phones, window
  <2> QED
    BY <1>8, <2>2, <2>3, <2>4
<1>9. ASSUME NEW o \in Ops, NEW s \in Sessions, Remove(o, s) PROVE TypeOK'
  <2>1. op[o] \in Request
    BY DEF TypeOK
  <2>2. [op[o] EXCEPT !.step = "announcing", !.now = {s}] \in Request
    BY <2>1 DEF Request, Steps
  <2>3. op' \in [Ops -> Request]
    BY <2>2, <1>9 DEF Remove, TypeOK
  <2>4. main' \in [Sessions -> {"none", "loop", "leaving", "sending", "ended"}]
    BY <1>9 DEF Remove, TypeOK
  <2> QED
    BY <2>3, <2>4, <1>9 DEF Remove, TypeOK, opening, phones, window, history
<1>10. ASSUME NEW o \in Ops, NEW s \in Sessions, AnnounceClosed(o, s) PROVE TypeOK'
  <2>1. op' \in [Ops -> Request]
    BY <1>10, ProceedType DEF AnnounceClosed
  <2>2. /\ [kind |-> "closed", session |-> s] \in Event
        /\ [kind |-> "remove_tab", session |-> s] \in Event
    BY DEF Event
  <2>3. Tells(o, s) \in Seq(Event)
    BY <2>2 DEF Tells, One
  <2>4. gui' \in Seq(Event)
    BY <2>3, <1>10 DEF AnnounceClosed, TypeOK
  <2> QED
    BY <2>1, <2>4, <1>10 DEF AnnounceClosed, TypeOK, opening, window
<1>11. ASSUME Deliver \/ Report \/ Reload PROVE TypeOK'
  <2>1. CASE Deliver
    <3>1. Head(gui) \in Event /\ Tail(gui) \in Seq(Event)
      BY <2>1 DEF Deliver, TypeOK
    <3>2. Head(gui).session \in Sessions
      BY <3>1 DEF Event
    <3>3. tabs' \in [Sessions -> {"none", "on", "off"}]
      BY <3>2, <2>1 DEF Deliver, TypeOK
    <3> QED
      BY <3>1, <3>2, <3>3, <2>1 DEF Deliver, TypeOK, daemon, opening, phones
  <2>2. CASE Report
    BY <2>2 DEF Report, TypeOK, daemon, opening, phones, history
  <2>3. CASE Reload
    BY <2>3 DEF Reload, TypeOK, daemon, opening, phones, history
  <2> QED
    BY <1>11, <2>1, <2>2, <2>3
<1> QED
  BY <1>1, <1>2, <1>3, <1>4, <1>5, <1>6, <1>7, <1>8, <1>9, <1>10, <1>11 DEF Next, Close

-----------------------------------------------------------------------------
(* What the helpers of requests do to one request; the others stay.         *)

LEMMA StartEffect ==
  ASSUME TypeOK, NEW o \in Ops, NEW kind, NEW step, NEW todo, NEW now,
         Start(o, kind, step, todo, now)
  PROVE  /\ op[o].step = "idle"
         /\ op'[o].kind = kind /\ op'[o].step = step /\ op'[o].todo = todo /\ op'[o].now = now
         /\ \A p \in Ops : p # o => op'[p] = op[p]
  BY DEF Start, Idle, TypeOK

LEMMA GotoEffect ==
  ASSUME TypeOK, NEW o \in Ops, NEW step \in Steps, Goto(o, step)
  PROVE  /\ op'[o].step = step /\ op'[o].todo = op[o].todo
         /\ op'[o].now = op[o].now /\ op'[o].kind = op[o].kind
         /\ \A p \in Ops : p # o => op'[p] = op[p]
<1>1. op[o] \in Request
  BY DEF TypeOK
<1>2. op'[o] = [op[o] EXCEPT !.step = step]
  BY DEF Goto, TypeOK
<1> QED
  BY <1>1, <1>2 DEF Goto, TypeOK, Request

LEMMA ProceedEffect ==
  ASSUME TypeOK, NEW o \in Ops, NEW s \in Sessions, Proceed(o, s)
  PROVE  /\ op'[o].step \in {"closing", "clearing", "idle"}
         /\ op'[o].todo \subseteq op[o].todo /\ op'[o].now = {}
         /\ op'[o].kind \in {op[o].kind, "none"}
         /\ \A p \in Ops : p # o => op'[p] = op[p]
<1>1. op[o] \in Request
  BY DEF TypeOK
<1> DEFINE rest == op[o].todo \ {s}
<1>2. /\ \A q \in {[op[o] EXCEPT !.step = "closing", !.todo = rest, !.now = {}],
                  [op[o] EXCEPT !.step = "clearing", !.todo = {}, !.now = {}], Idle} :
             /\ q.step \in {"closing", "clearing", "idle"}
             /\ q.todo \subseteq op[o].todo /\ q.now = {}
             /\ q.kind \in {op[o].kind, "none"}
  BY <1>1 DEF Request, Idle
<1>3. \/ op'[o] = [op[o] EXCEPT !.step = "closing", !.todo = rest, !.now = {}]
      \/ op'[o] = [op[o] EXCEPT !.step = "clearing", !.todo = {}, !.now = {}]
      \/ op'[o] = Idle
  BY DEF Proceed, TypeOK
<1> QED
  BY <1>2, <1>3 DEF Proceed, TypeOK

LEMMA ListResponseEffect ==
  ASSUME TypeOK, NEW o \in Ops, ListHandles(o) \/ ListResponse(o)
  PROVE  /\ op[o].step \in {"listing", "answering"}
         /\ op'[o].step \in {"answering", "closing", "idle"}
         /\ op'[o].todo \subseteq op[o].todo /\ op'[o].now \subseteq op[o].now
         /\ op'[o].kind \in {op[o].kind, "none"}
         /\ \A p \in Ops : p # o => op'[p] = op[p]
<1>1. op[o] \in Request
  BY DEF TypeOK
<1>2. CASE ListHandles(o)
  <2>1. op'[o] = [op[o] EXCEPT !.step = "answering", !.now = {}]
    BY <1>2 DEF ListHandles, TypeOK
  <2>2. /\ op'[o].step = "answering" /\ op'[o].now = {}
        /\ op'[o].todo = op[o].todo /\ op'[o].kind = op[o].kind
    BY <1>1, <2>1 DEF Request
  <2> QED
    BY <1>2, <2>2 DEF ListHandles, TypeOK
<1>3. CASE ListResponse(o)
  <2>1. op'[o] = Idle \/ op'[o] = [op[o] EXCEPT !.step = "closing"]
    BY <1>3 DEF ListResponse, Goto, TypeOK
  <2>2. CASE op'[o] = Idle
    BY <1>3, <2>2 DEF ListResponse, Goto, TypeOK, Idle
  <2>3. CASE op'[o] = [op[o] EXCEPT !.step = "closing"]
    <3>1. /\ op'[o].step = "closing" /\ op'[o].now = op[o].now
          /\ op'[o].todo = op[o].todo /\ op'[o].kind = op[o].kind
      BY <1>1, <2>3 DEF Request
    <3> QED
      BY <1>3, <3>1 DEF ListResponse, Goto, TypeOK
  <2> QED
    BY <2>1, <2>2, <2>3
<1> QED
  BY <1>2, <1>3

LEMMA RemoveEffect ==
  ASSUME TypeOK, NEW o \in Ops, NEW s \in Sessions, Remove(o, s)
  PROVE  /\ op[o].step = "closing" /\ op'[o].step = "announcing" /\ op'[o].now = {s}
         /\ op'[o].todo = op[o].todo /\ s \in op[o].todo /\ op'[o].kind = op[o].kind
         /\ \A p \in Ops : p # o => op'[p] = op[p]
<1>1. op[o] \in Request
  BY DEF TypeOK
<1>2. op' = [op EXCEPT ![o] = [op[o] EXCEPT !.step = "announcing", !.now = {s}]]
  BY DEF Remove, TypeOK
<1>3. op'[o] = [op[o] EXCEPT !.step = "announcing", !.now = {s}]
  BY <1>2 DEF TypeOK
<1> QED
  BY <1>1, <1>2, <1>3 DEF Remove, TypeOK, Request

LEMMA ClearClosedEffect ==
  ASSUME TypeOK, NEW o \in Ops, ClearClosed(o)
  PROVE  /\ op[o].step = "clearing" /\ op'[o].step = "idle"
         /\ op'[o].todo = {} /\ op'[o].now = {} /\ op'[o].kind = "none"
         /\ \A p \in Ops : p # o => op'[p] = op[p]
  BY DEF ClearClosed, Idle, TypeOK

\* Steps that start or move a request, but for those that fire, remove or
\* announce: nothing of a terminal's end changes.
Moves(o) ==
  /\ op[o].step \notin {"firing", "announcing"}
  /\ op'[o].step \in {"asked", "marking", "firing"} =>
       /\ \A s, t \in Sessions : {s, t} \subseteq op'[o].todo => s = t
  /\ op'[o].step # "announcing"
  /\ \A p \in Ops : p # o => op'[p] = op[p]

-----------------------------------------------------------------------------
(* The announcements.                                                       *)

EInv == OneInHand /\ ClosedAnnounced /\ EndsAnnounced /\ MainAgrees /\ SentIsClosed

\* Steps that touch none of the variables the announcements depend on.
LEMMA QuietStep ==
  ASSUME EInv, UNCHANGED <<sessions, main, closed, op, down, sent, direct, cut, silent>>,
         \A s \in Sessions : open'[s] = "unused" => open[s] = "unused"
  PROVE  EInv'
  BY DEF EInv, OneInHand, ClosedAnnounced, EndsAnnounced, Unheard, MainAgrees, SentIsClosed,
         Announced, Firing, InHand

\* Steps of a request that only move it.
LEMMA MovesStep ==
  ASSUME TypeOK, EInv, NEW o \in Ops, Moves(o),
         UNCHANGED <<open, sessions, main, sent, direct, cut, silent>>,
         closed' \subseteq closed,
         down' = "done" \/ (down # "done" /\ closed' = closed)
  PROVE  EInv'
<1>1. \A s \in Sessions : Firing(s) => Firing(s)'
  BY DEF Firing, Moves
<1>2. \A s \in Sessions : InHand(s) => InHand(s)'
  BY DEF InHand, Moves
<1>3. \A s \in Sessions : Announced(s) => Announced(s)'
  BY <1>1 DEF Announced
<1>4. OneInHand'
  <2> SUFFICES ASSUME NEW p \in Ops, NEW s \in Sessions, NEW t \in Sessions
               PROVE  /\ op'[p].step \in {"asked", "marking", "firing"} /\ {s, t} \subseteq op'[p].todo => s = t
                      /\ op'[p].step = "announcing" /\ {s, t} \subseteq op'[p].now => s = t
    BY DEF OneInHand
  <2>1. CASE p = o
    BY <2>1 DEF Moves
  <2>2. CASE p # o
    BY <2>2 DEF Moves, EInv, OneInHand
  <2> QED
    BY <2>1, <2>2
<1>5. ClosedAnnounced' /\ EndsAnnounced' /\ MainAgrees'
  BY <1>2, <1>3 DEF TypeOK, EInv, ClosedAnnounced, EndsAnnounced, Unheard, MainAgrees
<1>6. SentIsClosed'
  BY DEF EInv, SentIsClosed
<1> QED
  BY <1>4, <1>5, <1>6 DEF EInv

\* Those are the steps that begin, look up, answer or end a request.
LEMMA RequestsMove ==
  ASSUME TypeOK, EInv, NEW o \in Ops, NEW s \in Sessions,
         \/ CloseTab(o, s) \/ ClosePhone(o, s) \/ List(o) \/ ListHandles(o) \/ ListResponse(o)
         \/ CheckLocal(o, s) \/ NotFound(o, s) \/ Shutdown(o) \/ ClearClosed(o)
  PROVE  EInv'
<1>1. CASE CloseTab(o, s) \/ ClosePhone(o, s)
  <2>1. Moves(o)
    BY <1>1, StartEffect DEF CloseTab, ClosePhone, Moves
  <2> QED
    BY <1>1, <2>1, MovesStep DEF CloseTab, ClosePhone, daemon, history, EInv, SentIsClosed, opening
<1>2. CASE List(o) \/ Shutdown(o)
  <2>1. Moves(o)
    BY <1>2, StartEffect DEF List, Shutdown, Moves
  <2> QED
    BY <1>2, <2>1, MovesStep DEF List, Shutdown, daemon, history, opening
<1>3. CASE ListHandles(o) \/ ListResponse(o)
  <2>1. Moves(o)
    BY <1>3, ListResponseEffect DEF Moves
  <2> QED
    BY <1>3, <2>1, MovesStep DEF ListHandles, ListResponse, daemon, history, opening
<1>4. CASE CheckLocal(o, s) /\ s \in sessions
  <2>1. /\ op[o].step = "asked" /\ op'[o].step = "marking" /\ op'[o].todo = op[o].todo
        /\ \A p \in Ops : p # o => op'[p] = op[p]
    BY <1>4, GotoEffect DEF CheckLocal, Steps
  <2>2. Moves(o)
    BY <2>1 DEF Moves, EInv, OneInHand
  <2> QED
    BY <1>4, <2>2, MovesStep DEF CheckLocal, daemon, history, opening
<1>5. CASE (CheckLocal(o, s) /\ s \notin sessions) \/ NotFound(o, s)
  <2>1. Moves(o)
    BY <1>5, ProceedEffect DEF CheckLocal, NotFound, Moves
  <2> QED
    BY <1>5, <2>1, MovesStep DEF CheckLocal, NotFound, daemon, history, opening
<1>6. CASE ClearClosed(o)
  <2>1. Moves(o)
    BY <1>6, ClearClosedEffect DEF Moves
  <2> QED
    BY <1>6, <2>1, MovesStep DEF ClearClosed, history, opening
<1> QED
  BY <1>1, <1>2, <1>3, <1>4, <1>5, <1>6

\* The steps of a request that claim, fire, remove or announce.
LEMMA ClosingSteps ==
  ASSUME TypeOK, EInv, NEW o \in Ops, NEW s \in Sessions,
         MarkClosed(o, s) \/ FireBeforeClose(o, s) \/ Remove(o, s) \/ AnnounceClosed(o, s)
  PROVE  EInv'
<1>1. CASE MarkClosed(o, s)
  <2>1. /\ op[o].step = "marking" /\ op'[o].step = "firing" /\ op'[o].todo = op[o].todo
        /\ \A p \in Ops : p # o => op'[p] = op[p]
    BY <1>1, GotoEffect DEF MarkClosed, Steps
  <2>2. OneInHand'
    BY <2>1 DEF EInv, OneInHand
  <2>3. Firing(s)' /\ \A u \in Sessions : Firing(u) => Firing(u)'
    BY <1>1, <2>1 DEF MarkClosed, Firing
  <2>4. \A u \in Sessions : InHand(u) => InHand(u)'
    BY <2>1 DEF InHand
  <2>5. Announced(s)' /\ \A u \in Sessions : Announced(u) => Announced(u)'
    BY <1>1, <2>3 DEF MarkClosed, Announced, history
  <2>6. ClosedAnnounced' /\ EndsAnnounced' /\ MainAgrees'
    BY <1>1, <2>4, <2>5
       DEF MarkClosed, opening, history, TypeOK, EInv, ClosedAnnounced, EndsAnnounced, Unheard, MainAgrees
  <2>7. SentIsClosed'
    BY <1>1 DEF MarkClosed, EInv, SentIsClosed, history
  <2> QED
    BY <2>2, <2>6, <2>7 DEF EInv
<1>2. CASE FireBeforeClose(o, s)
  <2>1. /\ op[o].step = "firing" /\ s \in op[o].todo
        /\ op'[o].step = "closing" /\ op'[o].todo = op[o].todo
        /\ \A p \in Ops : p # o => op'[p] = op[p]
    BY <1>2, GotoEffect DEF FireBeforeClose, Steps
  <2>2. OneInHand'
    BY <2>1 DEF EInv, OneInHand
  <2>3. \A u \in Sessions : Firing(u) => Firing(u)' \/ u = s
    BY <2>1 DEF Firing, EInv, OneInHand
  <2>4. \A u \in Sessions : InHand(u) => InHand(u)'
    BY <2>1 DEF InHand
  <2>5. direct'[s] > 0 /\ \A u \in Sessions : u # s => direct'[u] = direct[u]
    BY <1>2 DEF FireBeforeClose, TypeOK
  <2>6. sent[s] \in Nat /\ direct'[s] \in Nat
    BY <1>2 DEF FireBeforeClose, TypeOK
  <2>7. \A u \in Sessions : Announced(u) => Announced(u)'
    BY <1>2, <2>3, <2>5, <2>6 DEF FireBeforeClose, Announced, daemon
  <2>8. ClosedAnnounced' /\ EndsAnnounced' /\ MainAgrees' /\ SentIsClosed'
    BY <1>2, <2>4, <2>7
       DEF FireBeforeClose, opening, TypeOK, EInv, ClosedAnnounced, EndsAnnounced, Unheard, MainAgrees, SentIsClosed, daemon
  <2> QED
    BY <2>2, <2>8 DEF EInv
<1>3. CASE Remove(o, s)
  <2>1. /\ op[o].step = "closing" /\ op'[o].step = "announcing" /\ op'[o].now = {s}
        /\ \A p \in Ops : p # o => op'[p] = op[p]
    BY <1>3, RemoveEffect
  <2>2. OneInHand'
    BY <2>1 DEF EInv, OneInHand
  <2>3. InHand(s)' /\ \A u \in Sessions : InHand(u) => InHand(u)'
    BY <2>1 DEF InHand
  <2>4. \A u \in Sessions : Firing(u) => Firing(u)'
    BY <2>1 DEF Firing
  <2>5. /\ \A u \in Sessions : u # s => main'[u] = main[u]
        /\ main'[s] = main[s] \/ main'[s] \in {"leaving", "ended"}
        /\ main[s] = "sending" => main'[s] = "sending"
        /\ main'[s] # "loop"
    BY <1>3 DEF Remove, TypeOK
  <2>6. \A u \in Sessions : Announced(u) => Announced(u)'
    BY <1>3, <2>4, <2>5 DEF Remove, Announced, history
  <2>7. ClosedAnnounced' /\ EndsAnnounced' /\ MainAgrees'
    <3>1. \A u \in Sessions : u # s /\ Unheard(u) => Unheard(u)'
      BY <1>3 DEF Remove, history, Unheard
    <3>2. EndsAnnounced'
      BY <1>3, <2>3, <2>5, <2>6, <3>1 DEF Remove, EInv, EndsAnnounced
    <3> QED
      BY <1>3, <2>5, <2>6, <3>2 DEF Remove, opening, TypeOK, EInv, ClosedAnnounced, MainAgrees
  <2>8. SentIsClosed'
    BY <1>3, <2>5 DEF Remove, EInv, SentIsClosed, history
  <2> QED
    BY <2>2, <2>7, <2>8 DEF EInv
<1>4. CASE AnnounceClosed(o, s)
  <2>1. /\ op[o].step = "announcing" /\ s \in op[o].now
        /\ op'[o].step \in {"closing", "clearing", "idle"}
        /\ \A p \in Ops : p # o => op'[p] = op[p]
    BY <1>4, ProceedEffect DEF AnnounceClosed
  <2>2. OneInHand'
    BY <2>1 DEF EInv, OneInHand
  <2>3. \A u \in Sessions : Firing(u) => Firing(u)'
    BY <2>1 DEF Firing
  <2>4. \A u \in Sessions : InHand(u) => InHand(u)' \/ u = s
    BY <2>1 DEF InHand, EInv, OneInHand
  <2>5. /\ sent'[s] = IF s \notin closed THEN sent[s] + 1 ELSE sent[s]
        /\ \A u \in Sessions : u # s => sent'[u] = sent[u]
        /\ \A u \in Sessions : sent[u] \in Nat /\ direct[u] \in Nat
    BY <1>4 DEF AnnounceClosed, Unannounced, TypeOK
  <2>6. \A u \in Sessions : Announced(u) => Announced(u)'
    BY <1>4, <2>3, <2>5 DEF AnnounceClosed, Announced
  <2>7. Announced(s)'
    <3>1. CASE s \in closed
      BY <2>6, <3>1 DEF EInv, ClosedAnnounced
    <3>2. CASE s \notin closed
      BY <1>4, <2>5, <3>2 DEF AnnounceClosed, Announced
    <3> QED
      BY <3>1, <3>2
  <2>8. ClosedAnnounced' /\ EndsAnnounced' /\ MainAgrees'
    BY <1>4, <2>4, <2>6, <2>7
       DEF AnnounceClosed, opening, TypeOK, EInv, ClosedAnnounced, EndsAnnounced, Unheard, MainAgrees
  <2>9. SentIsClosed'
    BY <1>4, <2>5 DEF AnnounceClosed, EInv, SentIsClosed
  <2> QED
    BY <2>2, <2>8, <2>9 DEF EInv
<1> QED
  BY <1>1, <1>2, <1>3, <1>4

\* The steps of a terminal itself leave the requests alone.
LEMMA TerminalSteps ==
  ASSUME TypeOK, EInv, NEW s \in Sessions,
         (\E who \in {"desktop", "phone"} : Open(s, who)) \/ MainBreaks(s) \/ Main(s)
  PROVE  EInv'
<1>1. UNCHANGED <<op, down, direct>>
  BY DEF Open, MainBreaks, Main, MainLeaves, MainClaims, MainSends, MainDies, history
<1>2. OneInHand'
  BY <1>1 DEF EInv, OneInHand
<1>3. \A u \in Sessions : (Firing(u) <=> Firing(u)') /\ (InHand(u) <=> InHand(u)')
  BY <1>1 DEF Firing, InHand
<1>4. \A u \in Sessions : sent[u] \in Nat /\ direct[u] \in Nat
  BY DEF TypeOK
<1>5. ASSUME NEW who \in {"desktop", "phone"}, Open(s, who) PROVE EInv'
  <2>1. /\ main' = [main EXCEPT ![s] = "loop"] /\ sessions' = sessions \cup {s}
        /\ open' = [open EXCEPT ![s] = "starting"] /\ main[s] = "none"
        /\ UNCHANGED <<closed, sent, cut, silent>>
    BY <1>5 DEF Open, history, EInv, MainAgrees
  <2>2. \A u \in Sessions : Announced(u) => Announced(u)'
    BY <1>1, <1>3, <2>1 DEF Announced, TypeOK
  <2>3. ClosedAnnounced' /\ EndsAnnounced'
    BY <1>3, <2>1, <2>2 DEF TypeOK, EInv, ClosedAnnounced, EndsAnnounced, Unheard
  <2>4. MainAgrees' /\ SentIsClosed'
    BY <1>1, <2>1 DEF TypeOK, EInv, MainAgrees, SentIsClosed
  <2> QED
    BY <1>2, <2>3, <2>4 DEF EInv
<1>6. CASE MainLeaves(s)
  <2>1. /\ main[s] = "loop" /\ main' = [main EXCEPT ![s] = "leaving"]
        /\ UNCHANGED <<open, sessions, closed, sent, cut, silent>>
    BY <1>6 DEF MainLeaves, history, opening
  <2>2. \A u \in Sessions : Announced(u) => Announced(u)'
    BY <1>1, <1>3, <2>1 DEF Announced, TypeOK
  <2>3. ClosedAnnounced' /\ EndsAnnounced'
    BY <1>3, <2>1, <2>2 DEF TypeOK, EInv, ClosedAnnounced, EndsAnnounced, Unheard, MainAgrees
  <2>4. MainAgrees' /\ SentIsClosed'
    BY <1>1, <2>1 DEF TypeOK, EInv, MainAgrees, SentIsClosed
  <2> QED
    BY <1>2, <2>3, <2>4 DEF EInv
<1>7. CASE MainClaims(s)
  <2>1. /\ main[s] = "leaving" /\ closed' = closed \cup {s}
        /\ main' = [main EXCEPT ![s] = IF s \in closed THEN "ended" ELSE "sending"]
        /\ UNCHANGED <<open, sessions, sent, cut, silent>>
    BY <1>7 DEF MainClaims, history, opening
  <2>2. \A u \in Sessions : Announced(u) => Announced(u)'
    BY <1>1, <1>3, <2>1 DEF Announced, TypeOK
  <2>3. Announced(s)'
    <3>1. CASE s \in closed
      BY <2>2, <3>1 DEF EInv, ClosedAnnounced
    <3>2. CASE s \notin closed
      BY <2>1, <3>2 DEF Announced, TypeOK
    <3> QED
      BY <3>1, <3>2
  <2>4. ClosedAnnounced' /\ EndsAnnounced'
    BY <1>3, <2>1, <2>2, <2>3 DEF TypeOK, EInv, ClosedAnnounced, EndsAnnounced, Unheard
  <2>5. MainAgrees' /\ SentIsClosed'
    BY <1>1, <1>4, <2>1 DEF TypeOK, EInv, MainAgrees, SentIsClosed
  <2> QED
    BY <1>2, <2>4, <2>5 DEF EInv
<1>8. CASE MainSends(s)
  <2>1. /\ main[s] = "sending" /\ main' = [main EXCEPT ![s] = "ended"]
        /\ sent' = [sent EXCEPT ![s] = sent[s] + 1]
        /\ UNCHANGED <<open, sessions, closed, cut, silent>>
    BY <1>8 DEF MainSends, opening
  <2>2. Announced(s)' /\ \A u \in Sessions : Announced(u) => Announced(u)'
    BY <1>1, <1>3, <1>4, <2>1 DEF Announced, TypeOK
  <2>3. ClosedAnnounced' /\ EndsAnnounced'
    BY <1>3, <2>1, <2>2 DEF TypeOK, EInv, ClosedAnnounced, EndsAnnounced, Unheard
  <2>4. MainAgrees' /\ SentIsClosed'
    BY <1>1, <1>4, <2>1 DEF TypeOK, EInv, MainAgrees, SentIsClosed
  <2> QED
    BY <1>2, <2>3, <2>4 DEF EInv
<1>9. CASE MainDies(s)
  <2>1. /\ main[s] \in {"leaving", "sending"} /\ s \notin sessions
        /\ main' = [main EXCEPT ![s] = "ended"]
        /\ cut' = IF main[s] = "sending" THEN cut \cup {s} ELSE cut
        /\ UNCHANGED <<open, sessions, closed, sent, silent>>
    BY <1>9 DEF MainDies, opening
  <2>2. \A u \in Sessions : Announced(u) => Announced(u)'
    BY <1>1, <1>3, <2>1 DEF Announced, TypeOK
  <2>3. main[s] = "sending" => Announced(s)
    BY DEF Announced
  <2>4. ClosedAnnounced' /\ EndsAnnounced'
    BY <1>3, <2>1, <2>2, <2>3 DEF TypeOK, EInv, ClosedAnnounced, EndsAnnounced, Unheard
  <2>5. MainAgrees' /\ SentIsClosed'
    BY <1>1, <2>1 DEF TypeOK, EInv, MainAgrees, SentIsClosed
  <2> QED
    BY <1>2, <2>4, <2>5 DEF EInv
<1>10. CASE MainBreaks(s)
  <2>1. /\ main[s] = "loop" /\ main' = [main EXCEPT ![s] = "ended"] /\ silent' = silent \cup {s}
        /\ UNCHANGED <<open, sessions, closed, sent, cut>>
    BY <1>10 DEF MainBreaks, opening
  <2>2. \A u \in Sessions : Announced(u) => Announced(u)'
    BY <1>1, <1>3, <2>1 DEF Announced, TypeOK
  <2>3. Unheard(s)' /\ \A u \in Sessions : Unheard(u) => Unheard(u)'
    BY <2>1 DEF Unheard, EInv, MainAgrees
  <2>4. ClosedAnnounced' /\ EndsAnnounced'
    BY <1>3, <2>1, <2>2, <2>3 DEF TypeOK, EInv, ClosedAnnounced, EndsAnnounced
  <2>5. MainAgrees' /\ SentIsClosed'
    BY <1>1, <2>1 DEF TypeOK, EInv, MainAgrees, SentIsClosed
  <2> QED
    BY <1>2, <2>4, <2>5 DEF EInv
<1> QED
  BY <1>5, <1>6, <1>7, <1>8, <1>9, <1>10 DEF Main

\* Steps that have no part in the end of a terminal.
LEMMA QuietSteps ==
  ASSUME EInv, TypeOK,
         \/ UNCHANGED vars
         \/ \E s \in Sessions : Opening(s) \/ ShellExits(s)
         \/ Deliver \/ Report \/ Reload
  PROVE  EInv'
<1>1. CASE UNCHANGED vars
  BY <1>1, QuietStep DEF vars, daemon, opening, history
<1>2. ASSUME NEW s \in Sessions, Opening(s) \/ ShellExits(s) PROVE EInv'
  <2>1. UNCHANGED <<sessions, main, closed, op, down, sent, direct, cut, silent>>
    BY <1>2 DEF Opening, Opened, Return, Show, Adopt, ShellExits, daemon, history
  <2>2. \A u \in Sessions : open'[u] = "unused" => open[u] = "unused"
    BY <1>2 DEF Opening, Opened, Return, Show, Adopt, ShellExits, opening, TypeOK
  <2> QED
    BY <2>1, <2>2, QuietStep
<1>3. CASE Deliver \/ Report \/ Reload
  <2>1. UNCHANGED <<open, sessions, main, closed, op, down, sent, direct, cut, silent>>
    BY <1>3 DEF Deliver, Report, Reload, daemon, opening, history
  <2> QED
    BY <2>1, QuietStep
<1> QED
  BY <1>1, <1>2, <1>3

\* IInv is inductive.
LEMMA IInvInit == Init => IInv
<1> SUFFICES ASSUME Init PROVE IInv
  OBVIOUS
<1>1. TypeOK
  BY TypeInit
<1>2. \A o \in Ops : op[o].step = "idle"
  BY DEF Init, Idle
<1> QED
  BY <1>1, <1>2 DEF Init, IInv, OneInHand, ClosedAnnounced, EndsAnnounced, Unheard, MainAgrees, SentIsClosed

\* Every step keeps IInv.
LEMMA IInvStep == IInv /\ [Next]_vars => IInv'
<1> SUFFICES ASSUME IInv, [Next]_vars PROVE IInv'
  OBVIOUS
<1>1. TypeOK /\ EInv
  BY DEF IInv, EInv
<1>2. TypeOK'
  BY <1>1, TypeStep
<1>3. EInv'
  <2>1. CASE \/ UNCHANGED vars \/ Deliver \/ Report \/ Reload
             \/ \E s \in Sessions : Opening(s) \/ ShellExits(s)
    BY <1>1, <2>1, QuietSteps
  <2>2. ASSUME NEW s \in Sessions,
               (\E who \in {"desktop", "phone"} : Open(s, who)) \/ MainBreaks(s) \/ Main(s)
        PROVE  EInv'
    BY <1>1, <2>2, TerminalSteps
  <2>3. PICK any \in Sessions : TRUE
    BY LocalTerminalsAssumption
  <2>4. ASSUME NEW o \in Ops, List(o) \/ Shutdown(o) \/ ListHandles(o) \/ ListResponse(o) \/ ClearClosed(o)
        PROVE  EInv'
    BY <1>1, <2>3, <2>4, RequestsMove
  <2>5. ASSUME NEW o \in Ops, NEW s \in Sessions,
               CloseTab(o, s) \/ ClosePhone(o, s) \/ CheckLocal(o, s) \/ NotFound(o, s)
        PROVE  EInv'
    BY <1>1, <2>5, RequestsMove
  <2>6. ASSUME NEW o \in Ops, NEW s \in Sessions,
               MarkClosed(o, s) \/ FireBeforeClose(o, s) \/ Remove(o, s) \/ AnnounceClosed(o, s)
        PROVE  EInv'
    BY <1>1, <2>6, ClosingSteps
  <2> QED
    BY <2>1, <2>2, <2>4, <2>5, <2>6 DEF Next, Close
<1> QED
  BY <1>2, <1>3 DEF IInv, EInv

-----------------------------------------------------------------------------
(* The window's tabs.                                                       *)

\* A request is about terminals that somebody knew of when it began.
LEMMA RequestStep ==
  ASSUME TypeOK, [Next]_vars, NEW o \in Ops
  PROVE  /\ \A s \in op'[o].todo \cup op'[o].now :
              s \in op[o].todo \cup op[o].now \cup sessions \cup listed \/ tabs[s] # "none"
         /\ \A s \in op'[o].todo :
              op'[o].step \in {"asked", "marking"} =>
                \/ op[o].step \in {"asked", "marking"} /\ s \in op[o].todo
                \/ \E p \in Ops : CloseTab(p, s)
         /\ op'[o].kind = "shutdown" => op[o].kind = "shutdown" \/ down' # "no"
<1> DEFINE Kept == /\ op'[o].todo \cup op'[o].now \subseteq op[o].todo \cup op[o].now
                   /\ op'[o].step \in {"asked", "marking"} => op[o].step \in {"asked", "marking"}
                   /\ op'[o].todo \subseteq op[o].todo
                   /\ op'[o].kind \in {op[o].kind, "none"}
           Goal == /\ \A s \in op'[o].todo \cup op'[o].now :
                        s \in op[o].todo \cup op[o].now \cup sessions \cup listed \/ tabs[s] # "none"
                   /\ \A s \in op'[o].todo :
                        op'[o].step \in {"asked", "marking"} =>
                          \/ op[o].step \in {"asked", "marking"} /\ s \in op[o].todo
                          \/ \E p \in Ops : CloseTab(p, s)
                   /\ op'[o].kind = "shutdown" => op[o].kind = "shutdown" \/ down' # "no"
<1> SUFFICES Goal
  OBVIOUS
<1>1. Kept => Goal
  OBVIOUS
<1>2. CASE op'[o] = op[o]
  BY <1>1, <1>2
<1>3. ASSUME NEW s \in Sessions, CloseTab(o, s) PROVE Goal
  <2>1. \E p \in Ops : CloseTab(p, s)
    BY <1>3
  <2>2. /\ op'[o].todo = {s} /\ op'[o].now = {} /\ op'[o].kind = "desktop"
        /\ tabs[s] # "none"
    BY <1>3, StartEffect DEF CloseTab
  <2> QED
    BY <2>1, <2>2
<1>4. ASSUME NEW s \in Sessions, ClosePhone(o, s) PROVE Goal
  BY <1>4, StartEffect DEF ClosePhone
<1>5. CASE List(o)
  BY <1>5, StartEffect DEF List, Zombies
<1>6. CASE Shutdown(o)
  BY <1>6, StartEffect DEF Shutdown
<1>7. ASSUME NEW s \in Sessions, CheckLocal(o, s) /\ s \in sessions PROVE Goal
  BY <1>1, <1>7, GotoEffect DEF CheckLocal, Steps
<1>8. ASSUME NEW s \in Sessions, (CheckLocal(o, s) /\ s \notin sessions) \/ NotFound(o, s) \/ AnnounceClosed(o, s)
      PROVE  Goal
  BY <1>1, <1>8, ProceedEffect DEF CheckLocal, NotFound, AnnounceClosed
<1>9. ASSUME NEW s \in Sessions, MarkClosed(o, s) \/ FireBeforeClose(o, s) PROVE Goal
  BY <1>1, <1>9, GotoEffect DEF MarkClosed, FireBeforeClose, Steps
<1>10. ASSUME NEW s \in Sessions, Remove(o, s) PROVE Goal
  BY <1>1, <1>10, RemoveEffect
<1>11. CASE ListHandles(o) \/ ListResponse(o) \/ ClearClosed(o)
  BY <1>1, <1>11, ListResponseEffect, ClearClosedEffect
<1> HIDE DEF Goal, Kept
<1>12. ASSUME NEW s \in Sessions, NEW p \in Ops, p # o,
              \/ CloseTab(p, s) \/ ClosePhone(p, s) \/ CheckLocal(p, s) \/ MarkClosed(p, s)
              \/ FireBeforeClose(p, s) \/ NotFound(p, s) \/ Remove(p, s) \/ AnnounceClosed(p, s)
       PROVE  op'[o] = op[o]
  BY <1>12, StartEffect, GotoEffect, ProceedEffect, RemoveEffect
     DEF CloseTab, ClosePhone, CheckLocal, MarkClosed, FireBeforeClose, NotFound, AnnounceClosed, Steps
<1>13. ASSUME NEW p \in Ops, p # o, List(p) \/ Shutdown(p) \/ ListHandles(p) \/ ListResponse(p) \/ ClearClosed(p)
       PROVE  op'[o] = op[o]
  BY <1>13, StartEffect, ListResponseEffect, ClearClosedEffect DEF List, Shutdown
<1>14. ASSUME NEW s \in Sessions,
              (\E who \in {"desktop", "phone"} : Open(s, who)) \/ Opening(s) \/ ShellExits(s) \/ MainBreaks(s) \/ Main(s)
       PROVE  op' = op
  BY <1>14 DEF Open, Opening, Opened, Return, Show, Adopt, ShellExits, MainBreaks, Main, MainLeaves,
               MainClaims, MainSends, MainDies
<1>15. CASE Deliver \/ Report \/ Reload \/ UNCHANGED vars
  BY <1>2, <1>15 DEF Deliver, Report, Reload, vars
<1> QED
  <2>1. ASSUME NEW s \in Sessions, NEW p \in Ops,
               \/ CloseTab(p, s) \/ ClosePhone(p, s) \/ CheckLocal(p, s) \/ MarkClosed(p, s)
               \/ FireBeforeClose(p, s) \/ NotFound(p, s) \/ Remove(p, s) \/ AnnounceClosed(p, s)
        PROVE  Goal
    BY <1>2, <1>3, <1>4, <1>7, <1>8, <1>9, <1>10, <1>12, <2>1
  <2>2. ASSUME NEW p \in Ops, List(p) \/ Shutdown(p) \/ ListHandles(p) \/ ListResponse(p) \/ ClearClosed(p)
        PROVE  Goal
    BY <1>2, <1>5, <1>6, <1>11, <1>13, <2>2
  <2> QED
    BY <1>2, <1>14, <1>15, <2>1, <2>2, Zenon DEF Next, Close

\* What the window has coming when events are added that bring no tab.
LEMMA Grows ==
  ASSUME TypeOK, NEW e \in Seq(Event), gui' = gui \o e,
         UNCHANGED <<open, opener, waiting>>,
         \A i \in DOMAIN e : e[i].kind # "opened"
  PROVE  /\ \A s, i : i \in Nat => (TabBehind(s, i)' <=> TabBehind(s, i))
         /\ \A s : Notice(s) => Notice(s)'
         /\ \A i \in DOMAIN gui : i \in DOMAIN gui' /\ gui'[i] = gui[i]
         /\ \A i \in DOMAIN gui' :
              i \in DOMAIN gui \/ \E j \in DOMAIN e : i = Len(gui) + j /\ gui'[i] = e[j]
<1>1. gui \in Seq(Event) /\ DOMAIN gui = 1..Len(gui) /\ Len(gui) \in Nat
  BY DEF TypeOK
<1>2. /\ DOMAIN gui' = 1..Len(gui) + Len(e) /\ DOMAIN e = 1..Len(e) /\ Len(e) \in Nat
      /\ \A i \in 1..Len(gui) : gui'[i] = gui[i]
      /\ \A j \in 1..Len(e) : gui'[Len(gui) + j] = e[j]
  BY <1>1
<1>3. \A i \in DOMAIN gui : i \in DOMAIN gui' /\ gui'[i] = gui[i]
  BY <1>1, <1>2
<1>4. ASSUME NEW i \in DOMAIN gui', i \notin DOMAIN gui
      PROVE  \E j \in DOMAIN e : i = Len(gui) + j /\ gui'[i] = e[j]
  <2>1. i - Len(gui) \in DOMAIN e /\ i = Len(gui) + (i - Len(gui))
    BY <1>1, <1>2, <1>4
  <2>2. gui'[Len(gui) + (i - Len(gui))] = e[i - Len(gui)]
    BY <1>2, <2>1
  <2> QED
    BY <2>1, <2>2
<1>5. \A s : Notice(s) => Notice(s)'
  BY <1>3 DEF Notice
<1>6. ASSUME NEW s, NEW i \in Nat PROVE TabBehind(s, i)' <=> TabBehind(s, i)
  <2> DEFINE opened == [kind |-> "opened", session |-> s]
  <2>1. \A k \in DOMAIN gui : gui[k] = opened => k \in DOMAIN gui' /\ gui'[k] = opened
    BY <1>3
  <2>2. \A k \in DOMAIN gui' : gui'[k] = opened => k \in DOMAIN gui /\ gui[k] = opened
    <3>1. opened.kind = "opened"
      OBVIOUS
    <3> HIDE DEF opened
    <3> QED
      BY <1>3, <1>4, <3>1
  <2> HIDE DEF opened
  <2> QED
    BY <2>1, <2>2 DEF TabBehind, opened
<1> QED
  BY <1>3, <1>4, <1>5, <1>6

\* What the window has coming when it has dealt with an event.
LEMMA Shifts ==
  ASSUME TypeOK, gui # <<>>, gui' = Tail(gui), UNCHANGED <<open, opener, waiting>>
  PROVE  /\ \A s, i : i \in Nat => (TabBehind(s, i)' <=> TabBehind(s, i + 1))
         /\ gui[1] = Head(gui) /\ Head(gui) \in Event /\ 1 \in DOMAIN gui
         /\ DOMAIN gui' \subseteq Nat \ {0}
         /\ \A i \in DOMAIN gui' : i + 1 \in DOMAIN gui /\ gui'[i] = gui[i + 1]
         /\ \A i \in DOMAIN gui : i # 1 => i \in Nat /\ i - 1 \in DOMAIN gui' /\ gui'[i - 1] = gui[i]
<1>1. gui \in Seq(Event) /\ DOMAIN gui = 1..Len(gui) /\ Len(gui) \in Nat \ {0}
  BY DEF TypeOK
<1>2. DOMAIN gui' = 1..Len(gui) - 1 /\ \A i \in 1..Len(gui) - 1 : gui'[i] = gui[i + 1]
  BY <1>1
<1>3. /\ \A i \in DOMAIN gui' : i \in Nat /\ i + 1 \in DOMAIN gui /\ gui'[i] = gui[i + 1]
      /\ \A i \in DOMAIN gui : i # 1 => i \in Nat /\ i - 1 \in DOMAIN gui' /\ gui'[i - 1] = gui[i]
  BY <1>1, <1>2
<1>4. ASSUME NEW s, NEW i \in Nat PROVE TabBehind(s, i)' <=> TabBehind(s, i + 1)
  <2> DEFINE opened == [kind |-> "opened", session |-> s]
             After  == \E k \in DOMAIN gui : k > i + 1 /\ gui[k] = opened
             AfterP == \E k \in DOMAIN gui' : k > i /\ gui'[k] = opened
  <2> HIDE DEF opened
  <2>1. ASSUME After PROVE AfterP
    <3>1. PICK k \in DOMAIN gui : k > i + 1 /\ gui[k] = opened
      BY <2>1
    <3>2. k # 1 /\ k - 1 > i
      BY <1>1, <3>1
    <3> QED
      BY <1>3, <3>1, <3>2
  <2>2. ASSUME AfterP PROVE After
    <3>1. PICK k \in DOMAIN gui' : k > i /\ gui'[k] = opened
      BY <2>2
    <3>2. k + 1 > i + 1
      BY <1>2, <3>1
    <3> QED
      BY <1>3, <3>1, <3>2
  <2> QED
    BY <2>1, <2>2 DEF TabBehind, opened
<1>5. gui[1] = Head(gui) /\ Head(gui) \in Event /\ 1 \in DOMAIN gui
  BY <1>1
<1>6. DOMAIN gui' \subseteq Nat \ {0}
  BY <1>1, <1>2
<1> QED
  BY <1>3, <1>4, <1>5, <1>6

ClosedEvent(s) == [kind |-> "closed", session |-> s]
RemoveEvent(s) == [kind |-> "remove_tab", session |-> s]

\* What close() tells the window, event by event.
LEMMA TellsCases ==
  ASSUME NEW o \in Ops, NEW s \in Sessions
  PROVE  \/ /\ s \notin closed /\ op[o].kind = "phone" /\ Tells(o, s) \in Seq(Event)
            /\ DOMAIN Tells(o, s) = {1, 2} /\ Tells(o, s)[1] = ClosedEvent(s) /\ Tells(o, s)[2] = RemoveEvent(s)
         \/ /\ s \notin closed /\ op[o].kind \notin {"phone", "shutdown"}
            /\ Tells(o, s) \in Seq(Event) /\ DOMAIN Tells(o, s) = {1} /\ Tells(o, s)[1] = ClosedEvent(s)
         \/ /\ s \in closed /\ op[o].kind = "phone"
            /\ Tells(o, s) \in Seq(Event) /\ DOMAIN Tells(o, s) = {1} /\ Tells(o, s)[1] = RemoveEvent(s)
         \/ /\ op[o].kind # "phone" /\ (s \in closed \/ op[o].kind = "shutdown")
            /\ Tells(o, s) \in Seq(Event) /\ DOMAIN Tells(o, s) = {}
<1> DEFINE c == ClosedEvent(s)
           r == RemoveEvent(s)
<1>1. c \in Event /\ r \in Event
  BY DEF Event, ClosedEvent, RemoveEvent
<1>2. Tells(o, s) = (IF s \notin closed /\ op[o].kind # "shutdown" THEN <<c>> ELSE << >>)
                      \o (IF op[o].kind = "phone" THEN <<r>> ELSE << >>)
  BY DEF Tells, One, Unannounced, ClosedEvent, RemoveEvent
<1> HIDE DEF c, r
<1>3. /\ <<c>> \in Seq(Event) /\ <<r>> \in Seq(Event) /\ << >> \in Seq(Event)
      /\ Len(<<c>>) = 1 /\ Len(<<r>>) = 1
  BY <1>1
<1>4. CASE s \notin closed /\ op[o].kind = "phone"
  <2>1. Tells(o, s) = <<c>> \o <<r>>
    BY <1>2, <1>4, Zenon
  <2>2. /\ Tells(o, s) \in Seq(Event) /\ DOMAIN Tells(o, s) = 1..2
        /\ Tells(o, s)[1] = c /\ Tells(o, s)[2] = r
    BY <1>3, <2>1
  <2>3. 1..2 = {1, 2}
    OBVIOUS
  <2> QED
    BY <1>4, <2>2, <2>3 DEF c, r
<1>5. CASE s \notin closed /\ op[o].kind \notin {"phone", "shutdown"}
  <2>1. Tells(o, s) = <<c>> \o << >>
    BY <1>2, <1>5, Zenon
  <2>2. Tells(o, s) \in Seq(Event) /\ DOMAIN Tells(o, s) = 1..1 /\ Tells(o, s)[1] = c
    BY <1>3, <2>1
  <2>3. 1..1 = {1}
    OBVIOUS
  <2> QED
    BY <1>5, <2>2, <2>3 DEF c
<1>6. CASE s \in closed /\ op[o].kind = "phone"
  <2>1. Tells(o, s) = << >> \o <<r>>
    BY <1>2, <1>6, Zenon
  <2>2. Tells(o, s) \in Seq(Event) /\ DOMAIN Tells(o, s) = 1..1 /\ Tells(o, s)[1] = r
    BY <1>3, <2>1
  <2>3. 1..1 = {1}
    OBVIOUS
  <2> QED
    BY <1>6, <2>2, <2>3 DEF r
<1>7. CASE op[o].kind # "phone" /\ (s \in closed \/ op[o].kind = "shutdown")
  <2>1. Tells(o, s) = << >> \o << >>
    BY <1>2, <1>7, Zenon
  <2>2. Tells(o, s) \in Seq(Event) /\ DOMAIN Tells(o, s) = {}
    BY <1>3, <2>1
  <2> QED
    BY <1>7, <2>2
<1> QED
  BY <1>4, <1>5, <1>6, <1>7

\* All of it is about the terminal, and none of it opens a tab.
LEMMA Told ==
  ASSUME NEW o \in Ops, NEW s \in Sessions
  PROVE  /\ Tells(o, s) \in Seq(Event)
         /\ \A i \in DOMAIN Tells(o, s) : Tells(o, s)[i].session = s /\ Tells(o, s)[i].kind # "opened"
<1>1. /\ ClosedEvent(s).session = s /\ ClosedEvent(s).kind # "opened"
      /\ RemoveEvent(s).session = s /\ RemoveEvent(s).kind # "opened"
  BY DEF ClosedEvent, RemoveEvent
<1> QED
  BY <1>1, TellsCases

\* The steps that change what the window has, or has coming; no other does.
LEMMA StepKinds ==
  ASSUME [Next]_vars
  PROVE  \/ UNCHANGED <<open, opener, waiting, tabs, gui>>
         \/ \E s \in Sessions, who \in {"desktop", "phone"} : Open(s, who)
         \/ \E s \in Sessions : Opened(s) \/ Return(s) \/ Show(s) \/ Adopt(s)
         \/ \E s \in Sessions : MainClaims(s) \/ MainSends(s) \/ \E o \in Ops : AnnounceClosed(o, s)
         \/ \E o \in Ops, s \in Sessions : CloseTab(o, s)
         \/ Deliver \/ Reload
<1> DEFINE Same == UNCHANGED <<open, opener, waiting, tabs, gui>>
<1>1. ASSUME NEW s \in Sessions, ShellExits(s) \/ MainBreaks(s) \/ MainLeaves(s) \/ MainDies(s) PROVE Same
  BY <1>1 DEF ShellExits, MainBreaks, MainLeaves, MainDies, opening, window
<1>2. ASSUME NEW o \in Ops, NEW s \in Sessions,
             \/ ClosePhone(o, s) \/ CheckLocal(o, s) \/ MarkClosed(o, s) \/ FireBeforeClose(o, s)
             \/ NotFound(o, s) \/ Remove(o, s)
      PROVE  Same
  BY <1>2 DEF ClosePhone, CheckLocal, MarkClosed, FireBeforeClose, NotFound, Remove, opening, window
<1>3. ASSUME NEW o \in Ops, List(o) \/ Shutdown(o) \/ ListHandles(o) \/ ListResponse(o) \/ ClearClosed(o) PROVE Same
  BY <1>3 DEF List, Shutdown, ListHandles, ListResponse, ClearClosed, opening, window
<1>4. CASE Report \/ UNCHANGED vars
  BY <1>4 DEF Report, vars, opening, window
<1> HIDE DEF Same
<1> QED
  BY <1>1, <1>2, <1>3, <1>4, Zenon DEF Next, Opening, Main, Close, Same

\* A terminal that is opened stays so, and a new one was not there.
LEMMA OpenStep ==
  ASSUME TypeOK, [Next]_vars, NEW s \in Sessions, open'[s] = "unused"
  PROVE  open[s] = "unused" /\ \A who \in {"desktop", "phone"} : ~Open(s, who)
<1>1. open[s] = "unused"
  <2>1. CASE UNCHANGED open
    BY <2>1
  <2>2. ASSUME NEW t \in Sessions, NEW who \in {"desktop", "phone"}, Open(t, who) PROVE open[s] = "unused"
    BY <2>2 DEF Open, TypeOK
  <2>3. ASSUME NEW t \in Sessions, Opened(t) \/ Return(t) \/ Show(t) \/ Adopt(t) PROVE open[s] = "unused"
    BY <2>3 DEF Opened, Return, Show, Adopt, TypeOK
  <2>4. ASSUME NEW t \in Sessions, MainClaims(t) \/ MainSends(t) \/ \E o \in Ops : AnnounceClosed(o, t)
        PROVE  UNCHANGED open
    BY <2>4 DEF MainClaims, MainSends, AnnounceClosed, opening
  <2>5. ASSUME NEW o \in Ops, NEW t \in Sessions, CloseTab(o, t) PROVE UNCHANGED open
    BY <2>5 DEF CloseTab, opening
  <2>6. CASE Deliver \/ Reload
    BY <2>1, <2>6 DEF Deliver, Reload, opening
  <2> QED
    BY <2>1, <2>2, <2>3, <2>4, <2>5, <2>6, StepKinds, Zenon
<1>2. ASSUME NEW who \in {"desktop", "phone"}, Open(s, who) PROVE FALSE
  BY <1>2 DEF Open, TypeOK
<1> QED
  BY <1>1, <1>2

\* Who announces the end of s tells the window of s, and opens nothing.
LEMMA EndTold ==
  ASSUME TypeOK, NEW s \in Sessions,
         MainClaims(s) \/ MainSends(s) \/ \E o \in Ops : AnnounceClosed(o, s)
  PROVE  /\ UNCHANGED <<open, opener, waiting, tabs>>
         /\ \E e \in Seq(Event) :
              gui' = gui \o e /\ \A i \in DOMAIN e : e[i].session = s /\ e[i].kind # "opened"
<1> DEFINE c == [kind |-> "closed", session |-> s]
           Goal == \E e \in Seq(Event) :
                     gui' = gui \o e /\ \A i \in DOMAIN e : e[i].session = s /\ e[i].kind # "opened"
<1>1. UNCHANGED <<open, opener, waiting, tabs>>
  BY DEF MainClaims, MainSends, AnnounceClosed, opening, window
<1> SUFFICES Goal
  BY <1>1
<1>2. c \in Event /\ c.session = s /\ c.kind # "opened"
  BY DEF Event
<1>3. /\ <<c>> \in Seq(Event) /\ \A i \in DOMAIN <<c>> : <<c>>[i].session = s /\ <<c>>[i].kind # "opened"
      /\ << >> \in Seq(Event) /\ \A i \in DOMAIN << >> : << >>[i].session = s /\ << >>[i].kind # "opened"
  BY <1>2
<1>4. CASE MainClaims(s)
  <2>1. gui' = gui \o <<c>> \/ gui' = gui \o << >>
    BY <1>4 DEF MainClaims, One
  <2> QED
    BY <1>3, <2>1, Zenon
<1>5. CASE MainSends(s)
  <2>1. gui' = Append(gui, c)
    BY <1>5 DEF MainSends, Emit
  <2>2. gui \in Seq(Event)
    BY DEF TypeOK
  <2>3. gui' = gui \o <<c>>
    BY <1>2, <2>1, <2>2
  <2> QED
    BY <1>3, <2>3, Zenon
<1>6. ASSUME NEW o \in Ops, AnnounceClosed(o, s) PROVE Goal
  <2>1. gui' = gui \o Tells(o, s)
    BY <1>6 DEF AnnounceClosed
  <2>2. /\ Tells(o, s) \in Seq(Event)
        /\ \A i \in DOMAIN Tells(o, s) : Tells(o, s)[i].session = s /\ Tells(o, s)[i].kind # "opened"
    BY Told
  <2> QED
    BY <2>1, <2>2, Zenon
<1> QED
  BY <1>4, <1>5, <1>6

\* Whatever is behind more events is behind fewer.
LEMMA BehindFewer ==
  ASSUME TypeOK, NEW s, NEW i \in Nat, NEW j \in Nat, j <= i, TabBehind(s, i)
  PROVE  TabBehind(s, j)
<1>1. \A k \in DOMAIN gui : k \in Nat
  BY DEF TypeOK
<1> QED
  BY <1>1 DEF TabBehind

\* A tab comes only when a terminal is opened.
LEMMA BehindStep ==
  ASSUME TypeOK, [Next]_vars, NEW s \in Sessions, open[s] # "unused", NEW i \in Nat, TabBehind(s, i)'
  PROVE  TabBehind(s, i)
<1> DEFINE opened(t) == [kind |-> "opened", session |-> t]
<1>1. CASE UNCHANGED <<open, opener, waiting, tabs, gui>>
  BY <1>1 DEF TabBehind
<1>2. ASSUME NEW t \in Sessions, NEW who \in {"desktop", "phone"}, Open(t, who) PROVE TabBehind(s, i)
  <2>1. /\ s # t /\ open'[s] = open[s] /\ opener'[s] = opener[s] /\ gui' = gui
        /\ s \in waiting' <=> s \in waiting
    BY <1>2 DEF Open, TypeOK
  <2> QED
    BY <2>1 DEF TabBehind
<1>3. ASSUME NEW t \in Sessions, Opened(t) \/ Return(t) \/ Adopt(t) PROVE TabBehind(s, i)
  <2>1. /\ opener' = opener /\ gui' = gui /\ waiting' \subseteq waiting
        /\ open'[s] \in {"starting", "opened"} => open[s] \in {"starting", "opened"}
    BY <1>3 DEF Opened, Return, Adopt, opening, window, TypeOK
  <2> QED
    BY <2>1 DEF TabBehind
<1>4. ASSUME NEW t \in Sessions, Show(t) PROVE TabBehind(s, i)
  <2>1. CASE t = s
    BY <1>4, <2>1 DEF Show, TabBehind
  <2>2. CASE t # s
    <3>1. /\ open'[s] = open[s] /\ opener' = opener /\ waiting' = waiting /\ gui' = Append(gui, opened(t))
      BY <1>4, <2>2 DEF Show, Emit, window, TypeOK
    <3>2. opened(t) # opened(s) /\ opened(t) \in Event
      BY <2>2 DEF Event
    <3> HIDE DEF opened
    <3>3. \A k \in DOMAIN gui' : gui'[k] = opened(s) => k \in DOMAIN gui /\ gui[k] = opened(s)
      BY <3>1, <3>2 DEF TypeOK
    <3> QED
      BY <3>1, <3>3 DEF TabBehind, opened
  <2> QED
    BY <2>1, <2>2
<1>5. ASSUME NEW t \in Sessions, MainClaims(t) \/ MainSends(t) \/ \E o \in Ops : AnnounceClosed(o, t)
      PROVE  TabBehind(s, i)
  <2>1. UNCHANGED <<open, opener, waiting, tabs>>
    BY <1>5, EndTold
  <2>2. PICK e \in Seq(Event) :
          gui' = gui \o e /\ \A k \in DOMAIN e : e[k].session = t /\ e[k].kind # "opened"
    BY <1>5, EndTold
  <2> QED
    BY <2>1, <2>2, Grows
<1>6. ASSUME NEW o \in Ops, NEW t \in Sessions, CloseTab(o, t) PROVE TabBehind(s, i)
  BY <1>6 DEF CloseTab, opening, TabBehind
<1>7. CASE Reload
  BY <1>7 DEF Reload, opening, TabBehind
<1>8. CASE Deliver
  <2>1. gui # <<>> /\ gui' = Tail(gui) /\ UNCHANGED <<open, opener, waiting>>
    BY <1>8 DEF Deliver, opening
  <2>2. TabBehind(s, i + 1)
    BY <2>1, Shifts
  <2> QED
    BY <2>2, BehindFewer
<1> QED
  BY <1>1, <1>2, <1>3, <1>4, <1>5, <1>6, <1>7, <1>8, StepKinds, Zenon

\* Where an event for the window comes from.
LEMMA GuiStep ==
  ASSUME TypeOK, [Next]_vars, NEW i \in DOMAIN gui'
  PROVE  \/ i \in DOMAIN gui /\ gui'[i] = gui[i] /\ \A k \in DOMAIN gui : k \in DOMAIN gui' /\ gui'[k] = gui[k]
         \/ Deliver
         \/ i = Len(gui) + 1 /\ \E s \in Sessions : Show(s) /\ gui'[i].session = s
         \/ \E s \in Sessions :
              /\ MainClaims(s) \/ MainSends(s)
              /\ gui'[i] = ClosedEvent(s)
         \/ \E s \in Sessions, o \in Ops :
              /\ AnnounceClosed(o, s)
              /\ \E j \in DOMAIN Tells(o, s) : i = Len(gui) + j /\ gui'[i] = Tells(o, s)[j]
<1> DEFINE Kept == i \in DOMAIN gui /\ gui'[i] = gui[i] /\ \A k \in DOMAIN gui : k \in DOMAIN gui' /\ gui'[k] = gui[k]
           Shown == i = Len(gui) + 1 /\ \E s \in Sessions : Show(s) /\ gui'[i].session = s
           Sends == \E s \in Sessions : (MainClaims(s) \/ MainSends(s)) /\ gui'[i] = ClosedEvent(s)
           Tell == \E s \in Sessions, o \in Ops :
                     /\ AnnounceClosed(o, s)
                     /\ \E j \in DOMAIN Tells(o, s) : i = Len(gui) + j /\ gui'[i] = Tells(o, s)[j]
           Goal == Kept \/ Deliver \/ Shown \/ Sends \/ Tell
<1> SUFFICES Goal
  OBVIOUS
<1>0. gui \in Seq(Event)
  BY DEF TypeOK
<1>1. UNCHANGED gui => Kept
  OBVIOUS
<1>2. ASSUME NEW s \in Sessions, NEW who \in {"desktop", "phone"}, Open(s, who) PROVE UNCHANGED gui
  BY <1>2 DEF Open
<1>3. ASSUME NEW s \in Sessions, Opened(s) \/ Return(s) \/ Adopt(s) PROVE UNCHANGED gui
  BY <1>3 DEF Opened, Return, Adopt
<1>4. ASSUME NEW s \in Sessions, Show(s) PROVE Kept \/ Shown
  <2> DEFINE e == [kind |-> "opened", session |-> s]
  <2>1. gui' = Append(gui, e) /\ e.session = s /\ e \in Event
    BY <1>4 DEF Show, Emit, Event
  <2> HIDE DEF e
  <2> QED
    BY <1>0, <1>4, <2>1
<1>5. ASSUME NEW s \in Sessions, MainClaims(s) \/ MainSends(s) PROVE Kept \/ Sends
  <2> DEFINE e == ClosedEvent(s)
  <2>1. gui' = gui \/ gui' = gui \o <<e>> \/ gui' = Append(gui, e)
    <3>1. CASE MainSends(s)
      BY <3>1 DEF MainSends, Emit, ClosedEvent
    <3>2. CASE MainClaims(s)
      <4>1. gui' = gui \o <<e>> \/ gui' = gui \o << >>
        BY <3>2 DEF MainClaims, One, ClosedEvent
      <4> QED
        BY <1>0, <4>1
    <3> QED
      BY <1>5, <3>1, <3>2
  <2>2. e \in Event
    BY DEF Event, ClosedEvent
  <2> HIDE DEF e
  <2>3. Kept \/ gui'[i] = e
    BY <1>0, <2>1, <2>2
  <2> QED
    BY <1>5, <2>3 DEF e
<1>6. ASSUME NEW s \in Sessions, NEW o \in Ops, AnnounceClosed(o, s) PROVE Kept \/ Tell
  <2>1. gui' = gui \o Tells(o, s)
    BY <1>6 DEF AnnounceClosed
  <2>2. Tells(o, s) \in Seq(Event)
    BY Told
  <2>3. i \in DOMAIN gui => Kept
    BY <1>0, <2>1, <2>2
  <2>4. i \notin DOMAIN gui => \E j \in DOMAIN Tells(o, s) : i = Len(gui) + j /\ gui'[i] = Tells(o, s)[j]
    <3> SUFFICES ASSUME i \notin DOMAIN gui
                 PROVE  \E j \in DOMAIN Tells(o, s) : i = Len(gui) + j /\ gui'[i] = Tells(o, s)[j]
      OBVIOUS
    <3>1. i - Len(gui) \in DOMAIN Tells(o, s) /\ i = Len(gui) + (i - Len(gui))
      BY <1>0, <2>1, <2>2
    <3>2. gui'[i] = Tells(o, s)[i - Len(gui)]
      BY <1>0, <2>1, <2>2, <3>1
    <3> QED
      BY <3>1, <3>2
  <2> HIDE DEF Kept
  <2> QED
    BY <1>6, <2>3, <2>4
<1>7. ASSUME NEW o \in Ops, NEW s \in Sessions, CloseTab(o, s) PROVE UNCHANGED gui
  BY <1>7 DEF CloseTab
<1>8. CASE Reload \/ UNCHANGED <<open, opener, waiting, tabs, gui>>
  <2>1. UNCHANGED gui
    BY <1>8 DEF Reload
  <2> QED
    BY <1>1, <2>1
<1> HIDE DEF Kept, Shown, Sends, Tell
<1> QED
  BY <1>1, <1>2, <1>3, <1>4, <1>5, <1>6, <1>7, <1>8, StepKinds, Zenon

\* How the tab of a terminal changes.
LEMMA TabsStep ==
  ASSUME TypeOK, [Next]_vars, NEW s \in Sessions
  PROVE  \/ tabs'[s] = tabs[s]
         \/ Return(s) /\ s \in waiting
         \/ tabs[s] # "none" /\ tabs'[s] # "on"
         \/ tabs'[s] = "none"
         \/ Deliver /\ Head(gui) = [kind |-> "opened", session |-> s] /\ tabs[s] = "none"
<1> DEFINE e == [kind |-> "opened", session |-> s]
           Goal == \/ tabs'[s] = tabs[s]
                   \/ Return(s) /\ s \in waiting
                   \/ tabs[s] # "none" /\ tabs'[s] # "on"
                   \/ tabs'[s] = "none"
                   \/ Deliver /\ Head(gui) = e /\ tabs[s] = "none"
<1> SUFFICES Goal
  OBVIOUS
<1>1. UNCHANGED tabs => Goal
  OBVIOUS
<1>2. ASSUME NEW t \in Sessions, NEW who \in {"desktop", "phone"}, Open(t, who) PROVE UNCHANGED tabs
  BY <1>2 DEF Open
<1>3. ASSUME NEW t \in Sessions, Opened(t) \/ Return(t) \/ Show(t) \/ Adopt(t) PROVE Goal
  <2>1. CASE Return(t)
    BY <2>1 DEF Return, TypeOK
  <2>2. CASE Opened(t) \/ Show(t) \/ Adopt(t)
    BY <1>1, <2>2 DEF Opened, Show, Adopt, window
  <2> QED
    BY <1>3, <2>1, <2>2
<1>4. ASSUME NEW t \in Sessions, MainClaims(t) \/ MainSends(t) \/ \E o \in Ops : AnnounceClosed(o, t)
      PROVE  UNCHANGED tabs
  BY <1>4, EndTold
<1>5. ASSUME NEW o \in Ops, NEW t \in Sessions, CloseTab(o, t) PROVE Goal
  BY <1>5 DEF CloseTab, TypeOK
<1>6. CASE Reload
  BY <1>6 DEF Reload
<1>7. CASE Deliver
  <2>1. Head(gui) \in Event
    BY <1>7 DEF Deliver, TypeOK
  <2>2. \/ Head(gui).kind = "opened" /\ tabs[Head(gui).session] = "none"
        \/ Head(gui).kind = "closed" /\ tabs[Head(gui).session] = "on"
             /\ tabs' = [tabs EXCEPT ![Head(gui).session] = "off"]
        \/ Head(gui).kind = "remove_tab" /\ tabs' = [tabs EXCEPT ![Head(gui).session] = "none"]
        \/ tabs' = tabs
    BY <1>7, <2>1 DEF Deliver, Event
  <2>3. Head(gui).session # s => tabs'[s] = tabs[s]
    BY <1>7, <2>1 DEF Deliver, TypeOK
  <2>4. CASE Head(gui).session = s /\ Head(gui).kind = "opened"
    BY <1>1, <1>7, <2>1, <2>2, <2>4 DEF Event
  <2>5. CASE Head(gui).session = s /\ Head(gui).kind # "opened"
    BY <2>2, <2>5 DEF TypeOK
  <2> QED
    BY <2>3, <2>4, <2>5
<1>8. CASE UNCHANGED <<open, opener, waiting, tabs, gui>>
  BY <1>1, <1>8
<1> HIDE DEF Goal
<1> QED
  BY <1>1, <1>2, <1>3, <1>4, <1>5, <1>6, <1>7, <1>8, StepKinds, Zenon

\* A terminal that shows a tab, or may, was opened, and did so before or got it.
LEMMA ShowStep ==
  ASSUME TypeOK, [Next]_vars, NEW s \in Sessions, open[s] # "unused", MayShow(s)'
  PROVE  MayShow(s)
<1>1. TabBehind(s, 0)' => TabBehind(s, 0)
  BY BehindStep
<1>2. ASSUME tabs'[s] = "on", tabs[s] # "on" PROVE TabBehind(s, 0)
  <2>1. CASE Return(s) /\ s \in waiting
    BY <2>1 DEF Return, TabBehind
  <2>2. CASE Deliver /\ Head(gui) = [kind |-> "opened", session |-> s]
    <3>1. 1 \in DOMAIN gui /\ gui[1] = Head(gui)
      BY <2>2 DEF Deliver, TypeOK
    <3> QED
      BY <2>2, <3>1 DEF TabBehind
  <2> QED
    BY <1>2, <2>1, <2>2, TabsStep
<1> QED
  BY <1>1, <1>2 DEF MayShow

\* The parts of TabInv, one by one: each is kept by every step that starts with
\* those it names.
LEMMA TabOnceStep ==
  ASSUME TypeOK, TabOnce, Fresh, [Next]_vars
  PROVE  TabOnce'
<1>0. gui \in Seq(Event) /\ \A i \in DOMAIN gui : i \in Nat /\ gui[i] \in Event
  BY DEF TypeOK
<1>1. ASSUME NEW s \in Sessions, tabs'[s] # "none", TabBehind(s, 0)' PROVE FALSE
  <2>1. CASE open[s] = "unused"
    <3>1. tabs[s] = "none" /\ \A i \in DOMAIN gui : gui[i].session # s
      BY <2>1 DEF Fresh
    <3>2. CASE Return(s)
      BY <2>1, <3>2 DEF Return
    <3>3. CASE Deliver /\ Head(gui) = [kind |-> "opened", session |-> s]
      <4>1. 1 \in DOMAIN gui /\ gui[1] = Head(gui)
        BY <3>3 DEF Deliver, TypeOK
      <4> QED
        BY <3>1, <3>3, <4>1
    <3> QED
      BY <1>1, <3>1, <3>2, <3>3, TabsStep
  <2>2. CASE open[s] # "unused" /\ tabs[s] # "none"
    BY <1>1, <2>2, BehindStep DEF TabOnce
  <2>3. CASE open[s] # "unused" /\ tabs[s] = "none"
    <3>1. CASE Return(s) /\ s \in waiting
      <4>1. /\ gui' = gui /\ open'[s] = "done"
            /\ \A k \in DOMAIN gui : TabBehind(s, k)
        BY <3>1 DEF Return, TabBehind, TypeOK
      <4>2. PICK k \in DOMAIN gui : gui[k] = [kind |-> "opened", session |-> s]
        BY <1>1, <4>1 DEF TabBehind
      <4>3. gui[k].kind = "opened" /\ gui[k].session = s
        BY <4>2
      <4> QED
        BY <4>1, <4>3 DEF TabOnce
    <3>2. CASE Deliver /\ Head(gui) = [kind |-> "opened", session |-> s]
      <4>1. gui # <<>> /\ gui' = Tail(gui) /\ UNCHANGED <<open, opener, waiting>>
        BY <3>2 DEF Deliver, opening
      <4>2. 1 \in DOMAIN gui /\ gui[1].kind = "opened" /\ gui[1].session = s
        BY <3>2, <4>1, <1>0
      <4>3. TabBehind(s, 0 + 1)
        BY <1>1, <4>1, Shifts
      <4> QED
        BY <4>2, <4>3 DEF TabOnce
    <3> QED
      BY <1>1, <2>3, <3>1, <3>2, TabsStep
  <2> QED
    BY <2>1, <2>2, <2>3
<1>2. ASSUME NEW i \in DOMAIN gui', gui'[i].kind = "opened",
             NEW s \in Sessions, gui'[i].session = s, TabBehind(s, i)'
      PROVE  FALSE
  <2>0. i \in Nat
    BY TypeStep DEF TypeOK
  <2>1. CASE i \in DOMAIN gui /\ gui'[i] = gui[i]
    <3>1. open[s] # "unused"
      BY <1>2, <2>1 DEF Fresh
    <3>2. TabBehind(s, i)
      BY <1>2, <2>0, <3>1, BehindStep
    <3> QED
      BY <1>2, <2>1, <3>2 DEF TabOnce
  <2>2. CASE Deliver
    <3>1. gui # <<>> /\ gui' = Tail(gui) /\ UNCHANGED <<open, opener, waiting>>
      BY <2>2 DEF Deliver, opening
    <3>2. i + 1 \in DOMAIN gui /\ gui'[i] = gui[i + 1] /\ TabBehind(s, i + 1)
      BY <1>2, <2>0, <3>1, Shifts
    <3> QED
      BY <1>2, <3>2 DEF TabOnce
  <2>3. ASSUME NEW t \in Sessions, Show(t), i = Len(gui) + 1, s = t PROVE FALSE
    <3>1. open'[s] = "shown" /\ DOMAIN gui' = 1..i
      BY <2>3, <1>0 DEF Show, Emit, TypeOK
    <3> QED
      BY <1>2, <2>0, <3>1 DEF TabBehind
  <2>4. ASSUME NEW t \in Sessions, gui'[i] = ClosedEvent(t) PROVE FALSE
    BY <1>2, <2>4 DEF ClosedEvent
  <2>5. ASSUME NEW t \in Sessions, NEW o \in Ops, NEW j \in DOMAIN Tells(o, t), gui'[i] = Tells(o, t)[j]
        PROVE  FALSE
    BY <1>2, <2>5, Told
  <2> QED
    BY <1>2, <2>1, <2>2, <2>3, <2>4, <2>5, GuiStep, Zenon
<1>3. \A i \in DOMAIN gui' : gui'[i].session \in Sessions
  <2>1. \A i \in DOMAIN gui' : gui'[i] \in Event
    BY TypeStep DEF TypeOK
  <2> QED
    BY <2>1 DEF Event
<1> QED
  BY <1>1, <1>2, <1>3 DEF TabOnce

\* Nobody acts on a terminal that is not opened: how closed_sessions, sessions
\* and the IdMap grow.
LEMMA MembersStep ==
  ASSUME TypeOK, MainAgrees, [Next]_vars, NEW s \in Sessions, open'[s] = "unused",
         \A o \in Ops : s \notin op[o].todo \cup op[o].now
  PROVE  /\ s \in closed' => s \in closed
         /\ s \in sessions' => s \in sessions
         /\ s \in listed' => s \in listed
<1> DEFINE Goal == /\ s \in closed' => s \in closed
                   /\ s \in sessions' => s \in sessions
                   /\ s \in listed' => s \in listed
<1> SUFFICES Goal
  OBVIOUS
<1>0. open[s] = "unused" /\ main[s] = "none"
  BY OpenStep DEF MainAgrees
<1>1. ASSUME NEW t \in Sessions, NEW who \in {"desktop", "phone"}, Open(t, who) PROVE Goal
  BY <1>1, OpenStep DEF Open, phones
<1>2. ASSUME NEW t \in Sessions, Opening(t) PROVE Goal
  BY <1>0, <1>2 DEF Opening, Opened, Return, Show, Adopt, daemon, phones
<1>3. ASSUME NEW t \in Sessions, ShellExits(t) \/ MainBreaks(t) \/ Main(t) PROVE Goal
  BY <1>0, <1>3 DEF ShellExits, MainBreaks, Main, MainLeaves, MainClaims, MainSends, MainDies, phones
<1>4. ASSUME NEW o \in Ops, NEW t \in Sessions,
             CloseTab(o, t) \/ ClosePhone(o, t) \/ CheckLocal(o, t) \/ FireBeforeClose(o, t) \/ NotFound(o, t)
      PROVE  Goal
  BY <1>4 DEF CloseTab, ClosePhone, CheckLocal, FireBeforeClose, NotFound, daemon, phones
<1>5. ASSUME NEW o \in Ops, NEW t \in Sessions,
             MarkClosed(o, t) \/ Remove(o, t) \/ AnnounceClosed(o, t)
      PROVE  Goal
  BY <1>5 DEF MarkClosed, Remove, AnnounceClosed, phones
<1>6. ASSUME NEW o \in Ops, List(o) \/ Shutdown(o) \/ ListHandles(o) \/ ListResponse(o) \/ ClearClosed(o) PROVE Goal
  BY <1>6 DEF List, Shutdown, ListHandles, ListResponse, ClearClosed, daemon, phones
<1>7. CASE Deliver \/ Report \/ Reload \/ UNCHANGED vars
  BY <1>7 DEF Deliver, Report, Reload, vars, daemon, phones
<1> HIDE DEF Goal
<1> QED
  BY <1>1, <1>2, <1>3, <1>4, <1>5, <1>6, <1>7, Zenon DEF Next, Close

\* Nothing about a terminal exists before open_local has made it.
LEMMA FreshStep ==
  ASSUME TypeOK, MainAgrees, OneInHand, Fresh, [Next]_vars
  PROVE  Fresh'
<1> SUFFICES ASSUME NEW s \in Sessions, open'[s] = "unused"
             PROVE  /\ s \notin closed' \cup sessions' \cup listed' /\ tabs'[s] = "none"
                    /\ \A o \in Ops : s \notin op'[o].todo \cup op'[o].now
                    /\ \A i \in DOMAIN gui' : gui'[i].session # s
  BY DEF Fresh
<1>1. /\ open[s] = "unused" /\ main[s] = "none"
      /\ s \notin closed \cup sessions \cup listed /\ tabs[s] = "none"
      /\ \A o \in Ops : s \notin op[o].todo \cup op[o].now
      /\ \A i \in DOMAIN gui : gui[i].session # s
  BY OpenStep DEF MainAgrees, Fresh
<1>2. s \notin closed' \cup sessions' \cup listed'
  BY <1>1, MembersStep
<1>3. \A o \in Ops : s \notin op'[o].todo \cup op'[o].now
  BY <1>1, RequestStep
<1>4. tabs'[s] = "none"
  <2>1. CASE Return(s)
    BY <1>1, <2>1 DEF Return
  <2>2. CASE Deliver /\ Head(gui) = [kind |-> "opened", session |-> s]
    <3>1. 1 \in DOMAIN gui /\ gui[1] = Head(gui)
      BY <2>2 DEF Deliver, TypeOK
    <3> QED
      BY <1>1, <2>2, <3>1
  <2> QED
    BY <1>1, <2>1, <2>2, TabsStep
<1>5. ASSUME NEW i \in DOMAIN gui', gui'[i].session = s PROVE FALSE
  <2>1. CASE i \in DOMAIN gui /\ gui'[i] = gui[i]
    BY <1>1, <1>5, <2>1
  <2>2. CASE Deliver
    <3>1. gui # <<>> /\ gui' = Tail(gui) /\ UNCHANGED <<open, opener, waiting>>
      BY <2>2 DEF Deliver, opening
    <3>2. i + 1 \in DOMAIN gui /\ gui'[i] = gui[i + 1]
      BY <3>1, Shifts
    <3> QED
      BY <1>1, <1>5, <3>2
  <2>3. ASSUME NEW t \in Sessions, Show(t), t = s PROVE FALSE
    BY <1>1, <2>3 DEF Show
  <2>4. ASSUME NEW t \in Sessions, MainClaims(t) \/ MainSends(t), gui'[i] = ClosedEvent(t) PROVE FALSE
    <3>1. t = s
      BY <1>5, <2>4 DEF ClosedEvent
    <3> QED
      BY <1>1, <2>4, <3>1 DEF MainClaims, MainSends
  <2>5. ASSUME NEW t \in Sessions, NEW o \in Ops, AnnounceClosed(o, t),
               NEW j \in DOMAIN Tells(o, t), gui'[i] = Tells(o, t)[j]
        PROVE  FALSE
    <3>1. t = s
      BY <1>5, <2>5, Told
    <3> QED
      BY <1>1, <2>5, <3>1 DEF AnnounceClosed
  <2> QED
    BY <1>5, <2>1, <2>2, <2>3, <2>4, <2>5, GuiStep, Zenon
<1> QED
  BY <1>2, <1>3, <1>4, <1>5

\* The user who closes a terminal has no tab of it any more, nor gets one.
LEMMA TabGoneStep ==
  ASSUME TypeOK, TabOnce, Fresh, TabGone, [Next]_vars
  PROVE  TabGone'
<1> SUFFICES ASSUME NEW o \in Ops, NEW s \in op'[o].todo, op'[o].step \in {"asked", "marking"}, MayShow(s)'
             PROVE  FALSE
  BY DEF TabGone
<1>1. s \in Sessions
  <2>1. op'[o] \in Request
    BY TypeStep DEF TypeOK
  <2> QED
    BY <2>1 DEF Request
<1>2. CASE op[o].step \in {"asked", "marking"} /\ s \in op[o].todo
  <2>1. open[s] # "unused"
    BY <1>1, <1>2 DEF Fresh
  <2> QED
    BY <1>1, <1>2, <2>1, ShowStep DEF TabGone
<1>3. ASSUME NEW p \in Ops, CloseTab(p, s) PROVE FALSE
  <2>1. tabs[s] # "none" /\ tabs'[s] # "on"
    BY <1>1, <1>3 DEF CloseTab, TypeOK
  <2>2. open[s] # "unused"
    BY <1>1, <2>1 DEF Fresh
  <2>3. TabBehind(s, 0)
    BY <1>1, <2>1, <2>2, BehindStep DEF MayShow
  <2> QED
    BY <1>1, <2>1, <2>3 DEF TabOnce
<1> QED
  BY <1>2, <1>3, RequestStep

\* The daemon never comes back from shutting down.
LEMMA DownStep ==
  ASSUME TypeOK, [Next]_vars, down # "no"
  PROVE  down' # "no"
<1>1. ASSUME NEW t \in Sessions,
             (\E who \in {"desktop", "phone"} : Open(t, who)) \/ Opening(t) \/ ShellExits(t) \/ MainBreaks(t) \/ Main(t)
      PROVE  down' = down
  BY <1>1 DEF Open, Opening, Opened, Return, Show, Adopt, ShellExits, MainBreaks, Main, MainLeaves,
              MainClaims, MainSends, MainDies
<1>2. ASSUME NEW o \in Ops, NEW t \in Sessions,
             \/ CloseTab(o, t) \/ ClosePhone(o, t) \/ CheckLocal(o, t) \/ MarkClosed(o, t)
             \/ FireBeforeClose(o, t) \/ NotFound(o, t) \/ Remove(o, t) \/ AnnounceClosed(o, t)
      PROVE  down' = down
  BY <1>2 DEF CloseTab, ClosePhone, CheckLocal, MarkClosed, FireBeforeClose, NotFound, Remove, AnnounceClosed
<1>3. ASSUME NEW o \in Ops, List(o) \/ Shutdown(o) \/ ListHandles(o) \/ ListResponse(o) \/ ClearClosed(o)
      PROVE  down' # "no"
  BY <1>3 DEF List, Shutdown, ListHandles, ListResponse, ClearClosed
<1>4. CASE Deliver \/ Report \/ Reload \/ UNCHANGED vars
  BY <1>4 DEF Deliver, Report, Reload, vars
<1> QED
  BY <1>1, <1>2, <1>3, <1>4, Zenon DEF Next, Close

\* Only the shutdown closes as the shutdown.
LEMMA ShutsDownStep ==
  ASSUME TypeOK, ShutsDown, [Next]_vars
  PROVE  ShutsDown'
  BY RequestStep, DownStep DEF ShutsDown

\* The main task is done with s, or is as good as.
EndsAt(s) == main[s] = "ended" \/ (main[s] = "leaving" /\ s \notin sessions)

\* What a step does to the end of a terminal.
LEMMA EndStep ==
  ASSUME TypeOK, MainAgrees, [Next]_vars, NEW s \in Sessions
  PROVE  /\ Excused(s) => Excused(s)'
         /\ main[s] = "sending" => main'[s] = "sending" \/ MainSends(s) \/ MainDies(s)
         /\ s \in closed' =>
              \/ s \in closed \/ MainClaims(s)
              \/ \E o \in Ops : MarkClosed(o, s) \/ AnnounceClosed(o, s)
         /\ EndsAt(s)' =>
              \/ EndsAt(s) \/ main[s] = "sending" \/ (MainClaims(s) /\ s \in closed)
              \/ MainBreaks(s) \/ \E o \in Ops : Remove(o, s)
         /\ Unheard(s) \/ MainBreaks(s) => Unheard(s)' \/ \E o \in Ops : Remove(o, s)
<1> DEFINE A == Excused(s) => Excused(s)'
           B == main[s] = "sending" => main'[s] = "sending" \/ MainSends(s) \/ MainDies(s)
           C == s \in closed' =>
                  \/ s \in closed \/ MainClaims(s)
                  \/ \E o \in Ops : MarkClosed(o, s) \/ AnnounceClosed(o, s)
           D == EndsAt(s)' =>
                  \/ EndsAt(s) \/ main[s] = "sending" \/ (MainClaims(s) /\ s \in closed)
                  \/ MainBreaks(s) \/ \E o \in Ops : Remove(o, s)
           E == Unheard(s) => Unheard(s)' \/ \E o \in Ops : Remove(o, s)
           Goal == A /\ B /\ C /\ D /\ E
<1>a. MainBreaks(s) => Unheard(s)'
  BY DEF MainBreaks, MainAgrees, Unheard
<1> SUFFICES Goal
  BY <1>a
<1>0. /\ missed \subseteq missed' /\ cut \subseteq cut' => A
      /\ UNCHANGED main => B
      /\ closed' \subseteq closed => C
      /\ UNCHANGED <<main, sessions>> => D
      /\ UNCHANGED silent /\ sessions \subseteq sessions' => E
  BY DownStep DEF Excused, EndsAt, Unheard
<1>1. ASSUME NEW t \in Sessions, NEW who \in {"desktop", "phone"}, Open(t, who) PROVE Goal
  <2>1. main[t] = "none" /\ main' = [main EXCEPT ![t] = "loop"] /\ sessions' = sessions \cup {t}
    BY <1>1 DEF Open, MainAgrees
  <2> QED
    BY <1>0, <1>1, <2>1 DEF Open, history, EndsAt, TypeOK
<1>2. ASSUME NEW t \in Sessions, Opening(t) \/ ShellExits(t) PROVE Goal
  BY <1>0, <1>2 DEF Opening, Opened, Return, Show, Adopt, ShellExits, daemon, history
<1>3. ASSUME NEW t \in Sessions, MainLeaves(t) PROVE Goal
  BY <1>0, <1>3 DEF MainLeaves, history, EndsAt, MainAgrees, TypeOK
<1>12. ASSUME NEW t \in Sessions, MainBreaks(t) PROVE Goal
  <2>1. main[t] = "loop" /\ main' = [main EXCEPT ![t] = "ended"] /\ silent' = silent \cup {t}
        /\ UNCHANGED <<sessions, closed, missed, cut>>
    BY <1>12 DEF MainBreaks
  <2>2. B /\ D
    BY <1>12, <2>1 DEF EndsAt, TypeOK
  <2>3. E
    BY <2>1 DEF Unheard
  <2> QED
    BY <1>0, <2>1, <2>2, <2>3
<1>4. ASSUME NEW t \in Sessions, MainClaims(t) PROVE Goal
  BY <1>0, <1>4 DEF MainClaims, history, EndsAt, TypeOK
<1>5. ASSUME NEW t \in Sessions, MainSends(t) PROVE Goal
  BY <1>0, <1>5 DEF MainSends, EndsAt, TypeOK
<1>6. ASSUME NEW t \in Sessions, MainDies(t) PROVE Goal
  BY <1>0, <1>6 DEF MainDies, EndsAt, TypeOK
<1>7. ASSUME NEW o \in Ops, NEW t \in Sessions,
             CloseTab(o, t) \/ ClosePhone(o, t) \/ CheckLocal(o, t) \/ FireBeforeClose(o, t) \/ NotFound(o, t)
      PROVE  Goal
  BY <1>0, <1>7 DEF CloseTab, ClosePhone, CheckLocal, FireBeforeClose, NotFound, daemon, history
<1>8. ASSUME NEW o \in Ops, NEW t \in Sessions, MarkClosed(o, t) \/ AnnounceClosed(o, t) PROVE Goal
  <2>1. UNCHANGED <<main, sessions, missed, cut, silent>> /\ closed' = closed \cup {t}
    BY <1>8 DEF MarkClosed, AnnounceClosed, history
  <2>2. C
    BY <1>8, <2>1
  <2> QED
    BY <1>0, <2>1, <2>2
<1>9. ASSUME NEW o \in Ops, NEW t \in Sessions, Remove(o, t) PROVE Goal
  <2>1. /\ UNCHANGED <<missed, cut, closed, silent>> /\ sessions' = sessions \ {t}
        /\ t # s => main'[s] = main[s]
        /\ main[s] = "sending" => main'[s] = "sending"
    BY <1>9 DEF Remove, history, TypeOK
  <2>2. D
    BY <1>9, <2>1 DEF EndsAt
  <2>3. E
    BY <1>9, <2>1 DEF Unheard
  <2> QED
    BY <1>0, <2>1, <2>2, <2>3
<1>10. ASSUME NEW o \in Ops, List(o) \/ Shutdown(o) \/ ListHandles(o) \/ ListResponse(o) \/ ClearClosed(o) PROVE Goal
  BY <1>0, <1>10 DEF List, Shutdown, ListHandles, ListResponse, ClearClosed, daemon, history
<1>11. CASE Deliver \/ Report \/ Reload \/ UNCHANGED vars
  <2>1. UNCHANGED <<main, sessions, closed, cut, silent>> /\ missed \subseteq missed'
    BY <1>11 DEF Deliver, Report, Reload, vars, daemon, history
  <2> QED
    BY <1>0, <2>1
<1> HIDE DEF Goal
<1> QED
  BY <1>1, <1>2, <1>3, <1>4, <1>5, <1>6, <1>7, <1>8, <1>9, <1>10, <1>11, <1>12, Zenon DEF Next, Main, Close

\* A session that a request has removed stays in its hands until the request
\* announces the end.
LEMMA InHandStep ==
  ASSUME TypeOK, OneInHand, [Next]_vars, NEW s \in Sessions, InHand(s)
  PROVE  InHand(s)' \/ \E o \in Ops : AnnounceClosed(o, s)
<1> PICK o \in Ops : op[o].step = "announcing" /\ s \in op[o].now
  BY DEF InHand
<1> DEFINE Goal == op'[o] = op[o] \/ AnnounceClosed(o, s)
<1> SUFFICES Goal
  BY DEF InHand
<1>1. ASSUME NEW p \in Ops, NEW t \in Sessions,
             \/ CloseTab(p, t) \/ ClosePhone(p, t) \/ CheckLocal(p, t) \/ MarkClosed(p, t)
             \/ FireBeforeClose(p, t) \/ NotFound(p, t) \/ Remove(p, t)
      PROVE  Goal
  <2>1. p # o
    BY <1>1, StartEffect, RemoveEffect
       DEF CloseTab, ClosePhone, CheckLocal, MarkClosed, FireBeforeClose, NotFound
  <2>2. op'[o] = op[o]
    BY <1>1, <2>1, StartEffect, GotoEffect, ProceedEffect, RemoveEffect
       DEF CloseTab, ClosePhone, CheckLocal, MarkClosed, FireBeforeClose, NotFound, Steps
  <2> QED
    BY <2>2
<1>2. ASSUME NEW p \in Ops, NEW t \in Sessions, AnnounceClosed(p, t) PROVE Goal
  <2>1. CASE p = o
    <3>1. {s, t} \subseteq op[o].now
      BY <1>2, <2>1 DEF AnnounceClosed
    <3>2. s = t
      BY <3>1 DEF OneInHand
    <3> QED
      BY <1>2, <2>1, <3>2
  <2>2. CASE p # o
    BY <1>2, <2>2, ProceedEffect DEF AnnounceClosed
  <2> QED
    BY <2>1, <2>2
<1>3. ASSUME NEW p \in Ops, List(p) \/ Shutdown(p) \/ ListHandles(p) \/ ListResponse(p) \/ ClearClosed(p) PROVE Goal
  BY <1>3, StartEffect, ListResponseEffect, ClearClosedEffect DEF List, Shutdown
<1>4. ASSUME NEW t \in Sessions,
             (\E who \in {"desktop", "phone"} : Open(t, who)) \/ Opening(t) \/ ShellExits(t) \/ MainBreaks(t) \/ Main(t)
      PROVE  op' = op
  BY <1>4 DEF Open, Opening, Opened, Return, Show, Adopt, ShellExits, MainBreaks, Main, MainLeaves,
              MainClaims, MainSends, MainDies
<1>5. CASE Deliver \/ Report \/ Reload \/ UNCHANGED vars
  BY <1>5 DEF Deliver, Report, Reload, vars
<1> QED
  BY <1>1, <1>2, <1>3, <1>4, <1>5, Zenon DEF Next, Close

\* A tab that shows is told of the end: what is on its way stays there, or has
\* come.
LEMMA NoticeStep ==
  ASSUME TypeOK, TabOnce, RemovalTold, [Next]_vars, NEW s \in Sessions, open[s] # "unused",
         Notice(s), MayShow(s)'
  PROVE  Notice(s)' \/ Excused(s)'
<1>0. gui \in Seq(Event)
  BY DEF TypeOK
<1> PICK k \in DOMAIN gui : gui[k].session = s /\ gui[k].kind # "opened"
  BY DEF Notice
<1>1. MayShow(s)
  BY ShowStep
<1>2. CASE \A i \in DOMAIN gui : i \in DOMAIN gui' /\ gui'[i] = gui[i]
  BY <1>2 DEF Notice
<1>3. CASE Deliver
  <2>1. gui # <<>> /\ gui' = Tail(gui) /\ UNCHANGED <<open, opener, waiting>>
    BY <1>3 DEF Deliver, opening
  <2>2. CASE k # 1
    <3>1. k - 1 \in DOMAIN gui' /\ gui'[k - 1] = gui[k]
      BY <2>1, <2>2, Shifts
    <3> QED
      BY <3>1 DEF Notice
  <2>3. CASE k = 1 /\ gui[k].kind = "closed"
    <3>1. Head(gui).session = s /\ Head(gui).kind = "closed"
      BY <2>1, <2>3, Shifts
    <3>2. CASE tabs[s] = "none"
      BY <1>3, <3>1, <3>2 DEF Deliver, Excused
    <3>3. CASE tabs[s] # "none"
      <4>1. ~TabBehind(s, 0)
        BY <3>3 DEF TabOnce
      <4>2. tabs'[s] # "on"
        BY <1>3, <3>1, <3>3 DEF Deliver, TypeOK
      <4>3. ~TabBehind(s, 0)'
        BY <4>1, BehindStep
      <4> QED
        BY <4>2, <4>3 DEF MayShow
    <3> QED
      BY <3>2, <3>3
  <2>4. CASE k = 1 /\ gui[k].kind = "remove_tab"
    <3>1. Head(gui).session = s /\ Head(gui).kind = "remove_tab"
      BY <2>1, <2>4, Shifts
    <3>2. tabs'[s] # "on"
      BY <1>3, <3>1 DEF Deliver, TypeOK
    <3>3. TabBehind(s, 0)'
      BY <3>2 DEF MayShow
    <3>4. TabBehind(s, 0 + 1)
      BY <2>1, <3>3, Shifts
    <3>5. TabBehind(gui[1].session, 1) /\ 1..1 - 1 = {}
      BY <2>4, <3>4
    <3>6. Excused(s)
      BY <2>4, <3>5 DEF RemovalTold
    <3> QED
      BY <3>6, <1>3, <2>1 DEF Deliver, Excused
  <2> QED
    <3>1. gui[k] \in Event
      BY <1>0
    <3> QED
      BY <2>2, <2>3, <2>4, <3>1 DEF Event
<1> QED
  <2>1. CASE UNCHANGED <<open, opener, waiting, tabs, gui>>
    BY <1>2, <2>1
  <2>2. ASSUME NEW t \in Sessions, NEW who \in {"desktop", "phone"}, Open(t, who) PROVE UNCHANGED gui
    BY <2>2 DEF Open
  <2>3. ASSUME NEW t \in Sessions, Opened(t) \/ Return(t) \/ Adopt(t) PROVE UNCHANGED gui
    BY <2>3 DEF Opened, Return, Adopt
  <2>4. ASSUME NEW t \in Sessions, Show(t) PROVE \A i \in DOMAIN gui : i \in DOMAIN gui' /\ gui'[i] = gui[i]
    <3> DEFINE e == [kind |-> "opened", session |-> t]
    <3>1. gui' = Append(gui, e) /\ e \in Event
      BY <2>4 DEF Show, Emit, Event
    <3> HIDE DEF e
    <3> QED
      BY <1>0, <3>1
  <2>5. ASSUME NEW t \in Sessions, MainClaims(t) \/ MainSends(t) \/ \E o \in Ops : AnnounceClosed(o, t)
        PROVE  \A i \in DOMAIN gui : i \in DOMAIN gui' /\ gui'[i] = gui[i]
    <3>1. PICK e \in Seq(Event) : gui' = gui \o e
      BY <2>5, EndTold
    <3> QED
      BY <1>0, <3>1
  <2>6. ASSUME NEW o \in Ops, NEW t \in Sessions, CloseTab(o, t) PROVE UNCHANGED gui
    BY <2>6 DEF CloseTab
  <2>7. Reload => UNCHANGED gui
    BY DEF Reload
  <2>8. UNCHANGED gui => \A i \in DOMAIN gui : i \in DOMAIN gui' /\ gui'[i] = gui[i]
    OBVIOUS
  <2> QED
    BY <1>2, <1>3, <2>1, <2>2, <2>3, <2>4, <2>5, <2>6, <2>7, <2>8, StepKinds, Zenon

\* Who sends the end has it on its way.
LEMMA SendTold ==
  ASSUME TypeOK, NEW s \in Sessions,
         \/ MainSends(s)
         \/ \E o \in Ops : AnnounceClosed(o, s) /\ s \notin closed /\ op[o].kind # "shutdown"
  PROVE  Notice(s)'
<1>0. gui \in Seq(Event)
  BY DEF TypeOK
<1>1. CASE MainSends(s)
  <2> DEFINE e == [kind |-> "closed", session |-> s]
  <2>1. gui' = Append(gui, e) /\ e \in Event /\ e.session = s /\ e.kind # "opened"
    BY <1>1 DEF MainSends, Emit, Event
  <2> HIDE DEF e
  <2>2. Len(gui) + 1 \in DOMAIN gui' /\ gui'[Len(gui) + 1] = e
    BY <1>0, <2>1
  <2> QED
    BY <2>1, <2>2 DEF Notice
<1>2. ASSUME NEW o \in Ops, AnnounceClosed(o, s), s \notin closed, op[o].kind # "shutdown"
      PROVE  Notice(s)'
  <2>1. gui' = gui \o Tells(o, s)
    BY <1>2 DEF AnnounceClosed
  <2>2. Tells(o, s) \in Seq(Event) /\ 1 \in DOMAIN Tells(o, s)
    BY <1>2, TellsCases
  <2>3. Tells(o, s)[1].session = s /\ Tells(o, s)[1].kind # "opened"
    BY <2>2, Told
  <2>4. Len(gui) + 1 \in DOMAIN gui' /\ gui'[Len(gui) + 1] = Tells(o, s)[1]
    BY <1>0, <2>1, <2>2
  <2> QED
    BY <2>3, <2>4 DEF Notice
<1> QED
  BY <1>1, <1>2

\* A tab that was told of the end, or is to be told, stays so.
LEMMA SettledStep ==
  ASSUME TypeOK, MainAgrees, TabOnce, RemovalTold, [Next]_vars,
         NEW s \in Sessions, open[s] # "unused", Settled(s)
  PROVE  Settled(s)'
<1>1. CASE Excused(s)
  BY <1>1, EndStep DEF Settled
<1>2. CASE main[s] = "sending"
  <2>1. CASE MainSends(s)
    BY <2>1, SendTold DEF Settled
  <2>2. CASE MainDies(s)
    BY <1>2, <2>2 DEF MainDies, Settled, Excused
  <2>3. CASE main'[s] = "sending"
    BY <2>3 DEF Settled
  <2> QED
    BY <1>2, <2>1, <2>2, <2>3, EndStep
<1>3. CASE MayShow(s) => Notice(s)
  <2>1. ASSUME MayShow(s)' PROVE Notice(s)' \/ Excused(s)'
    BY <1>3, <2>1, ShowStep, NoticeStep
  <2> QED
    BY <2>1 DEF Settled
<1> QED
  BY <1>1, <1>2, <1>3 DEF Settled

\* A phone's close has the window remove the tab after it was told of the end.
LEMMA RemovalToldStep ==
  ASSUME TypeOK, MainAgrees, TabOnce, Fresh, RemovalTold, ClosedSettled, [Next]_vars
  PROVE  RemovalTold'
<1>0. gui \in Seq(Event) /\ DOMAIN gui = 1..Len(gui) /\ Len(gui) \in Nat
  BY DEF TypeOK
<1>s. \A i \in DOMAIN gui' : gui'[i].session \in Sessions
  <2>1. \A i \in DOMAIN gui' : gui'[i] \in Event
    BY TypeStep DEF TypeOK
  <2> QED
    BY <2>1 DEF Event
<1>1. ASSUME NEW i \in DOMAIN gui', gui'[i].kind = "remove_tab",
             NEW s \in Sessions, gui'[i].session = s, TabBehind(s, i)'
      PROVE  Excused(s)' \/ \E j \in 1..i - 1 : gui'[j] = [kind |-> "closed", session |-> s]
  <2> DEFINE c == [kind |-> "closed", session |-> s]
             Goal == Excused(s)' \/ \E j \in 1..i - 1 : gui'[j] = c
  <2> SUFFICES Goal
    OBVIOUS
  <2>0. i \in Nat
    BY TypeStep DEF TypeOK
  <2>1. CASE i \in DOMAIN gui /\ gui'[i] = gui[i] /\ \A k \in DOMAIN gui : gui'[k] = gui[k]
    <3>1. open[s] # "unused"
      BY <1>1, <2>1 DEF Fresh
    <3>2. TabBehind(s, i)
      BY <1>1, <2>0, <3>1, BehindStep
    <3>3. Excused(s) \/ \E j \in 1..i - 1 : gui[j] = c
      BY <1>1, <2>1, <3>2 DEF RemovalTold
    <3>4. \A j \in 1..i - 1 : j \in DOMAIN gui
      BY <1>0, <2>1
    <3> HIDE DEF c
    <3> QED
      BY <2>1, <3>3, <3>4, EndStep
  <2>2. CASE Deliver
    <3>1. gui # <<>> /\ gui' = Tail(gui) /\ UNCHANGED <<open, opener, waiting>>
      BY <2>2 DEF Deliver, opening
    <3>2. i + 1 \in DOMAIN gui /\ gui'[i] = gui[i + 1] /\ TabBehind(s, i + 1)
      BY <1>1, <2>0, <3>1, Shifts
    <3>3. Excused(s) \/ \E j \in 1..(i + 1) - 1 : gui[j] = c
      BY <1>1, <3>2 DEF RemovalTold
    <3>4. ASSUME NEW j \in 1..(i + 1) - 1, gui[j] = c PROVE Goal
      <4>0. j \in DOMAIN gui /\ j \in 1..i
        BY <1>0, <2>0, <3>2, <3>4
      <4>1. CASE j # 1
        <5>1. j - 1 \in 1..i - 1
          BY <2>0, <4>0, <4>1
        <5>2. gui'[j - 1] = gui[j]
          BY <3>1, <4>0, <4>1, Shifts
        <5> QED
          BY <3>4, <5>1, <5>2
      <4>2. CASE j = 1
        <5>1. Head(gui) = c
          BY <3>1, <3>4, <4>2, Shifts
        <5>2. TabBehind(s, 0)
          BY <2>0, <3>2, BehindFewer
        <5>3. tabs[s] = "none"
          BY <5>2 DEF TabOnce
        <5> QED
          BY <2>2, <5>1, <5>3 DEF Deliver, Excused
      <4> QED
        BY <4>1, <4>2
    <3> HIDE DEF Goal
    <3>5. Excused(s) => Goal
      BY EndStep DEF Goal
    <3> QED
      BY <3>3, <3>4, <3>5
  <2>3. ASSUME NEW t \in Sessions, Show(t), i = Len(gui) + 1 PROVE Goal
    <3> DEFINE e == [kind |-> "opened", session |-> t]
    <3>1. gui' = Append(gui, e) /\ e.kind = "opened"
      BY <2>3 DEF Show, Emit
    <3> HIDE DEF e
    <3>2. gui'[i] = e
      BY <1>0, <2>3, <3>1
    <3> QED
      BY <1>1, <3>1, <3>2
  <2>4. ASSUME NEW t \in Sessions, gui'[i] = ClosedEvent(t) PROVE Goal
    BY <1>1, <2>4 DEF ClosedEvent
  <2>5. ASSUME NEW t \in Sessions, NEW o \in Ops, AnnounceClosed(o, t),
               NEW j \in DOMAIN Tells(o, t), i = Len(gui) + j, gui'[i] = Tells(o, t)[j]
        PROVE  Goal
    <3>0. t = s
      BY <1>1, <2>5, Told
    <3>1. gui' = gui \o Tells(o, s) /\ Tells(o, s) \in Seq(Event)
      BY <2>5, <3>0, Told DEF AnnounceClosed
    <3>2. \A k \in DOMAIN gui : gui'[k] = gui[k]
      BY <1>0, <3>1
    <3>3. j \in Nat \ {0} /\ \A k \in DOMAIN Tells(o, s) : gui'[Len(gui) + k] = Tells(o, s)[k]
      BY <1>0, <2>5, <3>0, <3>1
    <3>4. /\ Tells(o, s)[j].kind = "remove_tab"
          /\ ClosedEvent(s).kind # "remove_tab"
      BY <1>1, <2>5, <3>0 DEF ClosedEvent
    <3>5. CASE s \notin closed
      <4>1. j = 2 /\ 1 \in DOMAIN Tells(o, s) /\ Tells(o, s)[1] = ClosedEvent(s)
        BY <2>5, <3>0, <3>4, <3>5, TellsCases
      <4>2. Len(gui) + 1 \in 1..i - 1
        BY <1>0, <2>5, <4>1
      <4> QED
        BY <3>3, <4>1, <4>2 DEF ClosedEvent
    <3>6. CASE s \in closed
      <4>1. open[s] # "unused"
        BY <3>6 DEF Fresh
      <4>2. TabBehind(s, i)
        BY <1>1, <2>0, <4>1, BehindStep
      <4>3. MayShow(s)
        BY <2>0, <4>2, BehindFewer DEF MayShow
      <4>4. main[s] # "sending"
        BY <2>5 DEF AnnounceClosed, ClosedFree
      <4>5. CASE Excused(s)
        BY <4>5, EndStep
      <4>6. CASE Notice(s)
        <5>1. PICK k \in DOMAIN gui : gui[k].session = s /\ gui[k].kind # "opened"
          BY <4>6 DEF Notice
        <5>2. gui[k] \in Event /\ k \in 1..i - 1 /\ k \in Nat /\ k <= i
          BY <1>0, <2>5, <3>3, <5>1
        <5>3. CASE gui[k].kind = "closed"
          <6>1. gui[k] = c
            BY <5>1, <5>2, <5>3 DEF Event
          <6> QED
            BY <3>2, <5>2, <6>1
        <5>4. CASE gui[k].kind = "remove_tab"
          <6>1. TabBehind(s, k)
            BY <2>0, <4>2, <5>2, BehindFewer
          <6>2. Excused(s) \/ \E m \in 1..k - 1 : gui[m] = c
            BY <5>1, <5>4, <6>1 DEF RemovalTold
          <6>3. ASSUME NEW m \in 1..k - 1, gui[m] = c PROVE Goal
            <7>1. m \in DOMAIN gui /\ m \in 1..i - 1
              BY <1>0, <2>0, <5>2, <5>1
            <7> QED
              BY <3>2, <6>3, <7>1
          <6> QED
            BY <6>2, <6>3, EndStep
        <5> QED
          BY <5>1, <5>2, <5>3, <5>4 DEF Event
      <4> QED
        BY <3>6, <4>3, <4>4, <4>5, <4>6 DEF ClosedSettled, Settled
    <3> QED
      BY <3>5, <3>6
  <2> HIDE DEF Goal
  <2> QED
    BY <1>1, <2>1, <2>2, <2>3, <2>4, <2>5, GuiStep, Zenon
<1> QED
  BY <1>1, <1>s DEF RemovalTold

\* Who claims an end in closed_sessions sees to the tab, or finds none.
LEMMA ClosedSettledStep ==
  ASSUME IInv, TabOnce, Fresh, TabGone, ShutsDown, RemovalTold, ClosedSettled, [Next]_vars
  PROVE  ClosedSettled'
<1>0. TypeOK /\ MainAgrees
  BY DEF IInv
<1> SUFFICES ASSUME NEW s \in closed' PROVE Settled(s)'
  BY DEF ClosedSettled
<1>1. s \in Sessions
  BY <1>0, TypeStep DEF TypeOK
<1>2. CASE s \in closed
  <2>1. open[s] # "unused" /\ Settled(s)
    BY <1>1, <1>2 DEF Fresh, ClosedSettled
  <2> QED
    BY <1>0, <1>1, <2>1, SettledStep
<1>3. CASE MainClaims(s) /\ s \notin closed
  BY <1>0, <1>1, <1>3 DEF MainClaims, Settled, TypeOK
<1>4. ASSUME NEW o \in Ops, MarkClosed(o, s) PROVE Settled(s)'
  <2>1. ~MayShow(s)
    BY <1>4 DEF MarkClosed, TabGone
  <2>2. open[s] # "unused"
    BY <1>1, <1>4 DEF MarkClosed, Fresh
  <2>3. ~MayShow(s)'
    BY <1>0, <1>1, <2>1, <2>2, ShowStep
  <2> QED
    BY <2>3 DEF Settled
<1>5. ASSUME NEW o \in Ops, AnnounceClosed(o, s), s \notin closed PROVE Settled(s)'
  <2>1. CASE op[o].kind = "shutdown"
    <3>1. down # "no" /\ down' = down
      BY <1>5, <2>1 DEF ShutsDown, AnnounceClosed
    <3> QED
      BY <3>1 DEF Settled, Excused
  <2>2. CASE op[o].kind # "shutdown"
    BY <1>0, <1>1, <1>5, <2>2, SendTold DEF Settled
  <2> QED
    BY <2>1, <2>2
<1> QED
  BY <1>0, <1>1, <1>2, <1>3, <1>4, <1>5, EndStep

\* So does every way in which the main task ends.
LEMMA EndsSettledStep ==
  ASSUME IInv, TabOnce, Fresh, TabGone, ShutsDown, RemovalTold, ClosedSettled, EndsSettled, [Next]_vars
  PROVE  EndsSettled'
<1>0. TypeOK /\ MainAgrees /\ OneInHand
  BY DEF IInv
<1> SUFFICES ASSUME NEW s \in Sessions, EndsAt(s)'
             PROVE  Settled(s)' \/ InHand(s)' \/ Unheard(s)'
  BY DEF EndsSettled, EndsAt
<1>1. CASE main[s] # "none" /\ Settled(s)
  <2>1. open[s] # "unused"
    BY <1>0, <1>1 DEF MainAgrees
  <2> QED
    BY <1>0, <1>1, <2>1, SettledStep
<1>2. CASE InHand(s)
  <2>1. ASSUME NEW o \in Ops, AnnounceClosed(o, s) PROVE Settled(s)'
    <3>1. s \in closed'
      BY <2>1 DEF AnnounceClosed
    <3> QED
      BY <3>1, ClosedSettledStep DEF ClosedSettled
  <2> QED
    BY <1>0, <1>2, <2>1, InHandStep
<1>6. ASSUME NEW o \in Ops, Remove(o, s) PROVE InHand(s)'
  BY <1>0, <1>6, RemoveEffect DEF InHand
<1>7. CASE Unheard(s) \/ MainBreaks(s)
  BY <1>0, <1>6, <1>7, EndStep
<1>3. CASE EndsAt(s)
  BY <1>1, <1>2, <1>3, <1>7 DEF EndsAt, EndsSettled
<1>4. CASE main[s] = "sending"
  BY <1>1, <1>4 DEF Settled
<1>5. CASE MainClaims(s) /\ s \in closed
  BY <1>1, <1>5 DEF MainClaims, ClosedSettled
<1> QED
  BY <1>0, <1>3, <1>4, <1>5, <1>6, <1>7, EndStep

\* TabInv is inductive.
LEMMA TabInvInit == Init => TabInv
<1> SUFFICES ASSUME Init PROVE TabInv
  OBVIOUS
<1>1. /\ gui = <<>> /\ closed = {} /\ sessions = {} /\ listed = {}
      /\ \A s \in Sessions : open[s] = "unused" /\ tabs[s] = "none" /\ main[s] = "none"
      /\ \A o \in Ops : op[o].step = "idle" /\ op[o].kind = "none" /\ op[o].todo = {} /\ op[o].now = {}
  BY DEF Init, Idle
<1>2. DOMAIN gui = {}
  BY <1>1
<1> QED
  BY <1>1, <1>2, IInvInit DEF TabInv, TabOnce, Fresh, TabGone, ShutsDown, RemovalTold, ClosedSettled, EndsSettled

\* Every step keeps TabInv.
LEMMA TabInvStep == TabInv /\ [Next]_vars => TabInv'
<1> SUFFICES ASSUME TabInv, [Next]_vars PROVE TabInv'
  OBVIOUS
<1>1. /\ IInv /\ TypeOK /\ MainAgrees /\ OneInHand
      /\ TabOnce /\ Fresh /\ TabGone /\ ShutsDown /\ RemovalTold /\ ClosedSettled /\ EndsSettled
  BY DEF TabInv, IInv
<1>2. IInv'
  BY <1>1, IInvStep
<1>3. TabOnce' /\ Fresh' /\ TabGone' /\ ShutsDown'
  BY <1>1, TabOnceStep, FreshStep, TabGoneStep, ShutsDownStep
<1>4. RemovalTold'
  BY <1>1, RemovalToldStep
<1>5. ClosedSettled' /\ EndsSettled'
  BY <1>1, ClosedSettledStep, EndsSettledStep
<1> QED
  BY <1>2, <1>3, <1>4, <1>5 DEF TabInv

-----------------------------------------------------------------------------
(* Theorems.                                                                *)

\* The inductive invariant of who announces the end of a terminal (close(), the
\* main task, handle_terminal_close, close_all_local).
THEOREM LocalInductive == Spec => []IInv
<1>1. Init => IInv
  BY IInvInit
<1>2. IInv /\ [Next]_vars => IInv'
  BY IInvStep
<1> QED
  BY <1>1, <1>2, PTL DEF Spec

\* Every variable keeps its type.
THEOREM LocalTypeCorrect == Spec => []TypeOK
<1>1. IInv => TypeOK
  BY DEF IInv
<1> QED
  BY <1>1, LocalInductive, PTL

\* closed_sessions lets one of close(), close_all_local and the main task send
\* the Closed event, for any number of terminals and requests.
THEOREM LocalClosedSentOnce == Spec => []ClosedSentOnce
<1>1. IInv => ClosedSentOnce
  BY DEF IInv, SentIsClosed, ClosedSentOnce
<1> QED
  BY <1>1, LocalInductive, PTL

\* No terminal ends unnoticed by the triggers, unless the task that was about to
\* announce it was aborted, or it left without a word and nobody has closed its
\* session (terminal.rs, open_local).
THEOREM LocalEndAnnounced == Spec => []EndAnnounced
<1>1. IInv => EndAnnounced
  BY DEF IInv, EndsAnnounced, Unheard, Announced, Ended, EndAnnounced
<1> QED
  BY <1>1, LocalInductive, PTL

\* The inductive invariant of what the window learns of the ends of terminals.
THEOREM LocalTabsInductive == Spec => []TabInv
<1>1. Init => TabInv
  BY TabInvInit
<1>2. TabInv /\ [Next]_vars => TabInv'
  BY TabInvStep
<1> QED
  BY <1>1, <1>2, PTL DEF Spec

\* No tab goes on looking connected over a terminal that has ended, whoever has
\* ended it, but for those whose terminal:closed came before the tab, for the main
\* tasks that were aborted before they could send it, and for those that left
\* without a word, until the session is closed.
THEOREM LocalTabsMarked == Spec => []TabsMarked
<1>1. TabInv => TabsMarked
  BY DEF TabInv, IInv, EndsSettled, Settled, Excused, MayShow, Ended, TabsMarked
<1> QED
  BY <1>1, LocalTabsInductive, PTL
=============================================================================
