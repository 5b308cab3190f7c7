--------------------------- MODULE ServerRegistry ---------------------------
(***************************************************************************)
(* The daemon keeps its servers twice: as entries of the configuration,    *)
(* behind the lock of config_manager, and as running instances in          *)
(* ServerManager, behind a lock of its own.  Each handler changes the      *)
(* first, lets go of it, and then changes the second with what it read;    *)
(* the handlers of different clients run side by side.  The module follows *)
(* the handlers that add, remove, update, connect and disconnect servers   *)
(* and change their triggers (handler.rs), and the import of a whole       *)
(* configuration, which a cloud download ends with.                        *)
(*                                                                         *)
(* An entry is the version of its settings and the version of its          *)
(* triggers.  An instance has those it was built from, the triggers its    *)
(* engine has now, and the status of its connection.  Ids are made by the  *)
(* client and are not used twice by it.  Saving the configuration          *)
(* succeeds, and requests are not cancelled.                               *)
(***************************************************************************)
EXTENDS Naturals, FiniteSets

CONSTANTS
    Ids,         \* server ids
    Tasks,       \* requests served at the same time
    MaxInst,     \* bound: instances ever built
    MaxVersion,  \* bound: versions of settings and triggers
    Limit,       \* connected servers at which a connect is refused
    NoServer     \* no entry

ASSUME BoundAssumption == MaxInst \in Nat /\ MaxVersion \in Nat /\ Limit \in Nat

VARIABLES
    cfg,         \* entries of the configuration
    reg,         \* the registered instance of each server, 0 for none
    inst,        \* all instances built so far
    made,        \* their number
    version,     \* the newest version
    op,          \* per task: the request it serves
    used,        \* ids a client has used
    overlapped   \* history: servers with two changes under way at once

registryVars == <<cfg, reg, inst, made, version, op, used, overlapped>>

Insts == 1..MaxInst
Versions == 0..MaxVersion
Entry == [ver : Versions, trig : Versions]
Instance ==
    [id : Ids, ver : Versions,
     birth : Versions,             \* triggers in instance.config
     trig : Versions,              \* triggers of the engine
     conn : {"off", "connecting", "on", "lost"},   \* lost: Reconnecting
     synced : BOOLEAN,             \* history: went through handle_connect_server
     skipped : BOOLEAN,            \* history: an import passed it over
     stray : BOOLEAN]              \* history: see NoOrphanConnection

ASSUME NoServerAssumption == NoServer \notin Entry

Idle == [pc |-> "idle"]
Operation ==
    {Idle}
      \cup [pc : {"add", "reload"}, id : Ids, entry : Entry]
      \cup [pc : {"disconnect", "remove", "find"}, id : Ids]
      \cup [pc : {"set"}, id : Ids, i : Insts]
      \cup [pc : {"sync", "dial"}, i : Insts]
      \cup [pc : {"import"}, new : [Ids -> Entry \cup {NoServer}], todo : SUBSET Ids]

RegistryTypeOK ==
    /\ cfg \in [Ids -> Entry \cup {NoServer}]
    /\ reg \in [Ids -> 0..MaxInst]
    /\ made \in 0..MaxInst
    /\ inst \in [1..made -> Instance]
    /\ \A s \in Ids : reg[s] \in 0..made
    /\ version \in Versions
    /\ op \in [Tasks -> Operation]
    /\ used \subseteq Ids /\ overlapped \subseteq Ids

RegistryInit ==
    /\ cfg = [s \in Ids |-> NoServer]
    /\ reg = [s \in Ids |-> 0]
    /\ inst = [i \in {} |-> 0] /\ made = 0
    /\ version = 0
    /\ op = [t \in Tasks |-> Idle]
    /\ used = {} /\ overlapped = {}

-----------------------------------------------------------------------------

Present(s) == cfg[s] # NoServer
Registered(i) == reg[inst[i].id] = i

\* A change of server s under way: between the configuration and the registry.
Changes(t, s) ==
    \/ op[t].pc \in {"add", "disconnect", "remove", "reload"} /\ op[t].id = s
    \/ op[t].pc = "import"
Busy(s) == \E t \in Tasks : Changes(t, s)

\* An import holds the lock of the registry from its first server to its last.
Unlocked == \A t \in Tasks : op[t].pc = "import" => op[t].todo = Ids

New(s, e) == [id |-> s, ver |-> e.ver, birth |-> e.trig, trig |-> e.trig,
              conn |-> "off", synced |-> FALSE, skipped |-> FALSE, stray |-> FALSE]

Goto(t, o) == op' = [op EXCEPT ![t] = o]

\* The first half of a change of s: its entry becomes e.
Configure(t, s, e, o) ==
    /\ op[t] = Idle
    /\ cfg' = [cfg EXCEPT ![s] = e]
    /\ overlapped' = IF Busy(s) THEN overlapped \cup {s} ELSE overlapped
    /\ Goto(t, o)
    /\ UNCHANGED <<reg, inst, made>>

\* ServerInstance::new and its insertion under the id; old is what becomes of
\* the instances there are.
Build(old, s, e) ==
    /\ made < MaxInst
    /\ made' = made + 1
    /\ inst' = [i \in 1..made + 1 |-> IF i = made + 1 THEN New(s, e) ELSE old[i]]
    /\ reg' = [reg EXCEPT ![s] = made + 1]

\* ServerInstance::disconnect
Off(i) == [inst EXCEPT ![i].conn = "off"]

-----------------------------------------------------------------------------
(* Adding and removing a server                                            *)

AddConfig(t, s) ==
    /\ s \notin used
    /\ LET e == [ver |-> 0, trig |-> 0]
       IN  Configure(t, s, e, [pc |-> "add", id |-> s, entry |-> e])
    /\ used' = used \cup {s}
    /\ UNCHANGED version

\* add_server refuses an id that is registered.
AddInstance(t) ==
    /\ op[t].pc = "add" /\ Unlocked
    /\ IF reg[op[t].id] = 0 THEN Build(inst, op[t].id, op[t].entry)
                            ELSE UNCHANGED <<reg, inst, made>>
    /\ Goto(t, Idle)
    /\ UNCHANGED <<cfg, version, used, overlapped>>

RemoveConfig(t, s) ==
    /\ Configure(t, s, NoServer, [pc |-> "disconnect", id |-> s])
    /\ UNCHANGED <<version, used>>

RemoveDisconnects(t) ==
    /\ op[t].pc = "disconnect" /\ Unlocked
    /\ inst' = IF reg[op[t].id] = 0 THEN inst ELSE Off(reg[op[t].id])
    /\ Goto(t, [pc |-> "remove", id |-> op[t].id])
    /\ UNCHANGED <<cfg, reg, made, version, used, overlapped>>

\* Mutant: the disconnect of the handler is taken to be enough.
RemoveInstanceOnly(t) ==
    /\ op[t].pc = "remove" /\ Unlocked
    /\ reg' = [reg EXCEPT ![op[t].id] = 0]
    /\ Goto(t, Idle)
    /\ UNCHANGED <<cfg, inst, made, version, used, overlapped>>

\* remove_server disconnects once more, under the lock of the registry.
RemoveInstance(t) ==
    /\ op[t].pc = "remove" /\ Unlocked
    /\ inst' = IF reg[op[t].id] = 0 THEN inst ELSE Off(reg[op[t].id])
    /\ reg' = [reg EXCEPT ![op[t].id] = 0]
    /\ Goto(t, Idle)
    /\ UNCHANGED <<cfg, made, version, used, overlapped>>

-----------------------------------------------------------------------------
(* Updating the settings                                                   *)

\* The handler keeps a copy of the entry as it is now.
UpdateConfig(t, s) ==
    /\ Present(s)
    /\ version < MaxVersion
    /\ version' = version + 1
    /\ LET e == [cfg[s] EXCEPT !.ver = version + 1]
       IN  Configure(t, s, e, [pc |-> "reload", id |-> s, entry |-> e])
    /\ UNCHANGED used

\* What reload_server_config does to the instance it replaces: one that is
\* Reconnecting goes on.
Replaced(i) ==
    IF inst[i].conn \in {"on", "connecting"} THEN Off(i)
    ELSE [inst EXCEPT ![i].stray = @ \/ inst[i].conn = "lost"]

\* Mutant: no instance is built where none is registered, and the one that is
\* there keeps its settings.
ReloadKeeps(t) ==
    /\ op[t].pc = "reload" /\ Unlocked
    /\ inst' = IF reg[op[t].id] = 0 THEN inst ELSE Replaced(reg[op[t].id])
    /\ Goto(t, Idle)
    /\ UNCHANGED <<cfg, reg, made, version, used, overlapped>>

\* It builds an instance whether or not the server is registered still.
Reload(t) ==
    /\ op[t].pc = "reload" /\ Unlocked
    /\ LET s == op[t].id
       IN  Build(IF reg[s] = 0 THEN inst ELSE Replaced(reg[s]), s, op[t].entry)
    /\ Goto(t, Idle)
    /\ UNCHANGED <<cfg, version, used, overlapped>>

-----------------------------------------------------------------------------
(* Changing triggers: the entry, get_server, and under the lock of the     *)
(* configuration the instance found                                        *)

TriggerConfig(t, s) ==
    /\ op[t] = Idle
    /\ Present(s)
    /\ version < MaxVersion
    /\ version' = version + 1
    /\ cfg' = [cfg EXCEPT ![s].trig = version + 1]
    /\ Goto(t, [pc |-> "find", id |-> s])
    /\ UNCHANGED <<reg, inst, made, used, overlapped>>

TriggerFinds(t) ==
    /\ op[t].pc = "find" /\ Unlocked
    /\ LET s == op[t].id
       IN  Goto(t, IF reg[s] = 0 THEN Idle ELSE [pc |-> "set", id |-> s, i |-> reg[s]])
    /\ UNCHANGED <<cfg, reg, inst, made, version, used, overlapped>>

\* set_triggers with the entry of this moment.
Synced(i) ==
    LET s == inst[i].id
    IN  IF Present(s) THEN [inst EXCEPT ![i].trig = cfg[s].trig, ![i].skipped = FALSE]
                      ELSE inst

TriggerSets(t) ==
    /\ op[t].pc = "set"
    /\ inst' = Synced(op[t].i)
    /\ Goto(t, Idle)
    /\ UNCHANGED <<cfg, reg, made, version, used, overlapped>>

-----------------------------------------------------------------------------
(* Connecting                                                              *)

Connected == {s \in Ids : reg[s] # 0 /\ inst[reg[s]].conn = "on"}

\* handle_connect_server finds the instance and counts connected servers.
HandleConnect(t, s) ==
    /\ op[t] = Idle /\ Unlocked
    /\ reg[s] # 0
    /\ Cardinality(Connected) < Limit
    /\ Goto(t, [pc |-> "sync", i |-> reg[s]])
    /\ UNCHANGED <<cfg, reg, inst, made, version, used, overlapped>>

\* Mutant: the instance keeps the triggers it was built with.
ConnectUnsynced(t) ==
    /\ op[t].pc = "sync"
    /\ inst' = [inst EXCEPT ![op[t].i].conn = "connecting",
                            ![op[t].i].synced = Present(inst[op[t].i].id)]
    /\ Goto(t, [pc |-> "dial", i |-> op[t].i])
    /\ UNCHANGED <<cfg, reg, made, version, used, overlapped>>

\* The triggers of the configuration, and the beginning of connect().
ConnectSync(t) ==
    /\ op[t].pc = "sync"
    /\ LET i == op[t].i
       IN  inst' = [Synced(i) EXCEPT ![i].conn = "connecting",
                                     ![i].synced = @ \/ Present(inst[i].id)]
    /\ Goto(t, [pc |-> "dial", i |-> op[t].i])
    /\ UNCHANGED <<cfg, reg, made, version, used, overlapped>>

\* A remote port forward connects by itself, without a limit or the triggers.
ForwardConnect(t, s) ==
    /\ op[t] = Idle /\ Unlocked
    /\ reg[s] # 0 /\ Present(s)
    /\ inst[reg[s]].conn # "on"
    /\ inst' = [inst EXCEPT ![reg[s]].conn = "connecting"]
    /\ Goto(t, [pc |-> "dial", i |-> reg[s]])
    /\ UNCHANGED <<cfg, reg, made, version, used, overlapped>>

\* Mutant: a connect that failed leaves a status of its own.
DialDoneFails(t) ==
    /\ op[t].pc = "dial"
    /\ inst' = [inst EXCEPT ![op[t].i].conn = "failed"]
    /\ Goto(t, Idle)
    /\ UNCHANGED <<cfg, reg, made, version, used, overlapped>>

\* connect() ends; whatever the status is by then.
DialDone(t) ==
    /\ op[t].pc = "dial"
    /\ LET i == op[t].i
       IN  \/ inst' = [inst EXCEPT ![i].conn = "on", ![i].stray = @ \/ ~Registered(i)]
           \/ inst' = Off(i)
    /\ Goto(t, Idle)
    /\ UNCHANGED <<cfg, reg, made, version, used, overlapped>>

Disconnect(t, s) ==
    /\ op[t] = Idle /\ Unlocked
    /\ reg[s] # 0
    /\ inst' = Off(reg[s])
    /\ UNCHANGED <<cfg, reg, made, version, op, used, overlapped>>

\* The connection monitor of an instance.
Lose(i) ==
    /\ inst[i].conn = "on"
    /\ inst' = [inst EXCEPT ![i].conn = "lost"]
    /\ UNCHANGED <<cfg, reg, made, version, op, used, overlapped>>

Reconnect(i) ==
    /\ inst[i].conn = "lost"
    /\ inst' = [inst EXCEPT ![i].conn = "on"]
    /\ UNCHANGED <<cfg, reg, made, version, op, used, overlapped>>

\* It stops at the reconnect timeout.
GiveUp(i) ==
    /\ inst[i].conn = "lost"
    /\ inst' = Off(i)
    /\ UNCHANGED <<cfg, reg, made, version, op, used, overlapped>>

-----------------------------------------------------------------------------
(* Importing a configuration                                               *)

\* An export of this or of another device: every server is in it or not, with
\* settings and triggers of some earlier time.
ImportConfig(t) ==
    /\ op[t] = Idle
    /\ \E new \in [Ids -> [ver : 0..version, trig : 0..version] \cup {NoServer}] :
          /\ cfg' = new
          /\ Goto(t, [pc |-> "import", new |-> new, todo |-> Ids])
    /\ used' = Ids
    /\ overlapped' = overlapped \cup {s \in Ids : Busy(s)}
    /\ UNCHANGED <<reg, inst, made, version>>

\* The comparison is with the configuration the instance was built from.
Unchanged(s, new) ==
    LET i == reg[s]
    IN  i # 0 /\ new[s] # NoServer
          /\ inst[i].ver = new[s].ver /\ inst[i].birth = new[s].trig

\* sync_from_config comes to server s.
ImportStep(t, s) ==
    /\ op[t].pc = "import" /\ s \in op[t].todo
    /\ Unlocked \/ op[t].todo # Ids
    /\ LET new == op[t].new
           gone == IF reg[s] = 0 THEN inst ELSE Off(reg[s])
       IN  IF new[s] = NoServer
           THEN /\ inst' = gone
                /\ reg' = [reg EXCEPT ![s] = 0]
                /\ UNCHANGED made
           ELSE IF Unchanged(s, new)
           THEN /\ inst' = [inst EXCEPT ![reg[s]].skipped =
                               @ \/ inst[reg[s]].trig # new[s].trig]
                /\ UNCHANGED <<reg, made>>
           ELSE Build(gone, s, new[s])
    /\ LET left == op[t].todo \ {s}
       IN  Goto(t, IF left = {} THEN Idle
                   ELSE [pc |-> "import", new |-> op[t].new, todo |-> left])
    /\ UNCHANGED <<cfg, version, used, overlapped>>

-----------------------------------------------------------------------------

RegistryNext ==
    \/ \E t \in Tasks, s \in Ids :
          \/ AddConfig(t, s) \/ RemoveConfig(t, s) \/ UpdateConfig(t, s)
          \/ TriggerConfig(t, s) \/ HandleConnect(t, s) \/ ForwardConnect(t, s)
          \/ Disconnect(t, s) \/ ImportStep(t, s)
    \/ \E t \in Tasks :
          \/ AddInstance(t) \/ RemoveDisconnects(t) \/ RemoveInstance(t)
          \/ Reload(t) \/ TriggerFinds(t) \/ TriggerSets(t)
          \/ ConnectSync(t) \/ DialDone(t) \/ ImportConfig(t)
    \/ \E i \in 1..made : Lose(i) \/ Reconnect(i) \/ GiveUp(i)

RegistrySpec == RegistryInit /\ [][RegistryNext]_registryVars

-----------------------------------------------------------------------------
(* Properties                                                              *)

\* A connection belongs to a server the user still sees: an instance that left
\* the registry, by removal, reload or import, has none.  The exceptions are
\* those of the code: an instance replaced while its monitor was reconnecting
\* it, and one whose connect was under way when it left (stray).
NoOrphanConnection ==
    \A i \in 1..made :
        inst[i].conn \in {"on", "lost"} => Registered(i) \/ inst[i].stray

\* A registered instance that went through handle_connect_server runs the
\* triggers of the configuration, however connects, reloads and changes of
\* triggers are interleaved: when no handler stands between the two, and
\* unless an import took it for unchanged (skipped).
TriggersFresh ==
    \A s \in Ids :
        LET i == reg[s]
            between == \E t \in Tasks :
                          op[t].pc \in {"find", "set"} /\ op[t].id = s
        IN  Present(s) /\ i # 0 /\ ~Busy(s) /\ ~between /\ s \notin overlapped
                 /\ inst[i].synced /\ ~inst[i].skipped
              => inst[i].trig = cfg[s].trig

\* What the registry runs is what the configuration says: when no change of a
\* server is under way, and none was made within another one, it has an
\* instance exactly if it has an entry, built from the settings of the entry.
RegistryMatchesConfig ==
    \A s \in Ids :
        ~Busy(s) /\ s \notin overlapped =>
            /\ Present(s) <=> reg[s] # 0
            /\ Present(s) => inst[reg[s]].ver = cfg[s].ver

-----------------------------------------------------------------------------
(* The inductive invariant behind the properties.                          *)

\* A server in use, or to be built, has an id a client has used.
Builds(t, s) ==
    \/ op[t].pc = "import"
    \/ op[t].pc \in {"add", "reload"} /\ op[t].id = s
KnownIds ==
    \A s \in Ids :
        Present(s) \/ reg[s] # 0 \/ (\E t \in Tasks : Builds(t, s)) => s \in used

\* Instances are registered under their own id, and tasks hold built ones.
OwnInstances ==
    /\ \A s \in Ids : reg[s] # 0 => inst[reg[s]].id = s
    /\ \A t \in Tasks : op[t].pc \in {"set", "sync", "dial"} => op[t].i \in 1..made
    /\ \A t \in Tasks : op[t].pc = "set" => inst[op[t].i].id = op[t].id

\* A server that was never changed twice at once has one change under way.
OneChange ==
    \A s \in Ids \ overlapped : \A t, u \in Tasks :
        Changes(t, s) /\ Changes(u, s) => t = u

\* The entry is already what the change under way will make of the registry.
HalfDone ==
    \A s \in Ids \ overlapped : \A t \in Tasks :
        /\ op[t].pc = "add" /\ op[t].id = s => reg[s] = 0
        /\ op[t].pc \in {"add", "reload"} /\ op[t].id = s =>
              Present(s) /\ op[t].entry.ver = cfg[s].ver
        /\ op[t].pc \in {"disconnect", "remove"} /\ op[t].id = s => ~Present(s)
        /\ op[t].pc = "import" =>
              /\ Present(s) <=> op[t].new[s] # NoServer
              /\ Present(s) => op[t].new[s].ver = cfg[s].ver

\* A change of s that has not reached the registry.
Ahead(t, s) == Changes(t, s) /\ (op[t].pc = "import" => s \in op[t].todo)
Reached(s) == s \notin overlapped /\ \A t \in Tasks : ~Ahead(t, s)

Matches(s) ==
    /\ Present(s) <=> reg[s] # 0
    /\ Present(s) => inst[reg[s]].ver = cfg[s].ver

ReachedMatches == \A s \in Ids : Reached(s) => Matches(s)

\* A change of the triggers that the instance of s has yet to be given.
Untold(s) ==
    \E t \in Tasks :
        /\ op[t].pc \in {"find", "set"} /\ op[t].id = s
        /\ op[t].pc = "set" => op[t].i = reg[s]

Told(s) == Present(s) /\ reg[s] # 0 /\ ~Untold(s)

ReachedFresh ==
    \A s \in Ids :
        Reached(s) /\ Told(s) /\ inst[reg[s]].synced /\ ~inst[reg[s]].skipped
          => inst[reg[s]].trig = cfg[s].trig

\* An import that has yet to come to s will find what it needs for skipped.
ImportFresh ==
    \A s \in Ids \ overlapped : \A t \in Tasks :
        op[t].pc = "import" /\ s \in op[t].todo /\ Told(s)
          => cfg[s].trig \in {op[t].new[s].trig, inst[reg[s]].trig}

RegistryInv ==
    /\ RegistryTypeOK /\ KnownIds /\ OwnInstances /\ NoOrphanConnection
    /\ OneChange /\ HalfDone /\ ReachedMatches /\ ReachedFresh /\ ImportFresh

=============================================================================
