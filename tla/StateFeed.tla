------------------------------- MODULE StateFeed ------------------------------
(***************************************************************************)
(* The dashboard feed of the edge server: websocket connections, the       *)
(* goroutines that broadcast the cluster's state to them, and the Serf     *)
(* event loop, which is one of these goroutines.                           *)
(*                                                                         *)
(* The state that is sent has two halves, read one after the other by      *)
(* getClusterState: the cluster manager's, under its mutex, and Serf's     *)
(* members and tags. A half is the number of changes it has seen. The      *)
(* library's contract for a connection is one writer at a time: a second   *)
(* one panics.                                                             *)
(***************************************************************************)
EXTENDS Integers, Sequences, FiniteSets

CONSTANTS Clients,    \* websocket connections, each opened once
          Opened,     \* those that are open in the beginning
          Nobody,     \* no goroutine; no connection
          Capacity,   \* events that eventCh takes before Serf has to wait
          Buffer,     \* messages that the network takes before the client reads
          MaxChanges, \* bound: what HTTP handlers change and Serf reports
          MaxLeaves   \* bound: dashboards closed

\* The event loop; and whoever else broadcasts: the tag ticker and the
\* goroutines that go statements have started.
Senders == {"events", "others"}

ASSUME ClientsAssumption ==
    /\ Opened \subseteq Clients
    /\ Clients \cap Senders = {} /\ Nobody \notin Clients \cup Senders
ASSUME BoundsAssumption ==
    Capacity \in Nat /\ Buffer \in Nat /\ MaxChanges \in Nat /\ MaxLeaves \in Nat

VARIABLES now,        \* the cluster's state
          changes,    \* posts and events so far
          leaves,     \* dashboards closed so far
          eventCh,    \* EdgeServer.eventCh
          blocked,    \* the event that Serf waits to send, holding its lock
          changed,    \* a tag differs from the ticker's lastTags
          spawned,    \* broadcasts of the others that have not begun
          mux,        \* the holder of broadcastMux
          pc,         \* where a sender, or the handler of a connection, is
          snap,       \* what getClusterState has read for it
          todo,       \* clientsCopy, the rest of it
          target,     \* the connection a sender writes to
          clients,    \* EdgeServer.clients
          conn,       \* the connections themselves
          inbox,      \* messages on their way to the browser
          screen,     \* what the dashboard shows, compared with the state
          crashed     \* the edge server has panicked

edgeState == <<now, changes>>
serfState == <<eventCh, blocked, changed>>
browser == <<conn, inbox, screen, leaves>>
vars == <<edgeState, serfState, spawned, mux, pc, snap, todo, target, clients,
          browser, crashed>>

EventKinds == {"update", "join", "leave", "completion"}
States == [edge : Nat, serf : Nat]
Messages == [by : {"handler", "broadcast"}, state : States]
Unread == [edge |-> 0, serf |-> 0]
Procs == Senders \cup Clients

\* a is not newer than b in either half.
Leq(a, b) == a.edge <= b.edge /\ a.serf <= b.serf

TypeOK ==
    /\ now \in States
    /\ changes \in Nat /\ leaves \in Nat
    /\ eventCh \in Seq(EventKinds)
    /\ blocked \in EventKinds \cup {"none"}
    /\ changed \in BOOLEAN
    /\ spawned \in Nat
    /\ mux \in Senders \cup {Nobody}
    /\ pc \in [Procs -> {"none", "idle", "wait", "register", "edge", "serf",
                         "write", "writing", "read", "done", "panicked"}]
    /\ snap \in [Procs -> States]
    /\ todo \in [Senders -> SUBSET Clients]
    /\ target \in [Senders -> Clients \cup {Nobody}]
    /\ clients \subseteq Clients
    /\ conn \in [Clients -> {"none", "open", "closed"}]
    /\ inbox \in [Clients -> Seq(Messages)]
    /\ screen \in [Clients -> {"behind", "current", "overwritten"}]
    /\ crashed \in BOOLEAN

Init ==
    /\ now = Unread
    /\ changes = 0 /\ leaves = 0
    /\ eventCh = <<>>
    /\ blocked = "none"
    /\ changed = FALSE
    /\ spawned = 0
    /\ mux = Nobody
    /\ pc = [p \in Procs |-> IF p \in Senders THEN "idle"
                          ELSE IF p \in Opened THEN "read" ELSE "none"]
    /\ snap = [p \in Procs |-> Unread]
    /\ todo = [s \in Senders |-> {}]
    /\ target = [s \in Senders |-> Nobody]
    /\ clients = Opened
    /\ conn = [c \in Clients |-> IF c \in Opened THEN "open" ELSE "none"]
    /\ inbox = [c \in Clients |-> <<>>]
    /\ screen = [c \in Clients |-> IF c \in Opened THEN "current" ELSE "behind"]
    /\ crashed = FALSE

\* The state changes: no dashboard has got it yet.
Change(edge, serf) ==
    /\ now' = [edge |-> now.edge + edge, serf |-> now.serf + serf]
    /\ screen' = IF edge + serf = 0 THEN screen ELSE [c \in Clients |-> "behind"]

Goto(p, l) == pc' = [pc EXCEPT ![p] = l]

-------------------------------------------------------------------------------
(* What happens to the cluster *)

\* createJob and stopJob change the queue and start one broadcast, claimJob
\* starts a second one for 300 ms later.
Post(n) ==
    /\ changes < MaxChanges
    /\ changes' = changes + 1
    /\ Change(1, 0)
    /\ spawned' = spawned + n
    /\ UNCHANGED <<serfState, mux, pc, snap, todo, target, clients,
                   conn, inbox, leaves, crashed>>

\* Serf sees a member join, leave, fail or change its tags and sends the event
\* while it holds the lock of its members; without room it waits, and so does
\* everybody who calls Members(). The ticker's comparison notices values that
\* are new, not members or tags that are gone.
MemberChange(e, noticed) ==
    /\ changes < MaxChanges
    /\ blocked = "none"
    /\ changes' = changes + 1
    /\ Change(0, 1)
    /\ changed' = (changed \/ noticed)
    /\ IF Len(eventCh) < Capacity
       THEN eventCh' = Append(eventCh, e) /\ UNCHANGED blocked
       ELSE blocked' = e /\ UNCHANGED eventCh
    /\ UNCHANGED <<spawned, mux, pc, snap, todo, target, clients, conn,
                   inbox, leaves, crashed>>

\* There is room again, and Serf gives its lock back.
Unblock ==
    /\ blocked # "none"
    /\ Len(eventCh) < Capacity
    /\ eventCh' = Append(eventCh, blocked)
    /\ blocked' = "none"
    /\ UNCHANGED <<edgeState, changed, spawned, mux, pc, snap, todo, target,
                   clients, browser, crashed>>

\* A task-completion user event arrives. It changes nothing that is shown.
Completion ==
    /\ changes < MaxChanges
    /\ Len(eventCh) < Capacity
    /\ changes' = changes + 1
    /\ eventCh' = Append(eventCh, "completion")
    /\ UNCHANGED <<now, blocked, changed, spawned, mux, pc, snap, todo,
                   target, clients, browser, crashed>>

-------------------------------------------------------------------------------
(* Who broadcasts *)

\* handleSerfEvents takes an event: addNode and removeNode change the cluster,
\* a join and a completion start a delayed broadcast, all broadcast themselves.
HandleEvent ==
    /\ pc["events"] = "idle"
    /\ eventCh # <<>>
    /\ eventCh' = Tail(eventCh)
    /\ Change(IF Head(eventCh) \in {"join", "leave"} THEN 1 ELSE 0, 0)
    /\ spawned' = IF Head(eventCh) \in {"join", "completion"}
                  THEN spawned + 1 ELSE spawned
    /\ Goto("events", "wait")
    /\ UNCHANGED <<changes, blocked, changed, mux, snap, todo, target,
                   clients, conn, inbox, leaves, crashed>>

\* The ticker compares the tags of Members() with the last ones.
Tick ==
    /\ blocked = "none"
    /\ changed
    /\ changed' = FALSE
    /\ spawned' = spawned + 1
    /\ UNCHANGED <<edgeState, eventCh, blocked, mux, pc, snap, todo, target,
                   clients, browser, crashed>>

-------------------------------------------------------------------------------
(* broadcastClusterState *)

\* The event loop has an event to broadcast, another goroutine is awake.
Waiting(s) ==
    \/ pc[s] = "wait"
    \/ s = "others" /\ pc[s] = "idle" /\ spawned > 0

\* Mutated: broadcastMux is not waited for.
LockFree(s) ==
    /\ Waiting(s)
    /\ mux' = s
    /\ spawned' = IF s = "others" THEN spawned - 1 ELSE spawned
    /\ snap' = [snap EXCEPT ![s] = [edge |-> now.edge, serf |-> 0]]
    /\ Goto(s, "serf")
    /\ UNCHANGED <<edgeState, serfState, todo, target, clients, browser, crashed>>

\* Mutated: a goroutine that nobody has started.
LockTwice(s) ==
    /\ pc[s] = (IF s = "others" THEN "idle" ELSE "wait")
    /\ mux = Nobody
    /\ mux' = s
    /\ spawned' = IF s = "others" THEN spawned - 1 ELSE spawned
    /\ snap' = [snap EXCEPT ![s] = [edge |-> now.edge, serf |-> 0]]
    /\ Goto(s, "serf")
    /\ UNCHANGED <<edgeState, serfState, todo, target, clients, browser, crashed>>

\* broadcastMux is taken, and getClusterState reads the cluster manager's half.
Lock(s) ==
    /\ Waiting(s)
    /\ mux = Nobody
    /\ mux' = s
    /\ spawned' = IF s = "others" THEN spawned - 1 ELSE spawned
    /\ snap' = [snap EXCEPT ![s] = [edge |-> now.edge, serf |-> 0]]
    /\ Goto(s, "serf")
    /\ UNCHANGED <<edgeState, serfState, todo, target, clients, browser, crashed>>

\* Mutated: the mutex is given back before the messages are written.
CopyAndUnlock(s) ==
    /\ pc[s] = "serf"
    /\ blocked = "none"
    /\ snap' = [snap EXCEPT ![s] = [edge |-> @.edge, serf |-> now.serf]]
    /\ todo' = [todo EXCEPT ![s] = clients]
    /\ mux' = Nobody
    /\ Goto(s, "write")
    /\ UNCHANGED <<edgeState, serfState, spawned, target, clients, browser,
                   crashed>>

\* Mutated: connections whose initial state is not written yet are skipped.
CopyEstablished(s) ==
    /\ pc[s] = "serf"
    /\ blocked = "none"
    /\ snap' = [snap EXCEPT ![s] = [edge |-> @.edge, serf |-> now.serf]]
    /\ todo' = [todo EXCEPT ![s] = {c \in clients : pc[c] = "read"}]
    /\ Goto(s, "write")
    /\ UNCHANGED <<edgeState, serfState, spawned, mux, target, clients, browser,
                   crashed>>

\* getClusterState reads Serf's half, by Members(); then the connections are
\* copied under clientsMux.
Copy(s) ==
    /\ pc[s] = "serf"
    /\ blocked = "none"
    /\ snap' = [snap EXCEPT ![s] = [edge |-> @.edge, serf |-> now.serf]]
    /\ todo' = [todo EXCEPT ![s] = clients]
    /\ Goto(s, "write")
    /\ UNCHANGED <<edgeState, serfState, spawned, mux, target, clients, browser,
                   crashed>>

\* WriteMessage to one of them. If another goroutine is writing to it, it
\* panics, which ends the process: nothing recovers here.
StartWrite(s, c) ==
    /\ pc[s] = "write"
    /\ c \in todo[s]
    /\ todo' = [todo EXCEPT ![s] = @ \ {c}]
    /\ target' = [target EXCEPT ![s] = c]
    /\ crashed' = (pc[c] = "writing" \/ \E r \in Senders \ {s} : target[r] = c)
    /\ Goto(s, "writing")
    /\ UNCHANGED <<edgeState, serfState, spawned, mux, snap, clients, browser>>

\* The message is on its way as soon as the network takes it; there is no
\* deadline.
WriteDone(s, c) ==
    /\ target[s] = c
    /\ conn[c] = "open"
    /\ Len(inbox[c]) < Buffer
    /\ inbox' = [inbox EXCEPT ![c] =
                    Append(@, [by |-> "broadcast", state |-> snap[s]])]
    /\ target' = [target EXCEPT ![s] = Nobody]
    /\ Goto(s, "write")
    /\ UNCHANGED <<edgeState, serfState, spawned, mux, snap, todo, clients, conn,
                   screen, leaves, crashed>>

\* Mutated: an error returns without unlocking.
WriteFailsLocked(s, c) ==
    /\ target[s] = c
    /\ conn[c] = "closed"
    /\ clients' = clients \ {c}
    /\ target' = [target EXCEPT ![s] = Nobody]
    /\ Goto(s, "idle")
    /\ UNCHANGED <<edgeState, serfState, spawned, mux, snap, todo, browser,
                   crashed>>

\* An error: the connection is closed and forgotten.
WriteFails(s, c) ==
    /\ target[s] = c
    /\ conn[c] = "closed"
    /\ clients' = clients \ {c}
    /\ target' = [target EXCEPT ![s] = Nobody]
    /\ Goto(s, "write")
    /\ UNCHANGED <<edgeState, serfState, spawned, mux, snap, todo, browser,
                   crashed>>

\* All are written; the deferred Unlock.
Unlock(s) ==
    /\ pc[s] = "write"
    /\ todo[s] = {}
    /\ mux' = Nobody
    /\ snap' = [snap EXCEPT ![s] = Unread]
    /\ Goto(s, "idle")
    /\ UNCHANGED <<edgeState, serfState, spawned, todo, target, clients,
                   browser, crashed>>

-------------------------------------------------------------------------------
(* handleWebSocket *)

\* A dashboard is opened, and the connection upgraded.
Connect(c) ==
    /\ conn[c] = "none"
    /\ conn' = [conn EXCEPT ![c] = "open"]
    /\ Goto(c, "register")
    /\ UNCHANGED <<edgeState, serfState, spawned, mux, snap, todo, target,
                   clients, inbox, screen, leaves, crashed>>

\* The connection is registered before the state is read.
Register(c) ==
    /\ pc[c] = "register"
    /\ clients' = clients \cup {c}
    /\ Goto(c, "edge")
    /\ UNCHANGED <<edgeState, serfState, spawned, mux, snap, todo, target,
                   browser, crashed>>

\* getClusterState, first the cluster manager's half, then Serf's.
ReadEdge(c) ==
    /\ pc[c] = "edge"
    /\ snap' = [snap EXCEPT ![c] = [edge |-> now.edge, serf |-> 0]]
    /\ Goto(c, "serf")
    /\ UNCHANGED <<edgeState, serfState, spawned, mux, todo, target, clients,
                   browser, crashed>>

ReadSerf(c) ==
    /\ pc[c] = "serf"
    /\ blocked = "none"
    /\ snap' = [snap EXCEPT ![c] = [edge |-> @.edge, serf |-> now.serf]]
    /\ Goto(c, "write")
    /\ UNCHANGED <<edgeState, serfState, spawned, mux, todo, target, clients,
                   browser, crashed>>

\* WriteMessage of the initial state, without broadcastMux. Here net/http
\* recovers the panic, and the deferred Close closes the connection, which
\* stays registered.
StartInitial(c) ==
    /\ pc[c] = "write"
    /\ IF \E s \in Senders : target[s] = c
       THEN /\ conn' = [conn EXCEPT ![c] = "closed"]
            /\ inbox' = [inbox EXCEPT ![c] = <<>>]
            /\ Goto(c, "panicked")
       ELSE Goto(c, "writing") /\ UNCHANGED <<conn, inbox>>
    /\ UNCHANGED <<edgeState, serfState, spawned, mux, snap, todo, target,
                   clients, screen, leaves, crashed>>

\* The initial state is on its way, or could not be written: the error is
\* ignored and the handler goes on to ReadMessage.
InitialDone(c) ==
    /\ pc[c] = "writing"
    /\ \/ /\ conn[c] = "open"
          /\ Len(inbox[c]) < Buffer
          /\ inbox' = [inbox EXCEPT ![c] =
                          Append(@, [by |-> "handler", state |-> snap[c]])]
       \/ conn[c] = "closed" /\ UNCHANGED inbox
    /\ snap' = [snap EXCEPT ![c] = Unread]
    /\ Goto(c, "read")
    /\ UNCHANGED <<edgeState, serfState, spawned, mux, todo, target,
                   clients, conn, screen, leaves, crashed>>

\* Mutated: the connection stays registered.
ReadFailsRegistered(c) ==
    /\ pc[c] = "read"
    /\ conn[c] = "closed"
    /\ Goto(c, "done")
    /\ UNCHANGED <<edgeState, serfState, spawned, mux, snap, todo, target,
                   clients, browser, crashed>>

\* ReadMessage fails: the connection is forgotten. Without MQTT, what it reads
\* has no effect.
ReadFails(c) ==
    /\ pc[c] = "read"
    /\ conn[c] = "closed"
    /\ clients' = clients \ {c}
    /\ Goto(c, "done")
    /\ UNCHANGED <<edgeState, serfState, spawned, mux, snap, todo, target,
                   browser, crashed>>

\* The dashboard shows the next message, whatever it showed before.
Show(c) ==
    /\ inbox[c] # <<>>
    /\ inbox' = [inbox EXCEPT ![c] = Tail(@)]
    /\ screen' = [screen EXCEPT ![c] =
                     IF Head(inbox[c]).state = now THEN "current"
                     ELSE IF @ = "current" THEN "overwritten" ELSE @]
    /\ UNCHANGED <<edgeState, serfState, spawned, mux, pc, snap, todo, target,
                   clients, conn, leaves, crashed>>

\* The dashboard is closed, or its network is gone.
Disconnect(c) ==
    /\ conn[c] = "open"
    /\ leaves < MaxLeaves
    /\ leaves' = leaves + 1
    /\ conn' = [conn EXCEPT ![c] = "closed"]
    /\ inbox' = [inbox EXCEPT ![c] = <<>>]
    /\ screen' = [screen EXCEPT ![c] = "behind"]
    /\ UNCHANGED <<edgeState, serfState, spawned, mux, pc, snap, todo, target,
                   clients, crashed>>

-------------------------------------------------------------------------------
Broadcast(s) ==
    \/ Lock(s) \/ Copy(s)
    \/ \E c \in Clients : StartWrite(s, c) \/ WriteDone(s, c) \/ WriteFails(s, c)
    \/ Unlock(s)

Handler(c) ==
    \/ Register(c) \/ ReadEdge(c) \/ ReadSerf(c)
    \/ StartInitial(c) \/ InitialDone(c) \/ ReadFails(c)

Next ==
    /\ ~crashed
    /\ \/ \E n \in 1..2 : Post(n)
       \/ \E e \in {"update", "join"}, noticed \in BOOLEAN : MemberChange(e, noticed)
       \/ MemberChange("leave", FALSE)
       \/ Unblock \/ Completion
       \/ HandleEvent \/ Tick
       \/ \E s \in Senders : Broadcast(s)
       \/ \E c \in Clients : Connect(c) \/ Handler(c) \/ Show(c) \/ Disconnect(c)

Spec == Init /\ [][Next]_vars

\* Goroutines run, timers fire, and an open dashboard reads what it is sent.
\* Nobody has to post, connect or leave.
Fairness ==
    /\ WF_vars(~crashed /\ Unblock)
    /\ WF_vars(~crashed /\ HandleEvent)
    /\ WF_vars(~crashed /\ Tick)
    /\ \A s \in Senders : WF_vars(~crashed /\ Broadcast(s))
    /\ \A c \in Clients : /\ WF_vars(~crashed /\ Handler(c))
                          /\ WF_vars(~crashed /\ Show(c))

FairSpec == Spec /\ Fairness

-------------------------------------------------------------------------------
(* Properties *)

\* broadcastMux does its work: whenever a second writer on a connection brings
\* the edge server down, the first one is the handler of that connection,
\* which writes its initial state without the mutex.
OnlyInitialOverlaps ==
    /\ crashed => \E s \in Senders : target[s] # Nobody /\ pc[target[s]] = "writing"
    /\ \A r, s \in Senders : r # s => {target[r]} \cap {target[s]} \subseteq {Nobody}

\* A dashboard never gets an older broadcast after a newer one.
BroadcastsInOrder ==
    \A c \in Clients : \A i, k \in DOMAIN inbox[c] :
        (i < k /\ inbox[c][i].by = "broadcast" /\ inbox[c][k].by = "broadcast")
            => Leq(inbox[c][i].state, inbox[c][k].state)

\* The one way to lose the event loop: eventCh is full, Serf waits for room with
\* its lock held, and the event loop, or the holder of the mutex that it waits
\* for, calls Members(), which waits for that lock.
Stuck ==
    /\ blocked # "none" /\ Len(eventCh) = Capacity
    /\ pc["events"] # "idle"
    /\ mux # Nobody /\ pc[mux] = "serf"

\* Somebody carries the current state to a dashboard, or is about to read it: a
\* broadcast that has not begun; the handler of its connection; a broadcast that
\* has read the state, whole or the cluster manager's half, and not written it
\* to this connection; or a message.
Comes ==
    \/ spawned > 0 \/ changed
    \/ eventCh # <<>> \/ blocked # "none" \/ pc["events"] = "wait"
Fresh(p) ==
    \/ pc[p] = "serf" /\ snap[p].edge = now.edge
    \/ pc[p] \in {"write", "writing"} /\ snap[p] = now
Carries(s, c) == Fresh(s) /\ (pc[s] = "serf" \/ c \in todo[s] \/ target[s] = c)
Arrives(c) == \E i \in DOMAIN inbox[c] : inbox[c][i].state = now
OnItsWay(c) ==
    \/ Comes
    \/ pc[c] = "edge" \/ Fresh(c)
    \/ \E s \in Senders : Carries(s, c)
    \/ Arrives(c)

\* No change passes a dashboard by, not even one that happens while it is
\* connecting: whenever a registered and open one is behind, the current state
\* is on its way to it, with nobody having to post or connect.
NewsIsOnItsWay ==
    \A c \in clients : (conn[c] = "open" /\ screen[c] = "behind") => OnItsWay(c)

\* What is on its way arrives: a registered connection that stays open gets a
\* state that contains every change, if the edge server survives.
NewsArrives ==
    \A c \in Clients :
        (c \in clients /\ conn[c] = "open")
            ~> (screen[c] # "behind" \/ conn[c] = "closed" \/ crashed \/ Stuck)

\* The events that the cluster's bookkeeping lives on are handled, although
\* the goroutine that handles them writes to dashboards that come and go, and
\* although Serf sends them while it holds the lock that Members() takes.
EventsHandled ==
    (eventCh # <<>>) ~> ((eventCh = <<>> /\ pc["events"] = "idle") \/ crashed \/ Stuck)

\* A connection that is closed is forgotten, unless its handler has panicked.
ClosedIsForgotten ==
    \A c \in Clients :
        (conn[c] = "closed") ~> (c \notin clients \/ pc[c] = "panicked" \/ crashed \/ Stuck)

\* Nothing is left to do, and every message has been shown.
Quiet ==
    /\ ~crashed
    /\ eventCh = <<>> /\ blocked = "none" /\ ~changed /\ spawned = 0
    /\ \A s \in Senders : pc[s] = "idle"
    /\ \A c \in Clients : pc[c] \in {"none", "read", "done", "panicked"} /\ inbox[c] = <<>>

\* "The Dashboard and monitoring system are updated in real time via
\* WebSocket": when all is quiet, an open dashboard shows the current state.
DashboardIsCurrent ==
    Quiet => \A c \in Clients : (conn[c] = "open" /\ pc[c] = "read") => screen[c] = "current"
===============================================================================
