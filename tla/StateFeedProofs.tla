---------------------------- MODULE StateFeedProofs ---------------------------
(***************************************************************************)
(* Proofs about StateFeed, for any dashboards, buffers and numbers of      *)
(* changes: broadcastMux keeps the broadcasts apart, so that the only      *)
(* writes that meet are those of a broadcast and of an initial state, and  *)
(* no dashboard gets an older broadcast after a newer one.                 *)
(***************************************************************************)
EXTENDS StateFeed, TLAPS

USE ClientsAssumption, BoundsAssumption DEF edgeState, serfState, browser

\* A goroutine that broadcasts holds broadcastMux from the first read to the
\* end, and writes to a connection only then.
MuxHeld ==
    \A s \in Senders :
        /\ pc[s] \in {"idle", "wait", "serf", "write", "writing"}
        /\ mux = s <=> pc[s] \in {"serf", "write", "writing"}
        /\ target[s] # Nobody <=> pc[s] = "writing"
        /\ s = "others" => pc[s] # "wait"

MuxInv == TypeOK /\ MuxHeld /\ OnlyInitialOverlaps

-------------------------------------------------------------------------------
(* Types *)

\* One sequence of a function is replaced, or gets one more element.
LEMMA SequenceUpdate ==
    ASSUME NEW D, NEW S, NEW f \in [D -> Seq(S)], NEW d \in D
    PROVE  /\ \A q \in Seq(S) : [f EXCEPT ![d] = q] \in [D -> Seq(S)]
           /\ \A m \in S : [f EXCEPT ![d] = Append(f[d], m)] \in [D -> Seq(S)]
           /\ [f EXCEPT ![d] = <<>>] \in [D -> Seq(S)]
<1>1. \A q \in Seq(S) : [f EXCEPT ![d] = q] \in [D -> Seq(S)]
  OBVIOUS
<1>2. /\ \A m \in S : Append(f[d], m) \in Seq(S)
      /\ <<>> \in Seq(S)
  OBVIOUS
<1> QED
  BY <1>1, <1>2

LEMMA TypeInit == Init => TypeOK
<1> SUFFICES ASSUME Init PROVE TypeOK
  OBVIOUS
<1>1. /\ now \in States /\ snap \in [Procs -> States]
      /\ pc \in [Procs -> {"none", "idle", "wait", "register", "edge", "serf",
                           "write", "writing", "read", "done", "panicked"}]
  BY DEF Init, States, Unread, Procs
<1>2. /\ inbox \in [Clients -> Seq(Messages)] /\ eventCh \in Seq(EventKinds)
      /\ blocked \in EventKinds \cup {"none"}
  BY DEF Init
<1>3. /\ todo \in [Senders -> SUBSET Clients]
      /\ target \in [Senders -> Clients \cup {Nobody}]
      /\ conn \in [Clients -> {"none", "open", "closed"}]
      /\ screen \in [Clients -> {"behind", "current", "overwritten"}]
  BY DEF Init
<1> QED
  BY <1>1, <1>2, <1>3 DEF Init, TypeOK

\* The types after the steps of the cluster and of Serf.
LEMMA ClusterTypes ==
    ASSUME TypeOK,
           \/ \E n \in 1..2 : Post(n)
           \/ \E e \in {"update", "join", "leave"}, noticed \in BOOLEAN :
                 MemberChange(e, noticed)
           \/ Unblock \/ Completion \/ HandleEvent \/ Tick
    PROVE  TypeOK'
<1> USE DEF TypeOK, States, Procs, Senders
<1>1. CASE \E n \in 1..2 : Post(n)
  BY <1>1 DEF Post, Change
<1>2. CASE \E e \in {"update", "join", "leave"}, noticed \in BOOLEAN :
              MemberChange(e, noticed)
  <2>1. PICK e \in {"update", "join", "leave"}, noticed \in BOOLEAN :
              MemberChange(e, noticed)
    BY <1>2
  <2>2. changed' \in BOOLEAN
    BY <2>1, Zenon DEF MemberChange
  <2>3. now' \in States /\ screen' \in [Clients -> {"behind", "current", "overwritten"}]
    BY <2>1 DEF MemberChange, Change
  <2>4. eventCh' \in Seq(EventKinds) /\ blocked' \in EventKinds \cup {"none"}
    <3>1. \/ eventCh' = Append(eventCh, e) /\ blocked' = blocked
          \/ eventCh' = eventCh /\ blocked' = e
      BY <2>1, Zenon DEF MemberChange
    <3>2. e \in EventKinds /\ eventCh \in Seq(EventKinds) /\ blocked \in EventKinds \cup {"none"}
      BY DEF EventKinds
    <3> HIDE DEF TypeOK
    <3> QED
      BY <3>1, <3>2
  <2>5. changes' \in Nat
    BY <2>1 DEF MemberChange
  <2> QED
    BY <2>1, <2>2, <2>3, <2>4, <2>5 DEF MemberChange
<1>3. CASE Unblock
  BY <1>3 DEF Unblock
<1>4. CASE Completion
  BY <1>4 DEF Completion, EventKinds
<1>5. CASE HandleEvent
  <2>1. eventCh' \in Seq(EventKinds) /\ spawned' \in Nat
    BY <1>5 DEF HandleEvent
  <2>2. now' \in States /\ screen' \in [Clients -> {"behind", "current", "overwritten"}]
    BY <1>5 DEF HandleEvent, Change
  <2> QED
    BY <1>5, <2>1, <2>2 DEF HandleEvent, Goto
<1>6. CASE Tick
  <2>1. changed' = FALSE /\ spawned' = spawned + 1
    BY <1>6, Zenon DEF Tick
  <2>2. /\ UNCHANGED <<edgeState, eventCh, blocked, mux, pc, snap, todo, target, clients,
                        browser, crashed>>
    BY <1>6, Zenon DEF Tick
  <2>3. changed' \in BOOLEAN
    BY <2>1, Zenon
  <2>4. spawned' \in Nat
    BY <2>1
  <2> QED
    BY <2>2, <2>3, <2>4
<1> QED
  BY <1>1, <1>2, <1>3, <1>4, <1>5, <1>6

LEMMA BroadcastTypes ==
    ASSUME TypeOK, MuxHeld, NEW s \in Senders, Broadcast(s)
    PROVE  TypeOK'
<1> USE DEF TypeOK, States, Procs
<1>1. CASE Lock(s)
  <2>1. s = "others" => spawned > 0
    BY <1>1 DEF Lock, Waiting, MuxHeld
  <2>2. spawned' \in Nat
    BY <1>1, <2>1 DEF Lock
  <2> QED
    BY <1>1, <2>2 DEF Lock, Goto
<1>2. CASE Copy(s)
  BY <1>2 DEF Copy, Goto
<1>3. ASSUME NEW c \in Clients, StartWrite(s, c)
      PROVE  TypeOK'
  <2>1. crashed' \in BOOLEAN
    BY <1>3, Zenon DEF StartWrite
  <2> QED
    BY <1>3, <2>1 DEF StartWrite, Goto
<1>4. ASSUME NEW c \in Clients, WriteDone(s, c)
      PROVE  TypeOK'
  BY <1>4 DEF WriteDone, Goto, Messages
<1>5. ASSUME NEW c \in Clients, WriteFails(s, c)
      PROVE  TypeOK'
  BY <1>5 DEF WriteFails, Goto
<1>6. CASE Unlock(s)
  BY <1>6 DEF Unlock, Goto, Unread
<1> QED
  BY <1>1, <1>2, <1>3, <1>4, <1>5, <1>6 DEF Broadcast

LEMMA HandlerTypes ==
    ASSUME TypeOK, NEW c \in Clients,
           Connect(c) \/ Handler(c) \/ Show(c) \/ Disconnect(c)
    PROVE  TypeOK'
<1> USE DEF TypeOK, States, Procs
<1>1. CASE Connect(c)
  BY <1>1 DEF Connect, Goto
<1>2. CASE Register(c)
  BY <1>2 DEF Register, Goto
<1>3. CASE ReadEdge(c)
  BY <1>3 DEF ReadEdge, Goto
<1>4. CASE ReadSerf(c)
  BY <1>4 DEF ReadSerf, Goto
<1>5. CASE StartInitial(c)
  <2>1. \/ /\ conn' = [conn EXCEPT ![c] = "closed"]
           /\ inbox' = [inbox EXCEPT ![c] = <<>>]
           /\ pc' = [pc EXCEPT ![c] = "panicked"]
        \/ /\ pc' = [pc EXCEPT ![c] = "writing"]
           /\ UNCHANGED <<conn, inbox>>
    BY <1>5, Zenon DEF StartInitial, Goto
  <2>2. /\ UNCHANGED <<now, changes, serfState, spawned, mux, snap, todo, target,
                        clients, screen, leaves, crashed>>
    BY <1>5, Zenon DEF StartInitial
  <2>3. inbox' \in [Clients -> Seq(Messages)] /\ conn' \in [Clients -> {"none", "open", "closed"}]
    <3>1. /\ inbox \in [Clients -> Seq(Messages)]
          /\ conn \in [Clients -> {"none", "open", "closed"}]
      OBVIOUS
    <3> HIDE DEF TypeOK
    <3>2. [inbox EXCEPT ![c] = <<>>] \in [Clients -> Seq(Messages)]
      BY <3>1, SequenceUpdate
    <3> QED
      BY <2>1, <3>1, <3>2
  <2> QED
    BY <2>1, <2>2, <2>3
<1>6. CASE InitialDone(c)
  <2>1. [by |-> "handler", state |-> snap[c]] \in Messages
    BY DEF Messages
  <2>2. inbox' \in [Clients -> Seq(Messages)]
    <3>1. \/ inbox' = inbox
          \/ inbox' = [inbox EXCEPT ![c] =
                          Append(inbox[c], [by |-> "handler", state |-> snap[c]])]
      BY <1>6, Zenon DEF InitialDone
    <3>2. inbox \in [Clients -> Seq(Messages)]
      OBVIOUS
    <3> HIDE DEF TypeOK
    <3> DEFINE m == [by |-> "handler", state |-> snap[c]]
    <3>3. m \in Messages
      BY <2>1
    <3> HIDE DEF m
    <3>4. [inbox EXCEPT ![c] = Append(inbox[c], m)] \in [Clients -> Seq(Messages)]
      BY <3>2, <3>3, SequenceUpdate
    <3> QED
      BY <3>1, <3>2, <3>4 DEF m
  <2>3. snap' \in [Procs -> States]
    BY <1>6 DEF InitialDone, Unread
  <2> QED
    BY <1>6, <2>2, <2>3 DEF InitialDone, Goto
<1>7. CASE ReadFails(c)
  BY <1>7 DEF ReadFails, Goto
<1>8. CASE Show(c)
  BY <1>8 DEF Show
<1>9. CASE Disconnect(c)
  BY <1>9 DEF Disconnect
<1> QED
  BY <1>1, <1>2, <1>3, <1>4, <1>5, <1>6, <1>7, <1>8, <1>9 DEF Handler

LEMMA TypeStep == TypeOK /\ MuxHeld /\ [Next]_vars => TypeOK'
<1>1. TypeOK /\ UNCHANGED vars => TypeOK'
  BY DEF vars, TypeOK
<1> QED
  BY <1>1, ClusterTypes, BroadcastTypes, HandlerTypes DEF Next

-------------------------------------------------------------------------------
(* The mutex *)

LEMMA MuxInit == Init => MuxInv
<1>1. Init => MuxHeld
  BY DEF Init, MuxHeld, Procs, Senders
<1>2. Init => OnlyInitialOverlaps
  BY DEF Init, OnlyInitialOverlaps, Senders
<1> QED
  BY <1>1, <1>2, TypeInit DEF MuxInv

\* Steps that are no broadcast's do not touch the mutex; a handler that writes
\* comes before the crash, if one comes.
LEMMA OtherSteps ==
    ASSUME MuxInv, ~crashed,
           \/ \E n \in 1..2 : Post(n)
           \/ \E e \in {"update", "join", "leave"}, noticed \in BOOLEAN :
                 MemberChange(e, noticed)
           \/ Unblock \/ Completion \/ HandleEvent \/ Tick
           \/ \E c \in Clients : Connect(c) \/ Handler(c) \/ Show(c) \/ Disconnect(c)
    PROVE  MuxHeld' /\ OnlyInitialOverlaps'
<1>1. UNCHANGED <<mux, target, crashed>>
  BY DEF Post, MemberChange, Unblock, Completion, HandleEvent, Tick, Connect, Handler,
         Show, Disconnect, Register, ReadEdge, ReadSerf, StartInitial, InitialDone,
         ReadFails
<1>2. /\ pc \in [Procs -> {"none", "idle", "wait", "register", "edge", "serf",
                           "write", "writing", "read", "done", "panicked"}]
      /\ \A s \in Senders : s \in Procs /\ s \notin Clients
      /\ "events" \in Procs
  BY DEF MuxInv, TypeOK, Procs, Senders
<1>3. \/ pc' = pc
      \/ pc["events"] = "idle" /\ pc' = [pc EXCEPT !["events"] = "wait"]
      \/ \E c \in Clients : \E l : pc' = [pc EXCEPT ![c] = l]
  BY DEF Post, MemberChange, Unblock, Completion, HandleEvent, Tick, Connect, Handler,
         Show, Disconnect, Register, ReadEdge, ReadSerf, StartInitial, InitialDone,
         ReadFails, Goto
<1>4. \A s \in Senders :
          \/ pc'[s] = pc[s]
          \/ s = "events" /\ pc[s] = "idle" /\ pc'[s] = "wait"
  BY <1>2, <1>3
<1> QED
  BY <1>1, <1>4 DEF MuxInv, MuxHeld, OnlyInitialOverlaps

LEMMA BroadcastStep ==
    ASSUME MuxInv, ~crashed, NEW s \in Senders, Broadcast(s)
    PROVE  MuxHeld' /\ OnlyInitialOverlaps'
<1>1. /\ pc \in [Procs -> {"none", "idle", "wait", "register", "edge", "serf",
                           "write", "writing", "read", "done", "panicked"}]
      /\ target \in [Senders -> Clients \cup {Nobody}]
      /\ s \in Procs /\ s # Nobody /\ s \notin Clients /\ Senders \subseteq Procs
      /\ Nobody \notin Clients \cup Senders
  BY DEF MuxInv, TypeOK, Procs
<1>2. \A r \in Senders \ {s} : mux = s => target[r] = Nobody
  BY DEF MuxInv, MuxHeld
<1>3. CASE Lock(s)
  <2>1. pc[s] \in {"idle", "wait"} /\ s = "others" => pc[s] = "idle"
    BY <1>3 DEF Lock, Waiting, MuxInv, MuxHeld
  <2> QED
    BY <1>1, <1>3, <2>1 DEF Lock, Goto, MuxInv, MuxHeld, OnlyInitialOverlaps
<1>4. CASE Copy(s)
  BY <1>1, <1>4 DEF Copy, Goto, MuxInv, MuxHeld, OnlyInitialOverlaps
<1>5. ASSUME NEW c \in Clients, StartWrite(s, c)
      PROVE  MuxHeld' /\ OnlyInitialOverlaps'
  <2>1. mux = s /\ pc[s] = "write"
    BY <1>5 DEF StartWrite, MuxInv, MuxHeld
  <2>2. MuxHeld'
    BY <1>1, <1>5 DEF StartWrite, Goto, MuxInv, MuxHeld
  <2>3. crashed' => pc[c] = "writing"
    BY <1>1, <1>2, <1>5, <2>1 DEF StartWrite
  <2>4. crashed' => target'[s] = c /\ c # Nobody /\ pc'[c] = "writing"
    BY <1>1, <1>5, <2>3 DEF StartWrite, Goto
  <2>5. \A r \in Senders \ {s} : target'[r] = Nobody
    BY <1>1, <1>2, <1>5, <2>1 DEF StartWrite
  <2> QED
    BY <2>2, <2>4, <2>5 DEF OnlyInitialOverlaps
<1>6. ASSUME NEW c \in Clients, WriteDone(s, c) \/ WriteFails(s, c)
      PROVE  MuxHeld' /\ OnlyInitialOverlaps'
  <2>1. /\ target[s] = c /\ target' = [target EXCEPT ![s] = Nobody]
        /\ pc' = [pc EXCEPT ![s] = "write"] /\ UNCHANGED <<mux, crashed>>
    BY <1>6 DEF WriteDone, WriteFails, Goto
  <2> QED
    BY <1>1, <2>1 DEF MuxInv, MuxHeld, OnlyInitialOverlaps
<1>7. CASE Unlock(s)
  BY <1>1, <1>7 DEF Unlock, Goto, MuxInv, MuxHeld, OnlyInitialOverlaps
<1> QED
  BY <1>3, <1>4, <1>5, <1>6, <1>7 DEF Broadcast

LEMMA MuxStep == MuxInv /\ [Next]_vars => MuxInv'
<1> SUFFICES ASSUME MuxInv, [Next]_vars PROVE MuxInv'
  OBVIOUS
<1>1. CASE UNCHANGED vars
  BY <1>1 DEF vars, MuxInv, TypeOK, MuxHeld, OnlyInitialOverlaps
<1>2. CASE Next
  <2>1. TypeOK'
    BY TypeStep DEF MuxInv
  <2>2. MuxHeld' /\ OnlyInitialOverlaps'
    BY <1>2, OtherSteps, BroadcastStep DEF Next
  <2> QED
    BY <2>1, <2>2 DEF MuxInv
<1> QED
  BY <1>1, <1>2

LEMMA MuxHolds == Spec => []MuxInv
  BY MuxInit, MuxStep, PTL DEF Spec

\* Every variable keeps its type.
THEOREM TypeCorrect == Spec => []TypeOK
  BY MuxHolds, PTL DEF MuxInv

\* Two broadcasts never write to one connection at once, and the second writer
\* that brings the edge server down meets the handler's initial state.
THEOREM OverlapsAreInitial == Spec => []OnlyInitialOverlaps
  BY MuxHolds, PTL DEF MuxInv

-------------------------------------------------------------------------------
(* The order of broadcasts *)

\* The oldest state that the next broadcast message can carry.
Bound ==
    IF mux = Nobody THEN now
    ELSE IF pc[mux] = "serf" THEN [edge |-> snap[mux].edge, serf |-> now.serf]
    ELSE snap[mux]

\* The messages of an inbox: in order, and none newer than a state.
InOrder(q) ==
    \A i, k \in DOMAIN q :
        (i < k /\ q[i].by = "broadcast" /\ q[k].by = "broadcast")
            => Leq(q[i].state, q[k].state)
Behind(q, state) ==
    \A i \in DOMAIN q : q[i].by = "broadcast" => Leq(q[i].state, state)

OrderInv ==
    /\ Leq(Bound, now)
    /\ \A c \in Clients : InOrder(inbox[c]) /\ Behind(inbox[c], Bound)

LEMMA LeqIsOrder ==
    /\ \A a \in States : Leq(a, a)
    /\ \A a, b, d \in States : Leq(a, b) /\ Leq(b, d) => Leq(a, d)
  BY DEF States, Leq

LEMMA BehindNewer ==
    ASSUME NEW q \in Seq(Messages), NEW a \in States, NEW b \in States,
           Behind(q, a), Leq(a, b)
    PROVE  Behind(q, b)
<1> SUFFICES ASSUME NEW i \in DOMAIN q, q[i].by = "broadcast"
             PROVE  Leq(q[i].state, b)
  BY DEF Behind
<1>1. q[i] \in Messages
  OBVIOUS
<1>2. q[i].state \in States /\ Leq(q[i].state, a)
  BY <1>1 DEF Messages, Behind
<1> QED
  BY <1>2, LeqIsOrder

LEMMA AppendOrdered ==
    ASSUME NEW q \in Seq(Messages), NEW m \in Messages, NEW a \in States,
           InOrder(q), Behind(q, a), m.by = "broadcast" => m.state = a
    PROVE  InOrder(Append(q, m)) /\ Behind(Append(q, m), a)
<1>1. /\ DOMAIN Append(q, m) = 1..Len(q) + 1 /\ DOMAIN q = 1..Len(q) /\ Len(q) \in Nat
      /\ \A i \in 1..Len(q) : Append(q, m)[i] = q[i]
      /\ Append(q, m)[Len(q) + 1] = m
  OBVIOUS
<1>2. m.by = "broadcast" => Leq(m.state, a)
  BY LeqIsOrder
<1>3. Behind(Append(q, m), a)
  BY <1>1, <1>2 DEF Behind
<1>4. InOrder(Append(q, m))
  <2> SUFFICES ASSUME NEW i \in 1..Len(q) + 1, NEW k \in 1..Len(q) + 1, i < k,
                      Append(q, m)[i].by = "broadcast", Append(q, m)[k].by = "broadcast"
               PROVE  Leq(Append(q, m)[i].state, Append(q, m)[k].state)
    BY <1>1 DEF InOrder
  <2>1. i \in 1..Len(q) /\ Append(q, m)[i] = q[i]
    BY <1>1
  <2>2. CASE k \in 1..Len(q)
    BY <1>1, <2>1, <2>2 DEF InOrder
  <2>3. CASE k = Len(q) + 1
    BY <1>1, <2>1, <2>3 DEF Behind
  <2> QED
    BY <1>1, <2>2, <2>3
<1> QED
  BY <1>3, <1>4

LEMMA TailOrdered ==
    ASSUME NEW q \in Seq(Messages), q # <<>>, NEW a \in States, InOrder(q), Behind(q, a)
    PROVE  InOrder(Tail(q)) /\ Behind(Tail(q), a)
<1>1. /\ DOMAIN q = 1..Len(q) /\ DOMAIN Tail(q) = 1..Len(q) - 1 /\ Len(q) \in Nat \ {0}
      /\ \A i \in 1..Len(q) - 1 : Tail(q)[i] = q[i + 1]
  OBVIOUS
<1>2. \A i \in 1..Len(q) - 1 : i + 1 \in 1..Len(q)
  BY <1>1
<1> QED
  BY <1>1, <1>2 DEF InOrder, Behind

LEMMA EmptyOrdered == InOrder(<<>>) /\ \A a \in States : Behind(<<>>, a)
  BY DEF InOrder, Behind

LEMMA BoundType == MuxInv => Bound \in States
  BY DEF MuxInv, TypeOK, MuxHeld, Bound, States, Procs

\* What the next broadcast carries only gets newer.
LEMMA BoundGrows ==
    ASSUME MuxInv, MuxInv', Leq(Bound, now), [Next]_vars
    PROVE  Leq(Bound, Bound') /\ Leq(Bound', now')
<1> USE DEF Leq, States
<1>1. /\ now \in States /\ now' \in States
      /\ snap \in [Procs -> States] /\ pc \in [Procs ->
            {"none", "idle", "wait", "register", "edge", "serf",
             "write", "writing", "read", "done", "panicked"}]
      /\ mux \in Senders \cup {Nobody}
      /\ Senders \subseteq Procs /\ Clients \subseteq Procs /\ Clients \cap Senders = {}
      /\ Nobody \notin Senders /\ Bound \in States
  BY BoundType DEF MuxInv, TypeOK, Procs
<1>2. ASSUME UNCHANGED <<mux, snap>>, Leq(now, now'),
             \A s \in Senders : mux = s => (pc[s] = "serf" <=> pc'[s] = "serf")
      PROVE  Leq(Bound, Bound') /\ Leq(Bound', now')
  BY <1>1, <1>2 DEF Bound
<1>3. ASSUME UNCHANGED <<mux, now>>, NEW c \in Clients, NEW l, NEW q \in States,
             snap' = [snap EXCEPT ![c] = q], pc' = [pc EXCEPT ![c] = l]
      PROVE  Leq(Bound, Bound') /\ Leq(Bound', now')
  BY <1>1, <1>3 DEF Bound
<1>4. CASE UNCHANGED vars
  BY <1>1, <1>2, <1>4 DEF vars
<1>5. CASE \/ \E n \in 1..2 : Post(n)
           \/ \E e \in {"update", "join", "leave"}, noticed \in BOOLEAN :
                 MemberChange(e, noticed)
           \/ Unblock \/ Completion \/ HandleEvent \/ Tick
  <2>1. UNCHANGED <<mux, snap>> /\ Leq(now, now')
    BY <1>1, <1>5 DEF Post, MemberChange, Unblock, Completion, HandleEvent, Tick, Change
  <2>2. pc' = pc \/ (pc["events"] = "idle" /\ pc' = [pc EXCEPT !["events"] = "wait"])
    BY <1>5 DEF Post, MemberChange, Unblock, Completion, HandleEvent, Tick, Goto
  <2>3. \A s \in Senders : mux = s => (pc[s] = "serf" <=> pc'[s] = "serf")
    BY <1>1, <2>2 DEF MuxInv, MuxHeld, Senders
  <2> QED
    BY <1>2, <2>1, <2>3
<1>6. ASSUME NEW s \in Senders, Broadcast(s)
      PROVE  Leq(Bound, Bound') /\ Leq(Bound', now')
  <2>1. CASE Lock(s)
    BY <1>1, <2>1 DEF Lock, Goto, Bound
  <2>2. CASE Copy(s)
    <3>1. mux = s
      BY <2>2 DEF Copy, MuxInv, MuxHeld
    <3> QED
      BY <1>1, <2>2, <3>1 DEF Copy, Goto, Bound
  <2>3. ASSUME NEW c \in Clients, StartWrite(s, c) \/ WriteDone(s, c) \/ WriteFails(s, c)
        PROVE  Leq(Bound, Bound') /\ Leq(Bound', now')
    <3>1. pc[s] \in {"write", "writing"} /\ mux = s
      BY <2>3 DEF StartWrite, WriteDone, WriteFails, MuxInv, MuxHeld
    <3>2. UNCHANGED <<mux, snap, now>> /\ pc'[s] # "serf"
      BY <1>1, <2>3 DEF StartWrite, WriteDone, WriteFails, Goto
    <3> QED
      BY <1>1, <1>2, <3>1, <3>2
  <2>4. CASE Unlock(s)
    <3>1. mux = s /\ mux' = Nobody /\ now' = now
      BY <2>4 DEF Unlock, MuxInv, MuxHeld
    <3> QED
      BY <1>1, <3>1 DEF Bound
  <2> QED
    BY <1>6, <2>1, <2>2, <2>3, <2>4 DEF Broadcast
<1>7. ASSUME NEW c \in Clients, Connect(c) \/ Handler(c) \/ Show(c) \/ Disconnect(c)
      PROVE  Leq(Bound, Bound') /\ Leq(Bound', now')
  <2>1. UNCHANGED <<mux, now>>
    BY <1>7 DEF Connect, Handler, Register, ReadEdge, ReadSerf, StartInitial,
                InitialDone, ReadFails, Show, Disconnect
  <2>2. /\ \E l : pc' = [pc EXCEPT ![c] = l]
        /\ \E q \in States : snap' = [snap EXCEPT ![c] = q]
    <3>1. pc = [pc EXCEPT ![c] = pc[c]] /\ snap = [snap EXCEPT ![c] = snap[c]]
      BY <1>1
    <3>2. \E l : pc' = [pc EXCEPT ![c] = l]
      BY <1>7, <3>1 DEF Connect, Handler, Register, ReadEdge, ReadSerf, StartInitial,
                        InitialDone, ReadFails, Show, Disconnect, Goto
    <3>3. \/ snap' = snap
          \/ snap' = [snap EXCEPT ![c] = [edge |-> now.edge, serf |-> 0]]
          \/ snap' = [snap EXCEPT ![c] = [edge |-> snap[c].edge, serf |-> now.serf]]
          \/ snap' = [snap EXCEPT ![c] = Unread]
      BY <1>7 DEF Connect, Handler, Register, ReadEdge, ReadSerf, StartInitial,
                  InitialDone, ReadFails, Show, Disconnect
    <3>4. /\ [edge |-> now.edge, serf |-> 0] \in States /\ snap[c] \in States
          /\ [edge |-> snap[c].edge, serf |-> now.serf] \in States /\ Unread \in States
      BY <1>1 DEF Unread
    <3> QED
      BY <3>1, <3>2, <3>3, <3>4
  <2> QED
    BY <1>3, <2>1, <2>2
<1> QED
  BY <1>4, <1>5, <1>6, <1>7 DEF Next

\* How one step changes the inboxes.
LEMMA InboxSteps ==
    ASSUME MuxInv, Next
    PROVE  \/ inbox' = inbox
           \/ \E c \in Clients :
                 \/ inbox' = [inbox EXCEPT ![c] = <<>>]
                 \/ inbox[c] # <<>> /\ inbox' = [inbox EXCEPT ![c] = Tail(inbox[c])]
                 \/ \E m \in Messages :
                       /\ inbox' = [inbox EXCEPT ![c] = Append(inbox[c], m)]
                       /\ m.by = "broadcast" => m.state = Bound
<1>1. CASE \/ \E n \in 1..2 : Post(n)
           \/ \E e \in {"update", "join", "leave"}, noticed \in BOOLEAN :
                 MemberChange(e, noticed)
           \/ Unblock \/ Completion \/ HandleEvent \/ Tick
  BY <1>1 DEF Post, MemberChange, Unblock, Completion, HandleEvent, Tick
<1>2. ASSUME NEW s \in Senders, Broadcast(s)
      PROVE  \/ inbox' = inbox
             \/ \E c \in Clients : \E m \in Messages :
                   /\ inbox' = [inbox EXCEPT ![c] = Append(inbox[c], m)]
                   /\ m.by = "broadcast" => m.state = Bound
  <2>1. CASE Lock(s) \/ Copy(s) \/ Unlock(s)
    BY <2>1 DEF Lock, Copy, Unlock
  <2>2. ASSUME NEW c \in Clients, StartWrite(s, c) \/ WriteFails(s, c)
        PROVE  inbox' = inbox
    BY <2>2 DEF StartWrite, WriteFails
  <2>3. ASSUME NEW c \in Clients, WriteDone(s, c)
        PROVE  \E m \in Messages :
                   /\ inbox' = [inbox EXCEPT ![c] = Append(inbox[c], m)]
                   /\ m.by = "broadcast" => m.state = Bound
    <3>1. mux = s /\ pc[s] = "writing" /\ s # Nobody
      BY <2>3 DEF WriteDone, MuxInv, MuxHeld
    <3>2. snap[s] = Bound /\ Bound \in States
      BY <3>1, BoundType DEF Bound
    <3>3. [by |-> "broadcast", state |-> snap[s]] \in Messages
      BY <3>2 DEF Messages
    <3> QED
      BY <2>3, <3>2, <3>3 DEF WriteDone
  <2> QED
    BY <1>2, <2>1, <2>2, <2>3 DEF Broadcast
<1>3. ASSUME NEW c \in Clients, Connect(c) \/ Handler(c) \/ Show(c) \/ Disconnect(c)
      PROVE  \/ inbox' = inbox
             \/ inbox' = [inbox EXCEPT ![c] = <<>>]
             \/ inbox[c] # <<>> /\ inbox' = [inbox EXCEPT ![c] = Tail(inbox[c])]
             \/ \E m \in Messages :
                   /\ inbox' = [inbox EXCEPT ![c] = Append(inbox[c], m)]
                   /\ m.by = "broadcast" => m.state = Bound
  <2>1. CASE Connect(c) \/ Show(c) \/ Disconnect(c) \/ Register(c) \/ ReadEdge(c)
             \/ ReadSerf(c) \/ StartInitial(c) \/ ReadFails(c)
    BY <2>1 DEF Connect, Show, Disconnect, Register, ReadEdge, ReadSerf, StartInitial,
                ReadFails
  <2>2. CASE InitialDone(c)
    <3>1. snap[c] \in States
      BY DEF MuxInv, TypeOK, Procs
    <3>2. /\ [by |-> "handler", state |-> snap[c]] \in Messages
          /\ [by |-> "handler", state |-> snap[c]].by # "broadcast"
      BY <3>1 DEF Messages
    <3>3. \/ inbox' = inbox
          \/ inbox' = [inbox EXCEPT ![c] =
                          Append(inbox[c], [by |-> "handler", state |-> snap[c]])]
      BY <2>2, Zenon DEF InitialDone
    <3> QED
      BY <3>2, <3>3
  <2> QED
    BY <1>3, <2>1, <2>2 DEF Handler
<1> QED
  BY <1>1, <1>2, <1>3 DEF Next

LEMMA OrderInit == Init => OrderInv
<1> SUFFICES ASSUME Init PROVE OrderInv
  OBVIOUS
<1>1. Bound = now /\ now \in States /\ \A c \in Clients : inbox[c] = <<>>
  BY DEF Init, Bound, Unread, States
<1> QED
  BY <1>1, EmptyOrdered, LeqIsOrder DEF OrderInv

LEMMA OrderStep == MuxInv /\ MuxInv' /\ OrderInv /\ [Next]_vars => OrderInv'
<1> SUFFICES ASSUME MuxInv, MuxInv', OrderInv, [Next]_vars PROVE OrderInv'
  OBVIOUS
<1>0. Bound' \in States
  BY DEF MuxInv, TypeOK, MuxHeld, Bound, States, Procs
<1>1. Leq(Bound, Bound') /\ Leq(Bound', now') /\ Bound \in States /\ Bound' \in States
  BY <1>0, BoundGrows, BoundType DEF OrderInv
<1>2. inbox \in [Clients -> Seq(Messages)] /\ inbox' \in [Clients -> Seq(Messages)]
  BY DEF MuxInv, TypeOK
<1>3. \A c \in Clients : InOrder(inbox'[c]) /\ Behind(inbox'[c], Bound)
  <2>1. CASE inbox' = inbox
    BY <2>1 DEF OrderInv
  <2>2. ASSUME NEW c \in Clients, NEW q, inbox' = [inbox EXCEPT ![c] = q],
               InOrder(q), Behind(q, Bound)
        PROVE  \A d \in Clients : InOrder(inbox'[d]) /\ Behind(inbox'[d], Bound)
    BY <1>2, <2>2 DEF OrderInv
  <2>3. ASSUME NEW c \in Clients, inbox' = [inbox EXCEPT ![c] = <<>>]
        PROVE  \A d \in Clients : InOrder(inbox'[d]) /\ Behind(inbox'[d], Bound)
    BY <1>1, <2>2, <2>3, EmptyOrdered
  <2>4. ASSUME NEW c \in Clients, inbox[c] # <<>>,
               inbox' = [inbox EXCEPT ![c] = Tail(inbox[c])]
        PROVE  \A d \in Clients : InOrder(inbox'[d]) /\ Behind(inbox'[d], Bound)
    <3>1. InOrder(Tail(inbox[c])) /\ Behind(Tail(inbox[c]), Bound)
      BY <1>1, <1>2, <2>4, TailOrdered DEF OrderInv
    <3> QED
      BY <2>2, <2>4, <3>1
  <2>5. ASSUME NEW c \in Clients, NEW m \in Messages,
               inbox' = [inbox EXCEPT ![c] = Append(inbox[c], m)],
               m.by = "broadcast" => m.state = Bound
        PROVE  \A d \in Clients : InOrder(inbox'[d]) /\ Behind(inbox'[d], Bound)
    <3>1. InOrder(Append(inbox[c], m)) /\ Behind(Append(inbox[c], m), Bound)
      BY <1>1, <1>2, <2>5, AppendOrdered DEF OrderInv
    <3> QED
      BY <2>2, <2>5, <3>1
  <2>6. CASE UNCHANGED vars
    BY <2>1, <2>6 DEF vars
  <2> QED
    BY <2>1, <2>3, <2>4, <2>5, <2>6, InboxSteps
<1>4. \A c \in Clients : Behind(inbox'[c], Bound')
  BY <1>1, <1>2, <1>3, BehindNewer
<1> QED
  BY <1>1, <1>3, <1>4 DEF OrderInv

\* No dashboard gets an older broadcast after a newer one, whenever it
\* connects and whatever its handler writes in between.
THEOREM BroadcastOrder == Spec => []BroadcastsInOrder
<1>1. OrderInv => BroadcastsInOrder
  BY DEF OrderInv, InOrder, BroadcastsInOrder
<1> QED
  BY <1>1, MuxHolds, OrderInit, OrderStep, PTL DEF Spec

-------------------------------------------------------------------------------
(* No change passes a dashboard by *)

\* Only a connection that has been opened has a handler or is registered.
Known ==
    \A c \in Clients : conn[c] = "none" => pc[c] = "none" /\ c \notin clients

NewsInv == Known /\ NewsIsOnItsWay

LEMMA NewsInit == Init => NewsInv
  BY DEF Init, NewsInv, Known, NewsIsOnItsWay, Procs, Senders

\* Where the variables that the proof is about live.
LEMMA NewsTypes ==
    MuxInv =>
        /\ now \in States /\ snap \in [Procs -> States] /\ spawned \in Nat
        /\ pc \in [Procs -> {"none", "idle", "wait", "register", "edge", "serf",
                             "write", "writing", "read", "done", "panicked"}]
        /\ Senders \subseteq Procs /\ Clients \subseteq Procs
        /\ Clients \cap Senders = {} /\ Nobody \notin Clients \cup Senders
        /\ todo \in [Senders -> SUBSET Clients]
        /\ target \in [Senders -> Clients \cup {Nobody}]
        /\ clients \subseteq Clients
        /\ conn \in [Clients -> {"none", "open", "closed"}]
        /\ inbox \in [Clients -> Seq(Messages)]
        /\ screen \in [Clients -> {"behind", "current", "overwritten"}]
        /\ eventCh \in Seq(EventKinds)
  BY DEF MuxInv, TypeOK, Procs

LEMMA KnownStep == MuxInv /\ Known /\ [Next]_vars => Known'
<1> SUFFICES ASSUME MuxInv, Known, [Next]_vars PROVE Known'
  OBVIOUS
<1> USE NewsTypes DEF Known
<1>1. CASE UNCHANGED vars
  BY <1>1 DEF vars
<1>2. CASE \/ \E n \in 1..2 : Post(n)
           \/ \E e \in {"update", "join", "leave"}, noticed \in BOOLEAN :
                 MemberChange(e, noticed)
           \/ Unblock \/ Completion \/ HandleEvent \/ Tick
  <2>1. UNCHANGED <<conn, clients>>
    BY <1>2 DEF Post, MemberChange, Unblock, Completion, HandleEvent, Tick
  <2>2. pc' = pc \/ pc' = [pc EXCEPT !["events"] = "wait"]
    BY <1>2 DEF Post, MemberChange, Unblock, Completion, HandleEvent, Tick, Goto
  <2>3. \A c \in Clients : pc'[c] = pc[c]
    BY <2>2 DEF Senders
  <2> QED
    BY <2>1, <2>3
<1>3. ASSUME NEW s \in Senders, Broadcast(s)
      PROVE  Known'
  <2>1. conn' = conn /\ clients' \subseteq clients /\ \E l : pc' = [pc EXCEPT ![s] = l]
    <3>1. pc = [pc EXCEPT ![s] = pc[s]]
      OBVIOUS
    <3> QED
      BY <1>3, <3>1 DEF Broadcast, Lock, Copy, StartWrite, WriteDone, WriteFails, Unlock, Goto
  <2>2. \A c \in Clients : pc'[c] = pc[c]
    BY <2>1
  <2> QED
    BY <2>1, <2>2
<1>4. ASSUME NEW c \in Clients, Connect(c) \/ Handler(c) \/ Show(c) \/ Disconnect(c)
      PROVE  Known'
  <2>1. CASE Connect(c)
    BY <2>1 DEF Connect, Goto
  <2>2. CASE Show(c)
    BY <2>2 DEF Show
  <2>3. CASE Disconnect(c)
    BY <2>3 DEF Disconnect
  <2>4. CASE Handler(c)
    <3>1. pc[c] # "none" /\ conn[c] # "none"
      BY <2>4 DEF Handler, Register, ReadEdge, ReadSerf, StartInitial, InitialDone, ReadFails
    <3>2. /\ clients' \subseteq clients \cup {c}
          /\ conn' = conn \/ conn' = [conn EXCEPT ![c] = "closed"]
          /\ \E l : pc' = [pc EXCEPT ![c] = l]
      BY <2>4 DEF Handler, Register, ReadEdge, ReadSerf, StartInitial, InitialDone,
                  ReadFails, Goto
    <3> QED
      BY <3>1, <3>2
  <2> QED
    BY <1>4, <2>1, <2>2, <2>3, <2>4
<1> QED
  BY <1>1, <1>2, <1>3, <1>4 DEF Next

\* Whoever changes the state, or takes what is to be broadcast a step further,
\* leaves a broadcast to come.
LEMMA ClusterNews ==
    ASSUME MuxInv, MuxInv',
           \/ \E n \in 1..2 : Post(n)
           \/ \E e \in {"update", "join", "leave"}, noticed \in BOOLEAN :
                 MemberChange(e, noticed)
           \/ Unblock \/ Completion \/ HandleEvent \/ Tick
    PROVE  NewsIsOnItsWay'
<1> SUFFICES Comes'
  BY DEF NewsIsOnItsWay, OnItsWay
<1>0. /\ spawned \in Nat /\ "events" \in Procs /\ eventCh \in Seq(EventKinds)
      /\ pc \in [Procs -> {"none", "idle", "wait", "register", "edge", "serf",
                           "write", "writing", "read", "done", "panicked"}]
  BY NewsTypes DEF Procs, Senders
<1>1. CASE \E n \in 1..2 : Post(n)
  BY <1>0, <1>1 DEF Post, Comes
<1>2. CASE \E e \in {"update", "join", "leave"}, noticed \in BOOLEAN :
              MemberChange(e, noticed)
  <2>1. PICK e \in {"update", "join", "leave"} :
            eventCh' = Append(eventCh, e) \/ blocked' = e
    BY <1>2 DEF MemberChange
  <2>2. e \in EventKinds /\ e # "none"
    BY DEF EventKinds
  <2>3. Append(eventCh, e) # <<>>
    BY <1>0, <2>2
  <2> QED
    BY <2>1, <2>2, <2>3 DEF Comes
<1>3. CASE Unblock \/ Completion
  <2>1. \E e : eventCh' = Append(eventCh, e)
    BY <1>3 DEF Unblock, Completion
  <2> QED
    BY <1>0, <2>1 DEF Comes
<1>4. CASE HandleEvent
  BY <1>0, <1>4 DEF HandleEvent, Goto, Comes
<1>5. CASE Tick
  BY <1>0, <1>5 DEF Tick, Comes
<1> QED
  BY <1>1, <1>2, <1>3, <1>4, <1>5

\* What a sequence of messages has, it still has with one more; and without the
\* first one, unless that was it.
Has(q, state) == \E i \in DOMAIN q : q[i].state = state

LEMMA HasMore ==
    ASSUME NEW q \in Seq(Messages), NEW state, NEW m \in Messages,
           Has(q, state) \/ m.state = state
    PROVE  Has(Append(q, m), state)
<1>1. /\ DOMAIN Append(q, m) = 1..Len(q) + 1 /\ DOMAIN q = 1..Len(q) /\ Len(q) \in Nat
      /\ \A i \in 1..Len(q) : Append(q, m)[i] = q[i]
      /\ Append(q, m)[Len(q) + 1] = m
  OBVIOUS
<1>2. Len(q) + 1 \in 1..Len(q) + 1 /\ 1..Len(q) \subseteq 1..Len(q) + 1
  BY <1>1
<1> QED
  BY <1>1, <1>2 DEF Has

LEMMA HasRest ==
    ASSUME NEW q \in Seq(Messages), NEW state, q # <<>>, Has(q, state),
           Head(q).state # state
    PROVE  Has(Tail(q), state)
<1>1. PICK i \in DOMAIN q : q[i].state = state
  BY DEF Has
<1>2. i \in 2..Len(q)
  BY <1>1
<1>3. /\ i - 1 \in DOMAIN Tail(q) /\ Tail(q)[i - 1] = q[i]
  BY <1>2
<1> QED
  BY <1>1, <1>3 DEF Has

\* A broadcast: it has read the state, or goes on with what it carries.
LEMMA BroadcastNews ==
    ASSUME MuxInv, NewsIsOnItsWay, NEW s \in Senders, Broadcast(s)
    PROVE  NewsIsOnItsWay'
<1> USE NewsTypes
<1>1. /\ now' = now /\ conn' = conn /\ screen' = screen /\ clients' \subseteq clients
      /\ UNCHANGED <<eventCh, blocked, changed>>
      /\ \E l : pc' = [pc EXCEPT ![s] = l]
      /\ \E q : snap' = [snap EXCEPT ![s] = q]
      /\ \E q : todo' = [todo EXCEPT ![s] = q]
      /\ \E q : target' = [target EXCEPT ![s] = q]
  <2>1. /\ snap = [snap EXCEPT ![s] = snap[s]] /\ todo = [todo EXCEPT ![s] = todo[s]]
        /\ target = [target EXCEPT ![s] = target[s]]
    OBVIOUS
  <2> QED
    BY <2>1 DEF Broadcast, Lock, Copy, StartWrite, WriteDone, WriteFails, Unlock, Goto
<1>2. \A c \in Clients : (pc'[c] = "edge" <=> pc[c] = "edge") /\ (Fresh(c) => Fresh(c)')
  BY <1>1 DEF Fresh
<1>3. \A r \in Senders \ {s}, c \in Clients : Carries(r, c) => Carries(r, c)'
  BY <1>1 DEF Carries, Fresh
<1>4. \A c \in Clients : Arrives(c) => Arrives(c)'
  <2>1. CASE inbox' = inbox
    BY <1>1, <2>1 DEF Arrives
  <2>2. ASSUME NEW d \in Clients, WriteDone(s, d)
        PROVE  \A c \in Clients : Arrives(c) => Arrives(c)'
    <3>1. /\ inbox' = [inbox EXCEPT ![d] =
                          Append(inbox[d], [by |-> "broadcast", state |-> snap[s]])]
          /\ [by |-> "broadcast", state |-> snap[s]] \in Messages
      BY <2>2 DEF WriteDone, Messages
    <3>2. Arrives(d) => Arrives(d)'
      <4> DEFINE m == [by |-> "broadcast", state |-> snap[s]]
      <4>1. m \in Messages /\ inbox'[d] = Append(inbox[d], m)
        BY <3>1
      <4> HIDE DEF m
      <4>2. inbox[d] \in Seq(Messages)
        OBVIOUS
      <4>3. Has(inbox[d], now) => Has(inbox'[d], now)
        BY <4>1, <4>2, HasMore
      <4> QED
        BY <1>1, <4>3 DEF Arrives, Has
    <3> QED
      BY <1>1, <3>1, <3>2 DEF Arrives
  <2> QED
    BY <2>1, <2>2 DEF Broadcast, Lock, Copy, StartWrite, WriteFails, Unlock
<1>5. SUFFICES ASSUME NEW c \in clients, conn[c] = "open", c \in Clients,
                      Comes \/ Carries(s, c)
               PROVE  OnItsWay(c)'
  <2>1. \A c \in clients : (conn[c] = "open" /\ screen[c] = "behind" /\ ~OnItsWay(c)')
                              => Comes \/ Carries(s, c)
    BY <1>2, <1>3, <1>4 DEF NewsIsOnItsWay, OnItsWay
  <2> QED
    BY <1>1, <1>5, <2>1 DEF NewsIsOnItsWay
<1>6. CASE Lock(s)
  <2>1. Fresh(s)' /\ pc'[s] = "serf"
    BY <1>6 DEF Lock, Goto, Fresh
  <2> QED
    BY <2>1 DEF OnItsWay, Carries
<1>7. ASSUME ~Lock(s), Comes
      PROVE  Comes'
  <2>1. pc[s] # "wait" /\ spawned' = spawned
    BY <1>7 DEF Broadcast, Copy, StartWrite, WriteDone, WriteFails, Unlock, MuxInv, MuxHeld
  <2>2. pc["events"] = "wait" => pc'["events"] = "wait"
    BY <1>1, <2>1 DEF Senders
  <2> QED
    BY <1>1, <1>7, <2>1, <2>2 DEF Comes
<1>8. ASSUME Carries(s, c), Copy(s)
      PROVE  Carries(s, c)'
  BY <1>5, <1>8 DEF Copy, Goto, Carries, Fresh, States
<1>9. ASSUME Carries(s, c), NEW d \in Clients, StartWrite(s, d)
      PROVE  Carries(s, c)'
  <2>1. target[s] = Nobody
    BY <1>9 DEF StartWrite, MuxInv, MuxHeld
  <2> QED
    BY <1>9, <2>1 DEF StartWrite, Goto, Carries, Fresh
<1>10. ASSUME Carries(s, c), NEW d \in Clients, WriteDone(s, d)
       PROVE  Carries(s, c)' \/ Arrives(c)'
  <2>1. pc[s] = "writing" /\ target[s] = d /\ snap[s] = now
    BY <1>10 DEF WriteDone, MuxInv, MuxHeld, Carries, Fresh
  <2>2. CASE c = d
    <3> DEFINE m == [by |-> "broadcast", state |-> snap[s]]
    <3>1. m \in Messages /\ inbox'[c] = Append(inbox[c], m) /\ m.state = now
      BY <1>10, <2>1, <2>2 DEF WriteDone, Messages
    <3> HIDE DEF m
    <3>2. inbox[c] \in Seq(Messages)
      BY <2>2
    <3>3. Has(inbox'[c], now)
      BY <3>1, <3>2, HasMore
    <3> QED
      BY <1>1, <2>2, <3>3 DEF Arrives, Has
  <2>3. CASE c # d
    BY <1>10, <2>1, <2>3 DEF WriteDone, Goto, Carries, Fresh
  <2> QED
    BY <2>2, <2>3
<1>11. ASSUME Carries(s, c), NEW d \in Clients, WriteFails(s, d)
       PROVE  Carries(s, c)'
  <2>1. pc[s] = "writing" /\ target[s] = d /\ d # c
    BY <1>5, <1>11 DEF WriteFails, MuxInv, MuxHeld
  <2> QED
    BY <1>11, <2>1 DEF WriteFails, Goto, Carries, Fresh
<1>12. ASSUME Carries(s, c), Unlock(s)
       PROVE  FALSE
  BY <1>5, <1>12 DEF Unlock, Carries, MuxInv, MuxHeld
<1> QED
  BY <1>5, <1>6, <1>7, <1>8, <1>9, <1>10, <1>11, <1>12 DEF Broadcast, OnItsWay

\* The handler of a connection, the dashboard behind it, and who closes it: the
\* other dashboards do not notice.
LEMMA HandlerNews ==
    ASSUME MuxInv, Known, NewsIsOnItsWay, NEW d \in Clients,
           Connect(d) \/ Handler(d) \/ Show(d) \/ Disconnect(d)
    PROVE  NewsIsOnItsWay'
<1> USE NewsTypes
<1>1. /\ UNCHANGED <<now, eventCh, blocked, changed, spawned, todo, target>>
      /\ \E l : pc' = [pc EXCEPT ![d] = l]
      /\ \E q : snap' = [snap EXCEPT ![d] = q]
      /\ \E q : conn' = [conn EXCEPT ![d] = q]
      /\ \E q : screen' = [screen EXCEPT ![d] = q]
      /\ \E q : inbox' = [inbox EXCEPT ![d] = q]
      /\ clients' \subseteq clients \cup {d}
  <2>1. /\ snap = [snap EXCEPT ![d] = snap[d]] /\ pc = [pc EXCEPT ![d] = pc[d]]
        /\ conn = [conn EXCEPT ![d] = conn[d]] /\ inbox = [inbox EXCEPT ![d] = inbox[d]]
        /\ screen = [screen EXCEPT ![d] = screen[d]]
    OBVIOUS
  <2> QED
    BY <2>1 DEF Connect, Handler, Show, Disconnect, Register, ReadEdge, ReadSerf,
                StartInitial, InitialDone, ReadFails, Goto
<1>2. (Comes => Comes') /\ \A s \in Senders, c \in Clients : Carries(s, c) => Carries(s, c)'
  BY <1>1 DEF Comes, Carries, Fresh, Senders
<1>3. \A c \in Clients \ {d} : OnItsWay(c) => OnItsWay(c)'
  <2>1. \A c \in Clients \ {d} : (pc[c] = "edge" => pc'[c] = "edge") /\ (Fresh(c) => Fresh(c)')
    BY <1>1 DEF Fresh
  <2>2. \A c \in Clients \ {d} : Arrives(c) => Arrives(c)'
    BY <1>1 DEF Arrives
  <2> QED
    BY <1>2, <2>1, <2>2 DEF OnItsWay
<1>4. SUFFICES ASSUME d \in clients', conn'[d] = "open", screen'[d] = "behind"
               PROVE  OnItsWay(d)'
  BY <1>1, <1>3, <1>4 DEF NewsIsOnItsWay
<1>5. CASE Connect(d)
  BY <1>4, <1>5 DEF Connect, Known
<1>6. CASE Register(d)
  BY <1>6 DEF Register, Goto, OnItsWay
<1>7. CASE ReadEdge(d)
  BY <1>7 DEF ReadEdge, Goto, OnItsWay, Fresh
<1>8. CASE Disconnect(d)
  BY <1>4, <1>8 DEF Disconnect
<1>9. CASE ReadFails(d)
  BY <1>4, <1>9 DEF ReadFails
<1>10. ASSUME ReadSerf(d) \/ StartInitial(d) \/ InitialDone(d) \/ Show(d)
       PROVE  OnItsWay(d)
  <2>1. d \in clients /\ conn[d] = "open" /\ screen[d] = "behind"
    BY <1>4, <1>10 DEF ReadSerf, StartInitial, InitialDone, Show
  <2> QED
    BY <2>1 DEF NewsIsOnItsWay
<1>11. CASE ReadSerf(d)
  <2>1. (Fresh(d) => Fresh(d)') /\ (Arrives(d) => Arrives(d)')
    BY <1>1, <1>11 DEF ReadSerf, Goto, Fresh, Arrives, States
  <2> QED
    BY <1>2, <1>10, <1>11, <2>1 DEF OnItsWay, ReadSerf
<1>12. CASE StartInitial(d)
  <2>1. pc'[d] = "writing" /\ UNCHANGED <<inbox, snap>>
    BY <1>4, <1>12 DEF StartInitial, Goto
  <2>2. (Fresh(d) => Fresh(d)') /\ (Arrives(d) => Arrives(d)')
    BY <1>1, <1>12, <2>1 DEF StartInitial, Fresh, Arrives
  <2> QED
    BY <1>2, <1>10, <1>12, <2>2 DEF OnItsWay, StartInitial
<1>13. CASE InitialDone(d)
  <2> DEFINE m == [by |-> "handler", state |-> snap[d]]
  <2>1. m \in Messages /\ m.state = snap[d] /\ inbox'[d] = Append(inbox[d], m)
    BY <1>4, <1>13 DEF InitialDone, Messages
  <2> HIDE DEF m
  <2>2. Fresh(d) => snap[d] = now
    BY <1>13 DEF InitialDone, Fresh
  <2>3. Fresh(d) \/ Arrives(d) => Arrives(d)'
    <3>1. inbox[d] \in Seq(Messages)
      OBVIOUS
    <3>2. Has(inbox[d], now) \/ m.state = now => Has(inbox'[d], now)
      BY <2>1, <3>1, HasMore
    <3> QED
      BY <1>1, <2>1, <2>2, <3>2 DEF Arrives, Has
  <2> QED
    BY <1>2, <1>10, <1>13, <2>3 DEF OnItsWay, InitialDone
<1>14. CASE Show(d)
  <2>1. inbox[d] # <<>> /\ inbox'[d] = Tail(inbox[d]) /\ Head(inbox[d]).state # now
    BY <1>4, <1>14 DEF Show
  <2>2. Arrives(d) => Arrives(d)'
    <3>1. inbox[d] \in Seq(Messages)
      OBVIOUS
    <3>2. Has(inbox[d], now) => Has(inbox'[d], now)
      BY <2>1, <3>1, HasRest
    <3> QED
      BY <1>1, <3>2 DEF Arrives, Has
  <2>3. (pc[d] = "edge" => pc'[d] = "edge") /\ (Fresh(d) => Fresh(d)')
    BY <1>14 DEF Show, Fresh
  <2> QED
    BY <1>2, <1>10, <1>14, <2>2, <2>3 DEF OnItsWay
<1> QED
  BY <1>5, <1>6, <1>7, <1>8, <1>9, <1>11, <1>12, <1>13, <1>14 DEF Handler

LEMMA NewsStep == MuxInv /\ MuxInv' /\ NewsInv /\ [Next]_vars => NewsInv'
<1> SUFFICES ASSUME MuxInv, MuxInv', NewsInv, [Next]_vars PROVE NewsInv'
  OBVIOUS
<1>1. Known'
  BY KnownStep DEF NewsInv
<1>2. Known /\ NewsIsOnItsWay
  BY DEF NewsInv
<1>3. NewsIsOnItsWay'
  <2>1. CASE UNCHANGED vars
    BY <1>2, <2>1 DEF vars, NewsIsOnItsWay, OnItsWay, Comes, Fresh, Carries, Arrives
  <2>2. CASE \/ \E n \in 1..2 : Post(n)
             \/ \E e \in {"update", "join", "leave"}, noticed \in BOOLEAN :
                   MemberChange(e, noticed)
             \/ Unblock \/ Completion \/ HandleEvent \/ Tick
    BY <2>2, ClusterNews
  <2>3. ASSUME NEW s \in Senders, Broadcast(s)
        PROVE  NewsIsOnItsWay'
    BY <1>2, <2>3, BroadcastNews
  <2>4. ASSUME NEW c \in Clients, Connect(c) \/ Handler(c) \/ Show(c) \/ Disconnect(c)
        PROVE  NewsIsOnItsWay'
    BY <1>2, <2>4, HandlerNews
  <2> QED
    BY <2>1, <2>2, <2>3, <2>4 DEF Next
<1> QED
  BY <1>1, <1>3 DEF NewsInv

\* No change passes a dashboard by: as long as a registered connection is open
\* and what it shows is behind, the current state is on its way to it, whenever
\* it has connected and whatever else is written or closed meanwhile.
THEOREM NewsOnItsWay == Spec => []NewsIsOnItsWay
<1>1. NewsInv => NewsIsOnItsWay
  BY DEF NewsInv
<1> QED
  BY <1>1, MuxHolds, NewsInit, NewsStep, PTL DEF Spec

-------------------------------------------------------------------------------
(* The event loop and the broadcasts are only stuck in one way             *)

\* An event is to be handled, or a broadcast is going on or has been started.
Pending ==
    \/ eventCh # <<>> \/ spawned > 0
    \/ \E s \in Senders : pc[s] # "idle"

\* A step of the event loop, of Serf, of whoever may take the mutex, or of its
\* holder is possible; when the holder writes to a connection that takes no
\* more, the dashboard can read.
CanMove ==
    \/ eventCh # <<>> /\ pc["events"] = "idle"
    \/ blocked # "none" /\ Len(eventCh) < Capacity
    \/ mux = Nobody /\ \E s \in Senders : Waiting(s)
    \/ mux # Nobody /\ \/ pc[mux] = "serf" /\ blocked = "none"
                       \/ pc[mux] = "write"
                       \/ pc[mux] = "writing" /\ \/ conn[target[mux]] = "closed"
                                                 \/ Len(inbox[target[mux]]) < Buffer
                                                 \/ inbox[target[mux]] # <<>>

\* While something is pending, somebody can take a step that it waits for,
\* unless the members' lock, the mutex and the full channel wait for each other.
StuckOneWay == (~crashed /\ Pending) => Stuck \/ CanMove

\* eventCh never takes more than it has room for, and broadcasts write to
\* connections that have been opened.
Filled ==
    /\ Len(eventCh) <= Capacity
    /\ \A s \in Senders : \A c \in Clients :
          c \in todo[s] \/ target[s] = c => conn[c] # "none"

LEMMA FilledInit == Init => Filled
  BY DEF Init, Filled

LEMMA FilledStep == MuxInv /\ Known /\ Filled /\ [Next]_vars => Filled'
<1> SUFFICES ASSUME MuxInv, Known, Filled, [Next]_vars PROVE Filled'
  OBVIOUS
<1> USE NewsTypes DEF Filled
<1>1. CASE UNCHANGED vars
  BY <1>1 DEF vars
<1>2. CASE \/ \E n \in 1..2 : Post(n)
           \/ \E e \in {"update", "join", "leave"}, noticed \in BOOLEAN :
                 MemberChange(e, noticed)
           \/ Unblock \/ Completion \/ HandleEvent \/ Tick
  <2>1. UNCHANGED <<conn, todo, target>>
    BY <1>2 DEF Post, MemberChange, Unblock, Completion, HandleEvent, Tick
  <2>2. \/ eventCh' = eventCh
        \/ eventCh # <<>> /\ eventCh' = Tail(eventCh)
        \/ Len(eventCh) < Capacity /\ \E e \in EventKinds : eventCh' = Append(eventCh, e)
    <3>1. blocked # "none" => blocked \in EventKinds
      BY DEF MuxInv, TypeOK
    <3>2. {"update", "join", "leave", "completion"} \subseteq EventKinds
      BY DEF EventKinds
    <3> QED
      BY <1>2, <3>1, <3>2 DEF Post, MemberChange, Unblock, Completion, HandleEvent, Tick
  <2>3. Len(eventCh') <= Capacity
    BY <2>2
  <2> QED
    BY <2>1, <2>3
<1>3. ASSUME NEW s \in Senders, Broadcast(s)
      PROVE  Filled'
  <2>1. /\ UNCHANGED <<eventCh, conn>>
        /\ \A r \in Senders \ {s} : todo'[r] = todo[r] /\ target'[r] = target[r]
    BY <1>3 DEF Broadcast, Lock, Copy, StartWrite, WriteDone, WriteFails, Unlock
  <2>2. /\ todo'[s] \subseteq todo[s] \cup clients
        /\ target'[s] \in {target[s], Nobody} \cup todo[s]
    <3>1. CASE Lock(s) \/ Copy(s) \/ Unlock(s)
      BY <3>1 DEF Lock, Copy, Unlock
    <3>2. ASSUME NEW c \in Clients, StartWrite(s, c) \/ WriteDone(s, c) \/ WriteFails(s, c)
          PROVE  todo'[s] \subseteq todo[s] /\ target'[s] \in {Nobody} \cup todo[s]
      BY <3>2 DEF StartWrite, WriteDone, WriteFails
    <3> QED
      BY <1>3, <3>1, <3>2 DEF Broadcast
  <2>3. \A c \in Clients : c \in clients => conn[c] # "none"
    BY DEF Known
  <2>4. ASSUME NEW r \in Senders, NEW c \in Clients, c \in todo'[r] \/ target'[r] = c
        PROVE  conn'[c] # "none"
    <3>1. CASE r = s
      <4>1. c \in todo[s] \/ target[s] = c \/ c \in clients
        BY <2>2, <2>4, <3>1
      <4> QED
        BY <2>1, <2>3, <4>1
    <3>2. CASE r # s
      BY <2>1, <2>4, <3>2
    <3> QED
      BY <3>1, <3>2
  <2> QED
    BY <2>1, <2>4
<1>4. ASSUME NEW c \in Clients, Connect(c) \/ Handler(c) \/ Show(c) \/ Disconnect(c)
      PROVE  Filled'
  <2>1. UNCHANGED <<eventCh, todo, target>>
    BY <1>4 DEF Connect, Handler, Register, ReadEdge, ReadSerf, StartInitial,
                InitialDone, ReadFails, Show, Disconnect
  <2>2. \/ conn' = conn
        \/ conn' = [conn EXCEPT ![c] = "open"] \/ conn' = [conn EXCEPT ![c] = "closed"]
    BY <1>4 DEF Connect, Handler, Register, ReadEdge, ReadSerf, StartInitial,
                InitialDone, ReadFails, Show, Disconnect
  <2> QED
    BY <2>1, <2>2
<1> QED
  BY <1>1, <1>2, <1>3, <1>4 DEF Next

LEMMA FilledMoves ==
    ASSUME Capacity > 0, Buffer > 0, MuxInv, Filled
    PROVE  StuckOneWay
<1> SUFFICES ASSUME Pending, ~Stuck PROVE CanMove
  BY DEF StuckOneWay
<1> USE NewsTypes
<1>1. /\ mux \in Senders \cup {Nobody}
      /\ \A s \in Senders : /\ pc[s] \in {"idle", "wait", "serf", "write", "writing"}
                            /\ mux = s <=> pc[s] \in {"serf", "write", "writing"}
                            /\ target[s] # Nobody <=> pc[s] = "writing"
                            /\ s = "others" => pc[s] # "wait"
      /\ "events" \in Senders /\ "others" \in Senders
      /\ Senders = {"events", "others"}
  BY DEF MuxInv, MuxHeld, TypeOK, Senders
<1>2. Len(eventCh) \in Nat /\ Len(eventCh) <= Capacity /\ (eventCh = <<>> <=> Len(eventCh) = 0)
  BY DEF Filled
<1>3. CASE mux = Nobody
  <2>1. \A s \in Senders : pc[s] \in {"idle", "wait"}
    BY <1>1, <1>3
  <2>2. CASE pc["events"] = "wait"
    BY <1>1, <1>3, <2>2 DEF Waiting, CanMove
  <2>3. CASE pc["events"] = "idle" /\ eventCh # <<>>
    BY <2>3 DEF CanMove
  <2>4. CASE pc["events"] = "idle" /\ eventCh = <<>>
    <3>1. pc["others"] = "idle" /\ spawned > 0
      BY <1>1, <2>1, <2>4 DEF Pending
    <3> QED
      BY <1>1, <1>3, <3>1 DEF Waiting, CanMove
  <2> QED
    BY <1>1, <2>1, <2>2, <2>3, <2>4
<1>4. CASE mux # Nobody /\ pc[mux] = "serf"
  <2>1. CASE blocked = "none"
    BY <1>4, <2>1 DEF CanMove
  <2>2. CASE blocked # "none" /\ Len(eventCh) < Capacity
    BY <2>2 DEF CanMove
  <2>3. CASE blocked # "none" /\ Len(eventCh) = Capacity
    <3>1. pc["events"] = "idle"
      BY <1>4, <2>3 DEF Stuck
    <3>2. eventCh # <<>>
      BY <1>2, <2>3
    <3> QED
      BY <3>1, <3>2 DEF CanMove
  <2> QED
    BY <1>2, <2>1, <2>2, <2>3
<1>5. CASE mux # Nobody /\ pc[mux] = "write"
  BY <1>5 DEF CanMove
<1>6. CASE mux # Nobody /\ pc[mux] = "writing"
  <2>1. mux \in Senders /\ target[mux] \in Clients
    BY <1>1, <1>6
  <2>2. conn[target[mux]] \in {"open", "closed"}
    BY <2>1 DEF Filled
  <2>3. Len(inbox[target[mux]]) < Buffer \/ inbox[target[mux]] # <<>>
    BY <2>1
  <2> QED
    BY <1>6, <2>3 DEF CanMove
<1> QED
  BY <1>1, <1>3, <1>4, <1>5, <1>6

\* Neither a dashboard that does not read, nor one that goes, nor the order in
\* which broadcasts and events come can hold up the event loop for good: what
\* EventsHandled needs of every state. eventCh has 64 places in the code.
THEOREM OnlyStuckStops == Capacity > 0 /\ Buffer > 0 /\ Spec => []StuckOneWay
<1> SUFFICES ASSUME Capacity > 0, Buffer > 0 PROVE Spec => []StuckOneWay
  OBVIOUS
<1>1. Init => NewsInv /\ Filled
  BY NewsInit, FilledInit
<1>2. MuxInv /\ MuxInv' /\ NewsInv /\ Filled /\ [Next]_vars => NewsInv' /\ Filled'
  BY NewsStep, FilledStep DEF NewsInv
<1>3. MuxInv /\ Filled => StuckOneWay
  BY FilledMoves
<1> QED
  BY MuxHolds, <1>1, <1>2, <1>3, PTL DEF Spec
===============================================================================
