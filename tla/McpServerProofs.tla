-------------------------- MODULE McpServerProofs --------------------------
(***************************************************************************)
(* Proofs about the MCP server's refuse-and-record gate, for any number of *)
(* clients, tenants, tools, arguments and deployments, any bound on the    *)
(* faults and any on the sessions the connector keeps.                     *)
(*                                                                         *)
(* A row only ever moves from none to pending to a decision, and then      *)
(* stands.  So what a message being handled concluded from the row it read *)
(* (Proper) stays true over whatever anybody else does before it acts.     *)
(***************************************************************************)
EXTENDS McpServer, SequenceTheorems, TLAPS

-----------------------------------------------------------------------------
(* The sessions the MCP connector keeps. *)

(* A handle names a session the server opened; one a caller is about to use *)
(* or keep was opened with its own credential.                              *)
HandlesKnown ==
    /\ \A w \in Caller : link[w].handle \in 0..Len(opened)
    /\ \A i \in DOMAIN sessions : sessions[i].handle \in 0..Len(opened)
    /\ \A w \in Caller : link[w].pc = "notifying" /\ link[w].handle # NoHandle =>
          opened[link[w].handle] = <<link[w].tenant, link[w].connection>>

LinkInv == LinkTypeOK /\ SessionsStayHome /\ HandlesKnown

SessionEntry == [key : Tenant \X Connection, handle : Nat]
LinkLocals == [pc : {"idle", "initializing", "notifying", "calling"},
               tenant : Tenant, connection : Connection,
               handle : Nat, resources : BOOLEAN]

LEMMA IdleIsALink == Idle \in LinkLocals /\ Idle.pc = "idle" /\ Idle.handle = 0
BY SessionsAssumption DEF Idle, LinkLocals, NoHandle

LEMMA LinkInitHolds == LinkInit => LinkInv
<1> SUFFICES ASSUME LinkInit PROVE LinkInv
  OBVIOUS
<1>1. Len(sessions) = 0 /\ sessions \in Seq(SessionEntry) /\ DOMAIN sessions = {}
  BY DEF LinkInit
<1>2. Len(opened) = 0 /\ opened \in Seq(Tenant \X Connection)
  BY DEF LinkInit
<1>3. link \in [Caller -> LinkLocals] /\ \A w \in Caller : link[w].pc = "idle" /\ link[w].handle = 0
  BY IdleIsALink DEF LinkInit
<1>4. LinkTypeOK
  BY <1>1, <1>2, <1>3, SessionsAssumption DEF LinkInit, LinkTypeOK, SessionEntry, LinkLocals
<1>5. SessionsStayHome /\ HandlesKnown
  BY <1>1, <1>2, <1>3 DEF SessionsStayHome, HandlesKnown, NoHandle
<1> QED
  BY <1>4, <1>5 DEF LinkInv

(* The oldest gives way. *)
LEMMA RoomKeeps ==
  ASSUME NEW map \in Seq(SessionEntry), Len(map) <= MaxSessions,
         \A i, j \in DOMAIN map : map[i].key = map[j].key => i = j
  PROVE  /\ RoomAfter(map) \in Seq(SessionEntry)
         /\ Len(RoomAfter(map)) < MaxSessions
         /\ \A i, j \in DOMAIN RoomAfter(map) :
              RoomAfter(map)[i].key = RoomAfter(map)[j].key => i = j
         /\ \A i \in DOMAIN RoomAfter(map) : \E j \in DOMAIN map : RoomAfter(map)[i] = map[j]
<1>1. CASE Len(map) >= MaxSessions
  <2>1. map # <<>> /\ RoomAfter(map) = Tail(map)
    BY <1>1, SessionsAssumption DEF RoomAfter
  <2>2. /\ Tail(map) \in Seq(SessionEntry) /\ Len(Tail(map)) = Len(map) - 1
        /\ \A i \in 1..(Len(map) - 1) : Tail(map)[i] = map[i + 1]
    BY <2>1
  <2>3. DOMAIN Tail(map) = 1..(Len(map) - 1) /\ DOMAIN map = 1..Len(map)
    BY <2>2
  <2> QED
    BY <2>1, <2>2, <2>3, SessionsAssumption
<1>2. CASE Len(map) < MaxSessions
  BY <1>2, SessionsAssumption DEF RoomAfter
<1> QED
  BY <1>1, <1>2, SessionsAssumption

(* The map stays a map; what is in it is what was, or the new entry. *)
LEMMA StoredKeeps ==
  ASSUME NEW map \in Seq(SessionEntry), Len(map) < MaxSessions,
         \A i, j \in DOMAIN map : map[i].key = map[j].key => i = j,
         NEW key \in Tenant \X Connection, NEW handle \in Nat
  PROVE  LET s == Stored(map, key, handle) IN
         /\ s \in Seq(SessionEntry)
         /\ Len(s) <= MaxSessions
         /\ \A i, j \in DOMAIN s : s[i].key = s[j].key => i = j
         /\ \A i \in DOMAIN s : s[i] = [key |-> key, handle |-> handle]
                                \/ \E j \in DOMAIN map : s[i] = map[j]
<1> DEFINE new == [key |-> key, handle |-> handle]
           there == \E i \in DOMAIN map : map[i].key = key
           s == Stored(map, key, handle)
<1>1. new \in SessionEntry /\ new.key = key
  BY DEF SessionEntry
<1>2. CASE there
  <2>1. s = [i \in DOMAIN map |-> IF map[i].key = key THEN new ELSE map[i]]
    BY <1>2 DEF Stored
  <2>2. DOMAIN map = 1..Len(map) /\ Len(map) \in Nat /\ \A i \in DOMAIN map : map[i] \in SessionEntry
    OBVIOUS
  <2>3. s \in [1..Len(map) -> SessionEntry]
    BY <2>1, <2>2, <1>1
  <2>4. s \in Seq(SessionEntry) /\ Len(s) = Len(map) /\ DOMAIN s = DOMAIN map
    BY <2>2, <2>3, SeqDef
  <2>5. \A i \in DOMAIN s : s[i].key = map[i].key
    BY <2>1, <1>1
  <2> QED
    BY <2>1, <2>4, <2>5, SessionsAssumption
<1>3. CASE ~ there
  <2>1. s = Append(map, new)
    BY <1>3 DEF Stored
  <2>2. s \in Seq(SessionEntry) /\ Len(s) = Len(map) + 1 /\ s[Len(map) + 1] = new
        /\ \A i \in 1..Len(map) : s[i] = map[i]
    BY <2>1, <1>1
  <2>3. DOMAIN s = 1..(Len(map) + 1) /\ DOMAIN map = 1..Len(map)
    BY <2>2
  <2>4. Len(s) <= MaxSessions
    BY <2>2, SessionsAssumption
  <2>5. \A i \in DOMAIN s : (i \in DOMAIN map /\ s[i] = map[i]) \/ (i = Len(map) + 1 /\ s[i] = new)
    BY <2>2, <2>3
  <2>6. \A i \in DOMAIN map : map[i].key # key
    BY <1>3
  <2> HIDE DEF s, new
  <2>7. \A i, j \in DOMAIN s : s[i].key = s[j].key => i = j
    BY <1>1, <2>5, <2>6
  <2> QED
    BY <2>2, <2>4, <2>5, <2>7 DEF s, new
<1> QED
  BY <1>2, <1>3

-----------------------------------------------------------------------------
(* Replacing the locals of one call. *)
Fine(me) ==
    /\ me \in LinkLocals
    /\ me.handle \in 0..Len(opened)
    /\ me.pc \in {"notifying", "calling"} /\ me.handle # NoHandle =>
            opened[me.handle] = <<me.tenant, me.connection>>

LEMMA LinkSet ==
  ASSUME LinkInv, NEW w \in Caller, NEW me, Fine(me),
         link' = [link EXCEPT ![w] = me], UNCHANGED <<sessions, opened, alive>>
  PROVE  LinkInv'
<1> USE DEF Fine
<1>1. link \in [Caller -> LinkLocals] /\ link' \in [Caller -> LinkLocals]
  BY DEF LinkInv, LinkTypeOK, LinkLocals
<1>2. \A v \in Caller : link'[v] = IF v = w THEN me ELSE link[v]
  BY <1>1
<1>3. LinkTypeOK'
  BY <1>1 DEF LinkInv, LinkTypeOK, LinkLocals
<1>4. SessionsStayHome'
  BY <1>2 DEF LinkInv, SessionsStayHome
<1>5. HandlesKnown'
  BY <1>2 DEF LinkInv, HandlesKnown
<1> QED
  BY <1>3, <1>4, <1>5 DEF LinkInv

LEMMA EndKeeps ==
  ASSUME LinkInv, NEW w \in Caller, End(w), UNCHANGED <<sessions, opened, alive>>
  PROVE  LinkInv'
<1>1. Len(opened) \in Nat
  BY DEF LinkInv, LinkTypeOK
<1>2. Fine(Idle)
  BY <1>1, IdleIsALink DEF Fine, NoHandle
<1>3. link' = [link EXCEPT ![w] = Idle]
  BY DEF End
<1> QED
  BY <1>2, <1>3, LinkSet, Zenon

(* A kept session is used by whom it was opened for. *)
LEMMA BeginKeeps ==
  ASSUME LinkInv, NEW w \in Caller, NEW t \in Tenant, NEW c \in Connection, Begin(w, t, c)
  PROVE  LinkInv'
<1> DEFINE key == SessionKey(t, c)
           me == [Idle EXCEPT !.tenant = t, !.connection = c]
           known == [me EXCEPT !.pc = "calling", !.handle = HandleOf(key)]
           fresh == [me EXCEPT !.pc = "initializing"]
<1>1. Len(opened) \in Nat
  BY DEF LinkInv, LinkTypeOK
<1>2. me \in LinkLocals /\ me.handle = 0 /\ me.tenant = t /\ me.connection = c
  BY IdleIsALink DEF LinkLocals
<1>3. CASE Known(key)
  <2>1. PICK i \in DOMAIN sessions : HandleOf(key) = sessions[i].handle /\ sessions[i].key = key
    BY <1>3 DEF Known, HandleOf
  <2>2. HandleOf(key) \in 0..Len(opened) /\ HandleOf(key) \in Nat
    BY <1>1, <2>1 DEF LinkInv, HandlesKnown
  <2>3. HandleOf(key) # NoHandle => opened[HandleOf(key)] = <<t, c>>
    BY <2>1 DEF LinkInv, SessionsStayHome, SessionKey
  <2> HIDE DEF me, key
  <2>4. /\ known \in LinkLocals /\ known.pc = "calling" /\ known.handle = HandleOf(key)
        /\ known.tenant = t /\ known.connection = c
    BY <1>2, <2>2 DEF LinkLocals
  <2>5. link' = [link EXCEPT ![w] = known] /\ UNCHANGED <<sessions, opened, alive>>
    BY <1>3 DEF Begin, me, key
  <2> HIDE DEF known
  <2>6. Fine(known)
    BY <2>2, <2>3, <2>4 DEF Fine
  <2> QED
    BY <2>5, <2>6, LinkSet, Zenon
<1>4. CASE ~ Known(key)
  <2>1. fresh \in LinkLocals /\ fresh.pc = "initializing" /\ fresh.handle = 0
    BY <1>2 DEF LinkLocals
  <2>2. link' = [link EXCEPT ![w] = fresh] /\ UNCHANGED <<sessions, opened, alive>>
    BY <1>4 DEF Begin
  <2> HIDE DEF fresh
  <2>3. Fine(fresh)
    BY <1>1, <2>1 DEF Fine, NoHandle
  <2> QED
    BY <2>2, <2>3, LinkSet, Zenon
<1> QED
  BY <1>3, <1>4

(* A session that is opened is opened for the caller; the others stay whose *)
(* they were.                                                               *)
LEMMA InitializeKeeps ==
  ASSUME LinkInv, NEW w \in Caller, NEW hands \in BOOLEAN, NEW resources \in BOOLEAN,
         Initialize(w, hands, resources)
  PROVE  LinkInv'
<1> DEFINE pair == <<link[w].tenant, link[w].connection>>
           me(h) == [link[w] EXCEPT !.pc = "notifying", !.resources = resources, !.handle = h]
<1>0. /\ link \in [Caller -> LinkLocals] /\ link[w] \in LinkLocals
      /\ opened \in Seq(Tenant \X Connection) /\ Len(opened) \in Nat
  BY DEF LinkInv, LinkTypeOK, LinkLocals
<1>1. ASSUME NEW h \in Nat
      PROVE  /\ me(h) \in LinkLocals /\ me(h).pc = "notifying" /\ me(h).handle = h
             /\ me(h).tenant = link[w].tenant /\ me(h).connection = link[w].connection
  BY <1>0 DEF LinkLocals
<1>2. CASE ~ hands
  <2>1. link' = [link EXCEPT ![w] = me(0)] /\ UNCHANGED <<sessions, opened, alive>>
    BY <1>2 DEF Initialize, NoHandle
  <2>2. me(0) \in LinkLocals /\ me(0).handle = 0
    BY <1>1
  <2> HIDE DEF me
  <2>3. Fine(me(0))
    BY <1>0, <2>2 DEF Fine, NoHandle
  <2> QED
    BY <2>1, <2>3, LinkSet, Zenon
<1>3. CASE hands
  <2> DEFINE n == Len(opened) + 1
  <2>1. /\ opened' = Append(opened, pair) /\ alive' = alive \cup {Len(opened')}
        /\ UNCHANGED sessions
    BY <1>3 DEF Initialize
  <2>2. pair \in Tenant \X Connection
    BY <1>0 DEF LinkLocals
  <2>3. /\ opened' \in Seq(Tenant \X Connection) /\ Len(opened') = n /\ opened'[n] = pair
        /\ DOMAIN opened' = 1..n /\ DOMAIN opened = 1..Len(opened)
        /\ \A h \in 1..Len(opened) : opened'[h] = opened[h]
    BY <1>0, <2>1, <2>2
  <2>4. link' = [link EXCEPT ![w] = me(n)]
    BY <1>3, <2>3 DEF Initialize
  <2>6. n \in Nat /\ n # 0 /\ me(n) \in LinkLocals
    <3>1. n \in Nat /\ n # 0
      BY <1>0
    <3> HIDE DEF n, me
    <3> QED
      BY <1>1, <3>1
  <2>5. link' \in [Caller -> LinkLocals]
        /\ \A v \in Caller : link'[v] = IF v = w THEN me(n) ELSE link[v]
    <3> HIDE DEF me, n
    <3> DEFINE new == me(n)
    <3>1. new \in LinkLocals /\ link' = [link EXCEPT ![w] = new]
      BY <2>4, <2>6
    <3> HIDE DEF new
    <3>2. link' \in [Caller -> LinkLocals]
          /\ \A v \in Caller : link'[v] = IF v = w THEN new ELSE link[v]
      BY <1>0, <3>1
    <3> QED
      BY <3>2 DEF new
  <2>7. LinkTypeOK'
    BY <1>0, <2>1, <2>3, <2>5, <2>6 DEF LinkInv, LinkTypeOK, LinkLocals
  <2>8. me(n).handle = n /\ me(n).pc = "notifying" /\ <<me(n).tenant, me(n).connection>> = pair
    BY <1>1, <2>6
  <2> HIDE DEF me
  <2>9. \A h \in 0..Len(opened) : h # NoHandle => opened'[h] = opened[h]
    BY <1>0, <2>3 DEF NoHandle
  <2>10. SessionsStayHome'
    <3>1. \A v \in Caller : link'[v].pc = "calling" => link'[v] = link[v]
      BY <2>5, <2>8
    <3>2. ASSUME NEW v \in Caller, link'[v].pc = "calling", link'[v].handle # NoHandle
          PROVE  opened'[link'[v].handle] = <<link'[v].tenant, link'[v].connection>>
      <4>1. link'[v] = link[v]
        BY <3>1, <3>2
      <4>2. /\ link[v].handle \in 0..Len(opened) /\ link[v].handle # NoHandle
            /\ opened[link[v].handle] = <<link[v].tenant, link[v].connection>>
        BY <3>2, <4>1 DEF LinkInv, SessionsStayHome, HandlesKnown
      <4> QED
        BY <2>9, <4>1, <4>2
    <3>3. ASSUME NEW i \in DOMAIN sessions, sessions[i].handle # NoHandle
          PROVE  opened'[sessions[i].handle] = sessions[i].key
      BY <2>9, <3>3 DEF LinkInv, SessionsStayHome, HandlesKnown
    <3> QED
      BY <2>1, <3>2, <3>3 DEF SessionsStayHome
  <2>11. HandlesKnown'
    <3>1. 0..Len(opened) \subseteq 0..Len(opened')
      BY <1>0, <2>3
    <3>2. ASSUME NEW v \in Caller PROVE link'[v].handle \in 0..Len(opened')
      <4>1. CASE v = w
        <5>1. link'[v].handle = n
          BY <2>5, <2>8, <4>1
        <5> QED
          BY <1>0, <2>3, <5>1
      <4>2. CASE v # w
        BY <2>5, <3>1, <4>2 DEF LinkInv, HandlesKnown
      <4> QED
        BY <4>1, <4>2
    <3>3. \A i \in DOMAIN sessions' : sessions'[i].handle \in 0..Len(opened')
      BY <2>1, <3>1 DEF LinkInv, HandlesKnown
    <3>4. ASSUME NEW v \in Caller, link'[v].pc = "notifying", link'[v].handle # NoHandle
          PROVE  opened'[link'[v].handle] = <<link'[v].tenant, link'[v].connection>>
      <4>1. CASE v = w
        <5>1. link'[v] = me(n)
          BY <2>5, <4>1
        <5> QED
          BY <2>3, <2>8, <5>1, Zenon
      <4>2. CASE v # w
        BY <2>5, <2>9, <3>4, <4>2 DEF LinkInv, HandlesKnown
      <4> QED
        BY <4>1, <4>2
    <3> QED
      BY <3>2, <3>3, <3>4 DEF HandlesKnown
  <2> QED
    BY <2>7, <2>10, <2>11 DEF LinkInv
<1> QED
  BY <1>2, <1>3

(* What is kept is what the caller opened. *)
LEMMA NotifiedKeeps ==
  ASSUME LinkInv, NEW w \in Caller, Notified(w)
  PROVE  LinkInv'
<1>1. CASE ~ link[w].resources
  BY <1>1, EndKeeps DEF Notified
<1>2. CASE link[w].resources
  <2> DEFINE me == [link[w] EXCEPT !.pc = "calling"]
             key == SessionKey(link[w].tenant, link[w].connection)
             room == RoomAfter(sessions)
             kept == Stored(room, key, link[w].handle)
  <2>1. /\ sessions' = kept /\ link' = [link EXCEPT ![w] = me] /\ UNCHANGED <<opened, alive>>
        /\ link[w].pc = "notifying"
    BY <1>2 DEF Notified
  <2>2. /\ link[w] \in LinkLocals /\ sessions \in Seq(SessionEntry) /\ Len(sessions) <= MaxSessions
        /\ \A i, j \in DOMAIN sessions : sessions[i].key = sessions[j].key => i = j
    BY DEF LinkInv, LinkTypeOK, LinkLocals, SessionEntry
  <2>3. key \in Tenant \X Connection /\ link[w].handle \in Nat
    BY <2>2 DEF LinkLocals, SessionKey
  <2>4. /\ room \in Seq(SessionEntry) /\ Len(room) < MaxSessions
        /\ \A i, j \in DOMAIN room : room[i].key = room[j].key => i = j
        /\ \A i \in DOMAIN room : \E j \in DOMAIN sessions : room[i] = sessions[j]
    BY <2>2, RoomKeeps
  <2> HIDE DEF room
  <2>5. /\ kept \in Seq(SessionEntry) /\ Len(kept) <= MaxSessions
        /\ \A i, j \in DOMAIN kept : kept[i].key = kept[j].key => i = j
        /\ \A i \in DOMAIN kept : kept[i] = [key |-> key, handle |-> link[w].handle]
                                   \/ \E j \in DOMAIN room : kept[i] = room[j]
    BY <2>3, <2>4, StoredKeeps
  <2> HIDE DEF kept
  <2>6. me \in LinkLocals /\ me.pc = "calling" /\ me.handle = link[w].handle
        /\ me.tenant = link[w].tenant /\ me.connection = link[w].connection
    BY <2>2 DEF LinkLocals
  <2>7. link' \in [Caller -> LinkLocals]
        /\ \A v \in Caller : link'[v] = IF v = w THEN me ELSE link[v]
    BY <2>1, <2>6 DEF LinkInv, LinkTypeOK, LinkLocals
  <2> HIDE DEF me
  <2>8. LinkTypeOK'
    BY <2>1, <2>5, <2>7 DEF LinkInv, LinkTypeOK, LinkLocals, SessionEntry
  <2>9. link[w].handle # NoHandle => opened[link[w].handle] = key
    BY <2>1 DEF LinkInv, HandlesKnown, SessionKey
  <2>10. \A i \in DOMAIN kept : /\ kept[i].handle \in 0..Len(opened)
                                /\ kept[i].handle # NoHandle => opened[kept[i].handle] = kept[i].key
    <3> SUFFICES ASSUME NEW i \in DOMAIN kept
                 PROVE  /\ kept[i].handle \in 0..Len(opened)
                        /\ kept[i].handle # NoHandle => opened[kept[i].handle] = kept[i].key
      OBVIOUS
    <3>1. CASE kept[i] = [key |-> key, handle |-> link[w].handle]
      BY <3>1, <2>9 DEF LinkInv, HandlesKnown
    <3>2. CASE \E j \in DOMAIN sessions : kept[i] = sessions[j]
      BY <3>2 DEF LinkInv, HandlesKnown, SessionsStayHome
    <3> QED
      BY <2>4, <2>5, <3>1, <3>2
  <2>11. SessionsStayHome'
    BY <2>1, <2>6, <2>7, <2>9, <2>10 DEF LinkInv, SessionsStayHome, SessionKey
  <2>12. HandlesKnown'
    BY <2>1, <2>6, <2>7, <2>10 DEF LinkInv, HandlesKnown
  <2> QED
    BY <2>8, <2>11, <2>12 DEF LinkInv
<1> QED
  BY <1>1, <1>2 DEF LinkInv, LinkTypeOK

LEMMA ServedKeeps ==
  ASSUME LinkInv, NEW w \in Caller, Served(w)
  PROVE  LinkInv'
<1>1. ASSUME NEW reply \in Reply, InitializeFails(w, reply) PROVE LinkInv'
  BY <1>1, EndKeeps DEF InitializeFails
<1>2. CASE NotifyFails(w)
  BY <1>2, EndKeeps DEF NotifyFails
<1> QED
  BY <1>1, <1>2, InitializeKeeps, NotifiedKeeps DEF Served

LEMMA AnswersKeeps ==
  ASSUME LinkInv, NEW w \in Caller, NEW reply \in Reply, Answers(w, reply)
  PROVE  LinkInv'
BY EndKeeps DEF Answers

LEMMA ForgetKeeps ==
  ASSUME LinkInv, NEW h, Forget(h)
  PROVE  LinkInv'
BY DEF LinkInv, LinkTypeOK, SessionsStayHome, HandlesKnown, Forget

(* A process that starts again remembers no session. *)
LEMMA RestartKeeps ==
  ASSUME LinkInv, sessions' = <<>>, link' = [w \in Caller |-> Idle], UNCHANGED <<opened, alive>>
  PROVE  LinkInv'
<1>1. sessions' \in Seq(SessionEntry) /\ Len(sessions') = 0 /\ DOMAIN sessions' = {}
  OBVIOUS
<1>2. link' \in [Caller -> LinkLocals]
      /\ \A w \in Caller : link'[w].pc = "idle" /\ link'[w].handle = 0
  BY IdleIsALink
<1>3. Len(opened) \in Nat
  BY DEF LinkInv, LinkTypeOK
<1>4. LinkTypeOK'
  BY <1>1, <1>2, SessionsAssumption DEF LinkInv, LinkTypeOK, LinkLocals, SessionEntry
<1>5. SessionsStayHome' /\ HandlesKnown'
  BY <1>1, <1>2, <1>3 DEF SessionsStayHome, HandlesKnown, NoHandle
<1> QED
  BY <1>4, <1>5 DEF LinkInv

-----------------------------------------------------------------------------
(* The server. *)

CallerLocals == [pc : {"idle", "checking", "requesting", "running", "reading"},
                 tenant : Tenant, request : ToolCall, reply : ReplyKind,
                 stood : Approvals!Status]

Rows == [Tenant -> [ToolCall -> Approvals!Status]]

(* What one message may rely on, given the rows, the options and the faults. *)
Proper(me, rows, s, n) ==
    /\ me.pc # "idle" => me.request.tool \in s.allow
    /\ me.pc \in {"running", "reading"} /\ Gates(s, me.request.tool) =>
          rows[me.tenant][me.request] = "approved"
    /\ me.stood # "none" => rows[me.tenant][me.request] # "none"
    /\ me.stood \in {"approved", "rejected"} => rows[me.tenant][me.request] = me.stood
    /\ me.pc = "requesting" => me.stood = "none"
    /\ me.reply = "awaiting" =>
          rows[me.tenant][me.request] # "none" /\ me.stood \notin {"approved", "rejected"}
    /\ me.reply = "rejected" => rows[me.tenant][me.request] = "rejected"
    /\ me.reply \in {"result", "error"} /\ Gates(s, me.request.tool) =>
          rows[me.tenant][me.request] = "approved"
    /\ me.reply = "threw" => n > 0 \/ (me.stood = "none" /\ rows[me.tenant][me.request] # "none")

CallersProper == \A w \in Caller : Proper(caller[w], approval, server, faults)

(* What a call that reached its source must have been. *)
Allowed(t, r, rows, s) ==
    /\ r.tool \in s.allow
    /\ OwnerOf[r.connection] = t
    /\ Gates(s, r.tool) => rows[t][r] = "approved"
    /\ r.tool \in Write /\ ~ Gates(s, r.tool) => s.ungated

RunsAllowed == \A t \in Tenant, r \in ToolCall : Ran(t, r) => Allowed(t, r, approval, server)

ServerInv == TypeOK /\ LinkInv /\ Accepts(server) /\ CallersProper /\ RunsAllowed

(* How the queue may change: nothing decided changes, nothing is forgotten. *)
RowsStand ==
    \A t \in Tenant, r \in ToolCall :
      /\ approval[t][r] # "none" => approval'[t][r] # "none"
      /\ approval[t][r] \in {"approved", "rejected"} => approval'[t][r] = approval[t][r]

LEMMA WaitingIsACaller ==
  /\ Waiting \in CallerLocals /\ Waiting.pc = "idle" /\ Waiting.reply = "none"
  /\ Waiting.stood = "none"
BY SessionsAssumption, RequestAssumption
   DEF Waiting, CallerLocals, ReplyKind, Approvals!Status, Approvals!Decision

LEMMA InitHolds == Init => ServerInv
<1> SUFFICES ASSUME Init PROVE ServerInv
  OBVIOUS
<1>1. LinkInv
  BY LinkInitHolds DEF Init
<1>2. caller \in [Caller -> CallerLocals]
      /\ \A w \in Caller : /\ caller[w].pc = "idle" /\ caller[w].reply = "none"
                            /\ caller[w].stood = "none"
  BY WaitingIsACaller DEF Init
<1>3. approval \in Rows
  BY DEF Init, Approvals!StoreInit, Rows, Approvals!Status
<1>4. /\ performed \in [Tenant -> [ToolCall -> 0..MaxRuns]]
      /\ \A t \in Tenant, r \in ToolCall : performed[t][r] = 0
  BY BoundsAssumption DEF Init
<1>5. server \in Deployments /\ Accepts(server) /\ faults \in 0..MaxFaults
  BY BoundsAssumption DEF Init
<1>6. TypeOK
  BY <1>1, <1>2, <1>3, <1>4, <1>5
     DEF TypeOK, LinkInv, CallerLocals, Rows, Approvals!StoreTypeOK
<1>7. CallersProper
  BY <1>2 DEF CallersProper, Proper
<1>8. RunsAllowed
  BY <1>4 DEF RunsAllowed, Ran
<1> QED
  BY <1>1, <1>5, <1>6, <1>7, <1>8 DEF ServerInv

-----------------------------------------------------------------------------
(* What the queue does to the rows. *)
LEMMA RequestMovesRows ==
  ASSUME approval \in Rows, NEW t \in Tenant, NEW r \in ToolCall, Approvals!Request(t, {r})
  PROVE  approval' \in Rows /\ RowsStand /\ approval'[t][r] = "pending"
<1>1. approval[t][r] = "none"
  BY DEF Approvals!Request, Approvals!Collides
<1>2. approval' = [approval EXCEPT ![t] =
                    [c \in ToolCall |-> IF c \in {r} THEN "pending" ELSE approval[t][c]]]
  BY DEF Approvals!Request
<1>3. \A u \in Tenant, c \in ToolCall :
        approval'[u][c] = IF u = t /\ c = r THEN "pending" ELSE approval[u][c]
  BY <1>2 DEF Rows
<1>4. approval' \in Rows
  BY <1>2 DEF Rows, Approvals!Status, Approvals!Decision
<1>5. RowsStand
  BY <1>1, <1>3 DEF RowsStand
<1> QED
  BY <1>3, <1>4, <1>5

LEMMA DecideMovesRows ==
  ASSUME approval \in Rows, NEW t \in Tenant, NEW r \in ToolCall,
         NEW d \in Approvals!Decision, Approvals!Decide(t, r, d)
  PROVE  approval' \in Rows /\ RowsStand
<1>1. approval[t][r] = "pending" /\ approval' = [approval EXCEPT ![t][r] = d]
  BY DEF Approvals!Decide
<1>2. \A u \in Tenant, c \in ToolCall :
        approval'[u][c] = IF u = t /\ c = r THEN d ELSE approval[u][c]
  BY <1>1 DEF Rows
<1>3. approval' \in Rows
  BY <1>1 DEF Rows, Approvals!Status
<1>4. d # "none"
  BY DEF Approvals!Decision
<1>5. RowsStand
  BY <1>1, <1>2, <1>4 DEF RowsStand
<1> QED
  BY <1>3, <1>5

LEMMA SameRowsStand ==
  ASSUME approval' = approval
  PROVE  RowsStand
BY DEF RowsStand

(* What was concluded from a row outlives what others do to the queue. *)
LEMMA ProperStays ==
  ASSUME RowsStand, NEW me \in CallerLocals, faults \in Nat, faults' \in Nat, faults' >= faults,
         Proper(me, approval, server, faults), server' = server
  PROVE  Proper(me, approval', server', faults')
BY DEF RowsStand, Proper, CallerLocals

LEMMA AllowedStays ==
  ASSUME RowsStand, NEW t \in Tenant, NEW r \in ToolCall,
         Allowed(t, r, approval, server), server' = server
  PROVE  Allowed(t, r, approval', server')
BY DEF RowsStand, Allowed

(* One message moves, the others rely on what they relied on. *)
LEMMA CallerMoves ==
  ASSUME ServerInv, LinkInv', approval' \in Rows, RowsStand,
         faults' \in 0..MaxFaults, faults' >= faults, server' = server, performed' = performed,
         NEW w \in Caller, NEW me, me \in CallerLocals,
         Proper(me, approval', server', faults'), Set(w, me)
  PROVE  ServerInv'
<1>1. /\ caller \in [Caller -> CallerLocals] /\ faults \in Nat /\ faults' \in Nat
      /\ performed \in [Tenant -> [ToolCall -> 0..MaxRuns]] /\ server \in Deployments
  BY BoundsAssumption DEF ServerInv, TypeOK, CallerLocals
<1>2. caller' = [caller EXCEPT ![w] = me]
  BY DEF Set
<1>3. caller' \in [Caller -> CallerLocals]
      /\ \A v \in Caller : caller'[v] = IF v = w THEN me ELSE caller[v]
  BY <1>1, <1>2
<1>4. TypeOK'
  BY <1>1, <1>3 DEF TypeOK, LinkInv, CallerLocals, Rows, Approvals!StoreTypeOK
<1>5. ASSUME NEW v \in Caller PROVE Proper(caller'[v], approval', server', faults')
  <2>1. CASE v = w
    BY <1>3, <2>1
  <2>2. CASE v # w
    <3>1. caller[v] \in CallerLocals /\ Proper(caller[v], approval, server, faults)
      BY <1>1 DEF ServerInv, CallersProper
    <3>2. Proper(caller[v], approval', server', faults')
      BY <1>1, <3>1, ProperStays
    <3> QED
      BY <1>3, <2>2, <3>2
  <2> QED
    BY <2>1, <2>2
<1>6. CallersProper'
  BY <1>5 DEF CallersProper
<1>7. RunsAllowed'
  BY AllowedStays DEF ServerInv, RunsAllowed, Ran
<1> QED
  BY <1>4, <1>6, <1>7 DEF ServerInv

(* The same, when the message touches nothing but itself and its session. *)
LEMMA CallerAlone ==
  ASSUME ServerInv, LinkInv', UNCHANGED <<server, approval, performed, faults>>,
         NEW w \in Caller, NEW me, me \in CallerLocals,
         Proper(me, approval, server, faults), Set(w, me)
  PROVE  ServerInv'
<1>1. approval \in Rows /\ faults \in 0..MaxFaults /\ faults \in Nat
  BY BoundsAssumption DEF ServerInv, TypeOK, Approvals!StoreTypeOK, Rows
<1>2. Proper(me, approval', server', faults')
  OBVIOUS
<1> QED
  BY <1>1, <1>2, CallerMoves, SameRowsStand

LEMMA LinkUnmoved ==
  ASSUME LinkInv, UNCHANGED <<sessions, opened, alive, link>>
  PROVE  LinkInv'
BY DEF LinkInv, LinkTypeOK, SessionsStayHome, HandlesKnown

(* What is known of one message. *)
LEMMA Mine ==
  ASSUME ServerInv, NEW w \in Caller
  PROVE  /\ caller[w] \in CallerLocals
         /\ Proper(caller[w], approval, server, faults)
         /\ approval \in Rows /\ LinkInv /\ faults \in 0..MaxFaults
         /\ caller[w].tenant \in Tenant /\ caller[w].request \in ToolCall
BY DEF ServerInv, TypeOK, CallerLocals, CallersProper, Rows, Approvals!StoreTypeOK

-----------------------------------------------------------------------------
(* A message being answered relies on nothing but what it is told. *)
LEMMA AnswerIsProper ==
  ASSUME ServerInv, RowsStand, server' = server, NEW w \in Caller, NEW reply \in ReplyKind,
         reply = "awaiting" => /\ approval'[caller[w].tenant][caller[w].request] # "none"
                               /\ caller[w].stood \notin {"approved", "rejected"},
         reply = "rejected" => approval'[caller[w].tenant][caller[w].request] = "rejected",
         reply \in {"result", "error"} => caller[w].pc \in {"running", "reading"},
         reply = "threw" => \/ faults' > 0
                            \/ /\ caller[w].stood = "none"
                               /\ approval'[caller[w].tenant][caller[w].request] # "none"
  PROVE  LET me == [caller[w] EXCEPT !.pc = "idle", !.reply = reply] IN
         me \in CallerLocals /\ Proper(me, approval', server', faults')
<1> DEFINE me == [caller[w] EXCEPT !.pc = "idle", !.reply = reply]
<1>1. /\ me \in CallerLocals /\ me.pc = "idle" /\ me.reply = reply
      /\ me.tenant = caller[w].tenant /\ me.request = caller[w].request
      /\ me.stood = caller[w].stood
  BY Mine DEF CallerLocals
<1> HIDE DEF me
<1>2. /\ Proper(caller[w], approval, server, faults)
      /\ caller[w].tenant \in Tenant /\ caller[w].request \in ToolCall
  BY Mine
<1>3. Proper(me, approval', server', faults')
  BY <1>1, <1>2 DEF Proper, RowsStand
<1> QED
  BY <1>1, <1>3 DEF me

(* An answer that depends on no row: the protocol's own, a result, an error. *)
LEMMA PlainAnswer ==
  ASSUME ServerInv, LinkInv', UNCHANGED <<server, approval, performed, faults>>,
         NEW w \in Caller, NEW reply \in {"result", "error"}, Answer(w, reply),
         caller[w].pc \in {"running", "reading"}
  PROVE  ServerInv'
<1> DEFINE me == [caller[w] EXCEPT !.pc = "idle", !.reply = reply]
<1>1. reply \in ReplyKind
  BY DEF ReplyKind
<1>2. me \in CallerLocals /\ Proper(me, approval', server', faults')
  BY <1>1, AnswerIsProper, SameRowsStand
<1>3. Set(w, me)
  BY DEF Answer
<1>4. approval' \in Rows /\ faults' \in 0..MaxFaults /\ faults' >= faults /\ performed' = performed
      /\ server' = server /\ RowsStand
  BY Mine, SameRowsStand, BoundsAssumption
<1> HIDE DEF me
<1> QED
  BY <1>2, <1>3, <1>4, CallerMoves

LEMMA MessageKeeps ==
  ASSUME ServerInv, NEW w \in Caller, NEW notification \in BOOLEAN, Message(w, notification)
  PROVE  ServerInv'
<1> DEFINE me == [Waiting EXCEPT !.reply = IF notification THEN "none" ELSE "protocol"]
<1>1. /\ me \in CallerLocals /\ me.pc = "idle" /\ me.reply \in {"none", "protocol"}
      /\ me.stood = "none"
  BY WaitingIsACaller DEF CallerLocals, ReplyKind
<1>2. Set(w, me) /\ UNCHANGED <<server, approval, performed, faults>> /\ LinkInv'
  BY Mine, LinkUnmoved DEF Message, Untouched
<1> HIDE DEF me
<1>3. Proper(me, approval, server, faults)
  BY <1>1 DEF Proper
<1> QED
  BY <1>1, <1>2, <1>3, CallerAlone

(* A call is let through ungated only when nothing gates it. *)
LEMMA CallToolKeeps ==
  ASSUME ServerInv, NEW w \in Caller, NEW t \in Tenant, NEW r \in ToolCall, CallTool(w, t, r)
  PROVE  ServerInv'
<1> DEFINE me == [Waiting EXCEPT !.tenant = t, !.request = r, !.stood = approval[t][r]]
           refused == [me EXCEPT !.reply = "invalid"]
           gated == [me EXCEPT !.pc = "checking"]
           free == [me EXCEPT !.pc = "running"]
<1>1. approval[t][r] \in Approvals!Status
  BY Mine DEF Rows
<1>2. UNCHANGED <<server, approval, performed, faults>> /\ LinkInv'
  BY Mine, LinkUnmoved DEF CallTool, Untouched
<1>3. CASE r.tool \notin server.allow \/ r.body \in Malformed
  <2>1. /\ refused \in CallerLocals /\ refused.pc = "idle" /\ refused.reply = "invalid"
        /\ refused.stood = approval[t][r] /\ refused.tenant = t /\ refused.request = r
    BY <1>1, WaitingIsACaller DEF CallerLocals, ReplyKind
  <2>2. Set(w, refused)
    BY <1>3 DEF CallTool
  <2> HIDE DEF refused
  <2> QED
    BY <1>2, <2>1, <2>2, CallerAlone DEF Proper
<1>4. CASE r.tool \in server.allow /\ r.body \notin Malformed /\ Gates(server, r.tool)
  <2>1. /\ gated \in CallerLocals /\ gated.pc = "checking" /\ gated.reply = "none" /\ gated.request = r
        /\ gated.stood = approval[t][r] /\ gated.tenant = t
    BY <1>1, WaitingIsACaller DEF CallerLocals
  <2>2. Set(w, gated)
    BY <1>4 DEF CallTool
  <2> HIDE DEF gated
  <2> QED
    BY <1>2, <1>4, <2>1, <2>2, CallerAlone DEF Proper
<1>5. CASE r.tool \in server.allow /\ r.body \notin Malformed /\ ~ Gates(server, r.tool)
  <2>1. /\ free \in CallerLocals /\ free.pc = "running" /\ free.reply = "none" /\ free.request = r
        /\ free.stood = approval[t][r] /\ free.tenant = t
    BY <1>1, WaitingIsACaller DEF CallerLocals
  <2>2. Set(w, free)
    BY <1>5 DEF CallTool
  <2> HIDE DEF free
  <2> QED
    BY <1>2, <1>5, <2>1, <2>2, CallerAlone DEF Proper
<1> QED
  BY <1>3, <1>4, <1>5

(* The row that was read decides what follows, and stands from then on. *)
LEMMA CheckKeeps ==
  ASSUME ServerInv, NEW w \in Caller, Check(w)
  PROVE  ServerInv'
<1> DEFINE request == [caller[w] EXCEPT !.pc = "requesting"]
           run == [caller[w] EXCEPT !.pc = "running"]
           told(reply) == [caller[w] EXCEPT !.pc = "idle", !.reply = reply]
           row == approval[caller[w].tenant][caller[w].request]
<1>1. /\ UNCHANGED <<server, approval, performed, faults>> /\ LinkInv'
      /\ caller[w].pc = "checking"
  BY Mine, LinkUnmoved DEF Check, Untouched
<1>2. Approvals!ForToolCalls(caller[w].tenant, {RequestId(caller[w].request)})
        [RequestId(caller[w].request)] = row
  BY Mine DEF Approvals!ForToolCalls, RequestId
<1>3. CASE row = "none"
  <2>1. /\ request \in CallerLocals /\ request.pc = "requesting"
        /\ request.request = caller[w].request /\ request.tenant = caller[w].tenant
        /\ request.reply = caller[w].reply /\ request.stood = caller[w].stood
    BY Mine DEF CallerLocals
  <2>2. Set(w, request)
    BY <1>2, <1>3 DEF Check
  <2> HIDE DEF request
  <2>3. Proper(request, approval, server, faults)
    BY <1>1, <1>3, <2>1, Mine DEF Proper
  <2> QED
    BY <1>1, <2>1, <2>2, <2>3, CallerAlone
<1>4. CASE row = "approved"
  <2>1. /\ run \in CallerLocals /\ run.pc = "running"
        /\ run.request = caller[w].request /\ run.tenant = caller[w].tenant
        /\ run.reply = caller[w].reply /\ run.stood = caller[w].stood
    BY Mine DEF CallerLocals
  <2>2. Set(w, run)
    BY <1>2, <1>4 DEF Check, Verdict
  <2> HIDE DEF run
  <2>3. Proper(run, approval, server, faults)
    BY <1>1, <1>4, <2>1, Mine DEF Proper
  <2> QED
    BY <1>1, <2>1, <2>2, <2>3, CallerAlone
<1>5. CASE row \notin {"none", "approved"}
  <2>1. Answer(w, Verdict(row)) /\ Verdict(row) \in {"rejected", "awaiting"}
    BY <1>2, <1>5 DEF Check, Verdict
  <2>2. Verdict(row) = "rejected" => row = "rejected"
    BY DEF Verdict
  <2>3. Verdict(row) \in ReplyKind
    BY <2>1 DEF ReplyKind
  <2>4. approval' = approval
    BY <1>1
  <2> DEFINE verdict == Verdict(row)
  <2>5. /\ verdict \in ReplyKind /\ verdict # "threw"
        /\ verdict \notin {"result", "error"}
        /\ verdict = "awaiting" => /\ approval'[caller[w].tenant][caller[w].request] # "none"
                                   /\ caller[w].stood \notin {"approved", "rejected"}
        /\ verdict = "rejected" => approval'[caller[w].tenant][caller[w].request] = "rejected"
    <3>1. verdict = "awaiting" => caller[w].stood \notin {"approved", "rejected"}
      BY <1>5, Mine DEF Proper, Verdict
    <3> QED
      BY <1>5, <2>1, <2>2, <2>3, <2>4, <3>1
  <2>6. Set(w, told(verdict))
    BY <2>1 DEF Answer
  <2> HIDE DEF verdict
  <2>7. told(verdict) \in CallerLocals /\ Proper(told(verdict), approval', server', faults')
    BY <1>1, <2>5, AnswerIsProper, SameRowsStand
  <2>8. Proper(told(verdict), approval, server, faults)
    BY <1>1, <2>7
  <2> HIDE DEF told
  <2> QED
    BY <1>1, <2>6, <2>7, <2>8, CallerAlone
<1> QED
  BY <1>3, <1>4, <1>5

(* The call that is refused is on record; one that collides throws. *)
LEMMA RecordKeeps ==
  ASSUME ServerInv, NEW w \in Caller, Record(w)
  PROVE  ServerInv'
<1> DEFINE told(reply) == [caller[w] EXCEPT !.pc = "idle", !.reply = reply]
           t == caller[w].tenant
           r == caller[w].request
<1>1. /\ UNCHANGED <<server, performed, faults>> /\ LinkInv' /\ t \in Tenant /\ r \in ToolCall
      /\ approval \in Rows /\ faults' \in 0..MaxFaults /\ faults' >= faults
      /\ caller[w].stood = "none"
  BY Mine, LinkUnmoved, BoundsAssumption DEF Record, Untouched, Proper
<1>2. CASE Approvals!Request(t, {r}) /\ Answer(w, "awaiting")
  <2>1. approval' \in Rows /\ RowsStand /\ approval'[t][r] = "pending"
    BY <1>1, <1>2, RequestMovesRows, Zenon
  <2>2. told("awaiting") \in CallerLocals /\ Proper(told("awaiting"), approval', server', faults')
    BY <1>1, <2>1, AnswerIsProper DEF ReplyKind
  <2>3. Set(w, told("awaiting"))
    BY <1>2 DEF Answer
  <2> HIDE DEF told
  <2> QED
    BY <1>1, <2>1, <2>2, <2>3, CallerMoves
<1>3. CASE Approvals!Collides(t, {r}) /\ UNCHANGED approval /\ Answer(w, "threw")
  <2>1. approval'[t][r] # "none" /\ RowsStand /\ approval' \in Rows
    BY <1>1, <1>3, SameRowsStand DEF Approvals!Collides
  <2>2. told("threw") \in CallerLocals /\ Proper(told("threw"), approval', server', faults')
    BY <1>1, <2>1, AnswerIsProper DEF ReplyKind
  <2>3. Set(w, told("threw"))
    BY <1>3 DEF Answer
  <2> HIDE DEF told
  <2> QED
    BY <1>1, <2>1, <2>2, <2>3, CallerMoves
<1> QED
  BY <1>2, <1>3 DEF Record, RequestId

LEMMA StoreFailsKeeps ==
  ASSUME ServerInv, NEW w \in Caller, StoreFails(w)
  PROVE  ServerInv'
<1> DEFINE told == [caller[w] EXCEPT !.pc = "idle", !.reply = "threw"]
<1>1. /\ UNCHANGED <<server, performed>> /\ LinkInv' /\ approval' \in Rows /\ RowsStand
      /\ faults' \in 0..MaxFaults /\ faults' >= faults /\ faults' > 0
  BY Mine, LinkUnmoved, SameRowsStand, BoundsAssumption DEF StoreFails, Untouched
<1>2. told \in CallerLocals /\ Proper(told, approval', server', faults')
  BY <1>1, AnswerIsProper DEF ReplyKind
<1>3. Set(w, told)
  BY DEF StoreFails, Answer
<1> HIDE DEF told
<1> QED
  BY <1>1, <1>2, <1>3, CallerMoves

(* What reaches its source was let through for it. *)
LEMMA RunToolKeeps ==
  ASSUME ServerInv, NEW w \in Caller, NEW answered \in BOOLEAN, RunTool(w, answered)
  PROVE  ServerInv'
<1> DEFINE t == caller[w].tenant
           r == caller[w].request
           reply == IF Reaches(t, r) /\ answered THEN "result" ELSE "error"
           told == [caller[w] EXCEPT !.pc = "idle", !.reply = reply]
<1>1. /\ UNCHANGED <<server, approval, faults>> /\ LinkInv' /\ caller[w].pc = "running"
      /\ t \in Tenant /\ r \in ToolCall /\ approval \in Rows
  BY Mine, LinkUnmoved DEF RunTool
<1>2. told \in CallerLocals /\ Proper(told, approval', server', faults') /\ Set(w, told)
  <2>1. reply \in ReplyKind /\ reply \in {"result", "error"}
    BY DEF ReplyKind
  <2>2. Set(w, told)
    BY DEF RunTool, Answer
  <2> HIDE DEF reply
  <2> QED
    BY <1>1, <2>1, <2>2, AnswerIsProper, SameRowsStand
<1>3. /\ performed \in [Tenant -> [ToolCall -> 0..MaxRuns]] /\ server \in Deployments
      /\ caller \in [Caller -> CallerLocals]
  BY DEF ServerInv, TypeOK, CallerLocals
<1>4. /\ performed' \in [Tenant -> [ToolCall -> 0..MaxRuns]]
      /\ \A u \in Tenant, q \in ToolCall :
           performed'[u][q] = performed[u][q] \/ (u = t /\ q = r /\ Reaches(t, r))
  <2> DEFINE count == IF performed[t][r] < MaxRuns THEN performed[t][r] + 1 ELSE performed[t][r]
  <2>1. performed' = IF Reaches(t, r) THEN [performed EXCEPT ![t][r] = count] ELSE performed
    BY DEF RunTool
  <2>2. count \in 0..MaxRuns
    BY <1>1, <1>3, BoundsAssumption
  <2> HIDE DEF count, t, r
  <2> QED
    BY <1>1, <1>3, <2>1, <2>2
<1>5. Reaches(t, r) => Allowed(t, r, approval', server')
  <2>1. r.tool \in server.allow /\ (Gates(server, r.tool) => approval[t][r] = "approved")
    BY <1>1, Mine DEF Proper
  <2>2. Reaches(t, r) => OwnerOf[r.connection] = t
    BY DEF Reaches
  <2>3. r.tool \in Write /\ ~ Gates(server, r.tool) => server.ungated
    BY <2>1 DEF ServerInv, Accepts, Unasked, Write, ReadOnly
  <2> HIDE DEF t, r
  <2> QED
    BY <1>1, <2>1, <2>2, <2>3 DEF Allowed
<1> HIDE DEF t, r, told
<1>6. RunsAllowed'
  <2> SUFFICES ASSUME NEW u \in Tenant, NEW q \in ToolCall, performed'[u][q] > 0
               PROVE  Allowed(u, q, approval', server')
    BY DEF RunsAllowed, Ran
  <2>1. CASE performed'[u][q] = performed[u][q]
    BY <1>1, <2>1 DEF ServerInv, RunsAllowed, Ran
  <2> QED
    BY <1>4, <1>5, <2>1
<1>7. caller' \in [Caller -> CallerLocals] /\ CallersProper'
  <2>1. caller' = [caller EXCEPT ![w] = told]
    BY <1>2 DEF Set
  <2>2. caller' \in [Caller -> CallerLocals]
        /\ \A v \in Caller : caller'[v] = IF v = w THEN told ELSE caller[v]
    BY <1>2, <1>3, <2>1
  <2> QED
    BY <1>1, <1>2, <2>2 DEF ServerInv, CallersProper
<1>8. TypeOK'
  BY <1>1, <1>3, <1>4, <1>7 DEF ServerInv, TypeOK, LinkInv, CallerLocals, Approvals!StoreTypeOK
<1> QED
  BY <1>1, <1>6, <1>7, <1>8 DEF ServerInv

LEMMA SourceRefusesKeeps ==
  ASSUME ServerInv, NEW w \in Caller, SourceRefuses(w)
  PROVE  ServerInv'
<1>1. /\ LinkInv' /\ UNCHANGED <<server, approval, performed, faults>> /\ Answer(w, "error")
      /\ caller[w].pc = "running"
  BY Mine, LinkUnmoved DEF SourceRefuses, Untouched
<1> QED
  BY <1>1, PlainAnswer

LEMMA ReadRemoteKeeps ==
  ASSUME ServerInv, NEW w \in Caller, ReadRemote(w)
  PROVE  ServerInv'
<1> DEFINE me == [caller[w] EXCEPT !.pc = "reading"]
<1>1. /\ UNCHANGED <<server, approval, performed, faults>> /\ Set(w, me)
      /\ caller[w].pc = "running"
  BY DEF ReadRemote
<1>2. LinkInv'
  BY Mine, BeginKeeps DEF ReadRemote, ReadsRemotely
<1>3. /\ me \in CallerLocals /\ me.pc = "reading" /\ me.request = caller[w].request
      /\ me.tenant = caller[w].tenant /\ me.reply = caller[w].reply
      /\ me.stood = caller[w].stood
  BY Mine DEF CallerLocals
<1> HIDE DEF me
<1>4. Proper(me, approval, server, faults)
  BY <1>1, <1>3, Mine DEF Proper
<1> QED
  BY <1>1, <1>2, <1>3, <1>4, CallerAlone

(* A change that leaves the messages, the queue and the counters alone. *)
LEMMA OnlyTheLink ==
  ASSUME ServerInv, LinkInv', UNCHANGED <<server, approval, caller, performed, faults>>
  PROVE  ServerInv'
BY DEF ServerInv, TypeOK, LinkInv, CallersProper, RunsAllowed, Ran, Approvals!StoreTypeOK

LEMMA HandshakeKeeps ==
  ASSUME ServerInv, NEW w \in Caller, Handshake(w)
  PROVE  ServerInv'
<1>1. LinkInv' /\ UNCHANGED <<server, approval, performed, faults>> /\ caller[w].pc = "reading"
  BY Mine, ServedKeeps DEF Handshake
<1>2. Answer(w, "error") \/ UNCHANGED caller
  BY DEF Handshake
<1> QED
  BY <1>1, <1>2, PlainAnswer, OnlyTheLink

LEMMA RemoteAnswersKeeps ==
  ASSUME ServerInv, NEW w \in Caller, NEW reply \in Reply, RemoteAnswers(w, reply)
  PROVE  ServerInv'
<1>1. LinkInv' /\ UNCHANGED <<server, approval, performed, faults>> /\ caller[w].pc = "reading"
  BY Mine, AnswersKeeps DEF RemoteAnswers
<1>2. Answer(w, "result") \/ Answer(w, "error")
  BY DEF RemoteAnswers
<1> QED
  BY <1>1, <1>2, PlainAnswer

-----------------------------------------------------------------------------
LEMMA OperatorKeeps ==
  ASSUME ServerInv, NEW t \in Tenant, NEW r \in ToolCall, NEW d \in Approvals!Decision,
         Operator(t, r, d)
  PROVE  ServerInv'
<1>1. /\ approval \in Rows /\ LinkInv' /\ faults \in Nat
      /\ UNCHANGED <<server, caller, performed, faults>> /\ Approvals!Decide(t, r, d)
  BY LinkUnmoved, BoundsAssumption
     DEF Operator, ServerInv, TypeOK, Approvals!StoreTypeOK, Rows
<1>2. approval' \in Rows /\ RowsStand
  BY <1>1, DecideMovesRows, Zenon
<1>3. caller \in [Caller -> CallerLocals]
  BY DEF ServerInv, TypeOK, CallerLocals
<1>4. TypeOK'
  BY <1>1, <1>2 DEF ServerInv, TypeOK, LinkInv, Rows, Approvals!StoreTypeOK
<1>5. CallersProper'
  BY <1>1, <1>2, <1>3, ProperStays DEF ServerInv, CallersProper
<1>6. RunsAllowed'
  BY <1>1, <1>2, AllowedStays DEF ServerInv, RunsAllowed, Ran
<1> QED
  BY <1>1, <1>4, <1>5, <1>6 DEF ServerInv

LEMMA ProcessRestartKeeps ==
  ASSUME ServerInv, Restart
  PROVE  ServerInv'
<1>1. LinkInv' /\ UNCHANGED <<server, approval, performed>> /\ faults' \in 0..MaxFaults
  BY RestartKeeps, BoundsAssumption DEF ServerInv, TypeOK, Restart
<1>2. caller' \in [Caller -> CallerLocals]
      /\ \A w \in Caller : /\ caller'[w].pc = "idle" /\ caller'[w].reply = "none"
                            /\ caller'[w].stood = "none"
  BY WaitingIsACaller DEF Restart
<1>3. TypeOK'
  BY <1>1, <1>2 DEF ServerInv, TypeOK, LinkInv, CallerLocals, Approvals!StoreTypeOK
<1>4. CallersProper'
  BY <1>2 DEF CallersProper, Proper
<1>5. RunsAllowed'
  BY <1>1 DEF ServerInv, RunsAllowed, Ran
<1> QED
  BY <1>1, <1>3, <1>4, <1>5 DEF ServerInv

LEMMA NextKeeps ==
  ASSUME ServerInv, [Next]_vars
  PROVE  ServerInv'
<1>1. ASSUME NEW w \in Caller, Serve(w) PROVE ServerInv'
  BY <1>1, CheckKeeps, RecordKeeps, RunToolKeeps, SourceRefusesKeeps, ReadRemoteKeeps,
     HandshakeKeeps, RemoteAnswersKeeps DEF Serve
<1>2. ASSUME NEW h \in alive, Expire(h) PROVE ServerInv'
  <2>1. LinkInv' /\ UNCHANGED <<server, approval, caller, performed, faults>>
    BY <1>2, ForgetKeeps DEF Expire, ServerInv
  <2> QED
    BY <2>1, OnlyTheLink
<1>3. CASE UNCHANGED vars
  <2>1. LinkInv' /\ UNCHANGED <<server, approval, caller, performed, faults>>
    BY <1>3, LinkUnmoved DEF vars, ServerInv
  <2> QED
    BY <2>1, OnlyTheLink
<1> QED
  BY <1>1, <1>2, <1>3, MessageKeeps, CallToolKeeps, StoreFailsKeeps, OperatorKeeps,
     ProcessRestartKeeps DEF Next

LEMMA Inductive == Spec => []ServerInv
<1>1. Init => ServerInv
  BY InitHolds
<1>2. ServerInv /\ [Next]_vars => ServerInv'
  BY NextKeeps
<1> QED
  BY <1>1, <1>2, PTL DEF Spec

(* Whoever races whom at the gate, and whatever fails in between, a write  *)
(* that reached a source was approved, with those arguments, for the       *)
(* tenant that made it, or the server was declared ungated; and no request *)
(* goes out in another tenant's session.                                   *)
THEOREM WritesAreApproved == Spec => []WritesWereApproved
<1>1. ServerInv => WritesWereApproved
  BY DEF ServerInv, LinkInv, RunsAllowed, Allowed, WritesWereApproved
<1> QED
  BY <1>1, Inductive, PTL

(* A client that is told to wait has its request on record, and when it     *)
(* asked that was neither approved nor rejected (a request for changes is   *)
(* never told: section 5 of the README); one that is told it was rejected   *)
(* was rejected, one that gets an answer to a gated call was approved, and  *)
(* one that gets an exception met a failing store or lost a race for the    *)
(* row.  Every variable keeps its type throughout, the connector's session  *)
(* map its bound included.                                                  *)
THEOREM RepliesAreTrue == Spec => []RepliesReflectTheQueue
<1>1. ServerInv => RepliesReflectTheQueue
  BY DEF ServerInv, CallersProper, Proper, RepliesReflectTheQueue, Approvals!Decision
<1> QED
  BY <1>1, Inductive, PTL

=============================================================================
