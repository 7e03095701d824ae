-------------------------- MODULE LiveUpdatesProofs --------------------------
(***************************************************************************)
(* What Forge's live updates promise for any number of tabs, connections   *)
(* and requests: the poller runs exactly while somebody watches, and a     *)
(* page that is connected keeps its record.                                *)
(***************************************************************************)
EXTENDS LiveUpdates, FiniteSetTheorems, TLAPS

Counting == {"render", "send", "wait"}

\* The connections Server.streams counts: those that have not hung up.
Counted == {c \in Conns : conns[c].at \in Counting}

Watching == {k \in Pollers : Running(k) /\ ~pollers[k].cancelled}

IsPoller(p) ==
  /\ DOMAIN p = DOMAIN NoPoller
  /\ p.at \in {"gone", "seeding", "wait"} /\ p.cancelled \in BOOLEAN

Typed ==
  /\ conns = [c \in Conns |-> conns[c]] /\ pollers = [k \in Pollers |-> pollers[k]]
  /\ tabs = [t \in Tabs |-> tabs[t]]
  /\ \A c \in Conns : /\ DOMAIN conns[c] = DOMAIN IdleConn
                      /\ conns[c].at \in Counting \cup {"idle", "leave"}
                      /\ conns[c].at # "idle" => conns[c].tab \in Tabs
  /\ \A k \in Pollers : IsPoller(pollers[k])
  /\ pollCancel \in Pollers \cup {None}
  /\ down \in BOOLEAN

\* The poller in charge is the one that watches, as long as the server is up;
\* none is in charge where nothing is counted.
InCharge ==
  /\ streams = Cardinality(Counted)
  /\ pollCancel # None <=> Counted # {}
  /\ \A k \in Watching : k = pollCancel
  /\ pollCancel # None /\ ~down => pollCancel \in Watching

IInv == Typed /\ InCharge

-----------------------------------------------------------------------------
(* Counting *)

LEMMA FieldsOf ==
  /\ DOMAIN IdleConn = {"at", "tab", "version", "view", "last", "stop"}
  /\ DOMAIN NoPoller = {"at", "last", "cancelled"}
BY DEF IdleConn, NoPoller

LEMMA CountedIsFinite ==
  ASSUME NEW S \in SUBSET Conns
  PROVE  IsFiniteSet(S) /\ Cardinality(S) \in Nat /\ (Cardinality(S) > 0 <=> S # {})
<1>1. IsFiniteSet(S)
  BY ConnsAssumption, FS_Subset
<1>2. Cardinality(S) \in Nat /\ (Cardinality(S) = 0 <=> S = {})
  BY <1>1, FS_CardinalityType, FS_EmptySet
<1>3. QED
  BY <1>1, <1>2

\* What says that connections and pollers are as they were.
Quiet == UNCHANGED <<conns, streams, pollCancel, pollers, down>>

LEMMA QuietPreserves ==
  ASSUME IInv, Quiet, tabs' = [t \in Tabs |-> tabs'[t]]
  PROVE  IInv'
BY DEF IInv, Quiet, Typed, InCharge, Counted, Watching, Running

\* A step of a connection that goes on being counted, or not.
LEMMA PassPreserves ==
  ASSUME IInv, NEW c \in Conns, NEW x, conns' = [conns EXCEPT ![c] = x],
         DOMAIN x = DOMAIN IdleConn, x.tab = conns[c].tab, conns[c].at \in Counting, x.at \in Counting,
         UNCHANGED <<streams, pollCancel, pollers, down>>, tabs' = [t \in Tabs |-> tabs'[t]]
  PROVE  IInv'
<1>1. Counted' = Counted
  BY DEF Counted, IInv, Typed
<1>2. Typed'
  BY DEF IInv, Typed, Counting
<1>3. QED
  BY <1>1, <1>2 DEF IInv, InCharge, Watching, Running

\* A step of a poller that runs on, or ends after it was told to.
LEMMA PollPreserves ==
  ASSUME IInv, NEW k \in Pollers, Running(k),
         pollers' = [pollers EXCEPT ![k] = pollers'[k]], IsPoller(pollers'[k]),
         \/ pollers'[k].at = "wait" /\ pollers'[k].cancelled = pollers[k].cancelled
         \/ pollers'[k].at = "gone" /\ pollers[k].cancelled,
         UNCHANGED <<conns, streams, pollCancel, tabs, down>>
  PROVE  IInv'
<1>1. Counted' = Counted
  BY DEF Counted
<1>2. Typed'
  BY DEF IInv, Typed
<1>3. Watching' = Watching
  BY DEF Watching, Running, IInv, Typed
<1>4. QED
  BY <1>1, <1>2, <1>3 DEF IInv, InCharge

-----------------------------------------------------------------------------
(* The steps *)

\* A stream is opened: the first one finds no poller in charge and starts one.
LEMMA ConnectPreserves ==
  ASSUME IInv, NEW t \in Tabs, Connect(t)
  PROVE  IInv'
<1> DEFINE c == CHOOSE d \in FreeConns : TRUE
           x == [IdleConn EXCEPT !.at = "render", !.tab = t,
                   !.version = IF t \in DOMAIN stamps THEN stamps[t] ELSE Unsent]
<1>1. c \in Conns /\ conns[c].at = "idle"
  BY DEF Connect, FreeConns
<1>2. /\ tabs' = [tabs EXCEPT ![t].conn = c] /\ conns' = [conns EXCEPT ![c] = x]
      /\ streams' = streams + 1 /\ PollStarted /\ down' = down
  BY DEF Connect
<1>3. DOMAIN x = DOMAIN IdleConn /\ x.at = "render" /\ x.tab = t
  BY FieldsOf DEF Unsent
<1> HIDE DEF c, x
<1>4. Counted' = Counted \cup {c} /\ c \notin Counted
  BY <1>1, <1>2, <1>3 DEF Counted, Counting, IInv, Typed
<1>5. Counted' # {} /\ streams' = Cardinality(Counted')
  <2>1. IsFiniteSet(Counted) /\ streams = Cardinality(Counted)
    BY CountedIsFinite DEF IInv, InCharge, Counted
  <2>2. QED
    BY <1>2, <1>4, <2>1, FS_AddElement
<1>6. CASE pollCancel # None
  <2>1. UNCHANGED <<pollCancel, pollers>>
    BY <1>2, <1>6 DEF PollStarted, HasPoller
  <2>2. Typed'
    BY <1>1, <1>2, <1>3, <2>1 DEF IInv, Typed, Counting
  <2>3. QED
    BY <1>2, <1>5, <1>6, <2>1, <2>2 DEF IInv, InCharge, Watching, Running
<1>7. CASE pollCancel = None
  <2> DEFINE k == CHOOSE j \in FreePollers : TRUE
             p == [at |-> "seeding", last |-> None, cancelled |-> down]
  <2>1. k \in Pollers /\ pollCancel' = k /\ pollers' = [pollers EXCEPT ![k] = p]
    BY <1>2, <1>7 DEF PollStarted, HasPoller, FreePollers
  <2>2. IsPoller(p) /\ p.at = "seeding" /\ p.cancelled = down
    BY FieldsOf DEF IsPoller, IInv, Typed
  <2> HIDE DEF k, p
  <2>3. Typed'
    BY <1>1, <1>2, <1>3, <2>1, <2>2 DEF IInv, Typed, Counting
  <2>4. Watching = {}
    BY <1>7, TabsAssumption DEF IInv, InCharge, Watching
  <2>5. Watching' = IF down THEN {} ELSE {k}
    BY <1>2, <2>1, <2>2, <2>4 DEF Watching, Running, IInv, Typed
  <2>6. k # None
    BY <2>1, TabsAssumption
  <2>7. QED
    BY <1>2, <1>5, <2>1, <2>3, <2>5, <2>6 DEF IInv, InCharge
<1>8. QED
  BY <1>6, <1>7

\* A stream goes: the last one takes the poller down.
LEMMA HangupPreserves ==
  ASSUME IInv, NEW c \in Conns, Hangup(c)
  PROVE  IInv'
<1>1. conns[c].at \in Counting /\ streams' = streams - 1 /\ tabs' = tabs /\ down' = down
  BY DEF Hangup, Counting
<1>2. /\ conns' = [k \in Conns |-> conns'[k]]
      /\ conns'[c].at = "leave" /\ conns'[c].tab = conns[c].tab /\ DOMAIN conns'[c] = DOMAIN IdleConn
      /\ \A k \in Conns \ {c} : conns'[k] = conns[k]
  BY FieldsOf DEF Hangup, IInv, Typed
<1>3. Counted' = Counted \ {c} /\ c \in Counted
  BY <1>1, <1>2 DEF Counted, Counting
<1>4. /\ streams' = Cardinality(Counted') /\ (LastStream <=> Counted' = {})
  <2>1. /\ IsFiniteSet(Counted) /\ IsFiniteSet(Counted') /\ streams = Cardinality(Counted)
        /\ Cardinality(Counted) \in Nat
    BY <1>3, CountedIsFinite DEF IInv, InCharge, Counted
  <2>2. Cardinality(Counted') = Cardinality(Counted) - 1
    BY <1>3, <2>1, FS_RemoveElement
  <2>3. Cardinality(Counted') = 0 <=> Counted' = {}
    BY <2>1, FS_EmptySet
  <2>4. QED
    BY <1>1, <2>1, <2>2, <2>3 DEF LastStream
<1>5. pollCancel \in Pollers
  BY <1>3, TabsAssumption DEF IInv, Typed, InCharge
<1>6. CASE LastStream
  <2>1. pollers' = [pollers EXCEPT ![pollCancel].cancelled = TRUE] /\ pollCancel' = None
    BY <1>6 DEF Hangup, Cancelled
  <2>2. IsPoller([pollers[pollCancel] EXCEPT !.cancelled = TRUE])
    BY <1>5, FieldsOf DEF IInv, Typed, IsPoller
  <2>5. Typed'
    BY <1>1, <1>2, <1>5, <2>1, <2>2 DEF IInv, Typed, Counting
  <2>3. Watching' = {}
    BY <1>5, <2>1, FieldsOf DEF Watching, Running, IInv, Typed, InCharge
  <2>4. QED
    BY <1>4, <1>6, <2>1, <2>3, <2>5 DEF IInv, InCharge
<1>7. CASE ~LastStream
  <2>1. UNCHANGED <<pollers, pollCancel>>
    BY <1>7 DEF Hangup
  <2>2. Typed'
    BY <1>1, <1>2, <2>1 DEF IInv, Typed, Counting
  <2>3. QED
    BY <1>1, <1>3, <1>4, <1>7, <2>1, <2>2 DEF IInv, InCharge, Watching, Running
<1>8. QED
  BY <1>6, <1>7

LEMMA LeavePreserves ==
  ASSUME IInv, NEW c \in Conns, Leave(c)
  PROVE  IInv'
<1>1. /\ conns[c].at = "leave" /\ conns' = [conns EXCEPT ![c] = IdleConn]
      /\ UNCHANGED <<tabs, streams, pollCancel, pollers, down>>
  BY DEF Leave
<1>2. IdleConn.at = "idle"
  BY DEF IdleConn
<1>3. Counted' = Counted
  BY <1>1, <1>2 DEF Counted, Counting, IInv, Typed
<1>4. Typed'
  BY <1>1, <1>2 DEF IInv, Typed
<1>5. QED
  BY <1>1, <1>3, <1>4 DEF IInv, InCharge, Watching, Running

\* Whoever is in charge of a stopping server is told to stop as well.
LEMMA ShutdownPreserves ==
  ASSUME IInv, Shutdown
  PROVE  IInv'
<1>1. /\ pollers' = [k \in Pollers |-> [pollers[k] EXCEPT !.cancelled = Running(k)]]
      /\ down' = TRUE /\ UNCHANGED <<tabs, conns, streams, pollCancel>>
  BY DEF Shutdown
<1>2. ASSUME NEW k \in Pollers
      PROVE  IsPoller(pollers'[k]) /\ pollers'[k].at = pollers[k].at /\ (pollers'[k].cancelled <=> Running(k))
  BY <1>1, FieldsOf DEF IInv, Typed, IsPoller, Running
<1>3. Typed'
  BY <1>1, <1>2 DEF IInv, Typed
<1>4. Watching' = {}
  BY <1>2 DEF Watching, Running
<1>5. QED
  BY <1>1, <1>3, <1>4 DEF IInv, InCharge, Counted

-----------------------------------------------------------------------------
(* The invariant *)

LEMMA InvInit == Init => IInv
<1> SUFFICES ASSUME Init PROVE IInv
  OBVIOUS
<1>1. /\ conns = [c \in Conns |-> IdleConn] /\ pollers = [k \in Pollers |-> NoPoller]
      /\ streams = 0 /\ pollCancel = None /\ down = FALSE /\ tabs = [t \in Tabs |-> tabs[t]]
  BY DEF Init
<1>2. IdleConn.at = "idle" /\ NoPoller.at = "gone" /\ NoPoller.cancelled = FALSE /\ IsPoller(NoPoller)
  BY DEF IdleConn, NoPoller, IsPoller
<1>3. Counted = {} /\ Watching = {}
  BY <1>1, <1>2 DEF Counted, Counting, Watching, Running
<1>4. QED
  BY <1>1, <1>2, <1>3, FS_EmptySet DEF IInv, Typed, InCharge

LEMMA InvStep == IInv /\ [Next]_vars => IInv'
<1> SUFFICES ASSUME IInv, [Next]_vars PROVE IInv'
  OBVIOUS
<1>1. CASE UNCHANGED vars \/ Edit \/ Load \/ ChangeOutside \/ Publish
  <2>1. Quiet /\ tabs' = tabs
    BY <1>1 DEF vars, Edit, Load, ChangeOutside, Publish, Quiet
  <2>2. QED
    BY <2>1, QuietPreserves DEF IInv, Typed
<1>2. ASSUME NEW t \in Tabs, Select(t) \/ LetGo(t) PROVE IInv'
  <2>1. Quiet /\ (tabs' = tabs \/ tabs' = [tabs EXCEPT ![t].conn = None])
    BY <1>2 DEF Select, LetGo, Quiet
  <2>2. QED
    BY <2>1, QuietPreserves DEF IInv, Typed
<1>3. ASSUME NEW c \in Conns, RenderPass(c) \/ SendPass(c) \/ Wake(c) PROVE IInv'
  <2> DEFINE view == Render(conns[c].tab)
  <2>1. \/ conns' = [conns EXCEPT ![c].at = "send", ![c].view = view]
        \/ conns' = [conns EXCEPT ![c] = AfterPass(conns[c])]
        \/ conns' = [conns EXCEPT ![c].at = "render"]
    BY <1>3 DEF RenderPass, SendPass, Wake
  <2> HIDE DEF view
  <2>2. PICK x : x = conns'[c]
    OBVIOUS
  <2>3. AfterPass(conns[c]).at = "wait" /\ AfterPass(conns[c]).tab = conns[c].tab
        /\ DOMAIN AfterPass(conns[c]) = DOMAIN conns[c]
    BY FieldsOf DEF AfterPass, IInv, Typed, Unsent
  <2>4. conns' = [conns EXCEPT ![c] = x] /\ x.at \in Counting /\ x.tab = conns[c].tab
        /\ DOMAIN x = DOMAIN IdleConn
    BY <2>1, <2>2, <2>3, FieldsOf DEF Counting, IInv, Typed
  <2>5. conns[c].at \in Counting
    BY <1>3 DEF Counting, RenderPass, SendPass, Wake
  <2>6. /\ UNCHANGED <<streams, pollCancel, pollers, down>>
        /\ tabs' = tabs \/ \E shows : tabs' = [tabs EXCEPT ![conns[c].tab].shows = shows]
    BY <1>3 DEF RenderPass, SendPass, Wake
  <2>7. QED
    BY <2>4, <2>5, <2>6, PassPreserves DEF IInv, Typed
<1>4. ASSUME NEW k \in Pollers, Poll(k) PROVE IInv'
  <2>1. \/ pollers' = [pollers EXCEPT ![k].at = "wait", ![k].last = outside]
        \/ pollers[k].at = "wait" /\ pollers' = [pollers EXCEPT ![k].last = outside]
        \/ pollers[k].cancelled /\ pollers' = [pollers EXCEPT ![k] = NoPoller]
    BY <1>4 DEF Poll, Seed, Tick, Quit
  <2>3. IsPoller(pollers[k]) /\ IsPoller(NoPoller) /\ NoPoller.at = "gone"
    BY DEF IInv, Typed, IsPoller, NoPoller
  <2>4. /\ pollers' = [pollers EXCEPT ![k] = pollers'[k]] /\ IsPoller(pollers'[k])
        /\ \/ pollers'[k].at = "wait" /\ pollers'[k].cancelled = pollers[k].cancelled
           \/ pollers'[k].at = "gone" /\ pollers[k].cancelled
    BY <2>1, <2>3, FieldsOf DEF IInv, Typed, IsPoller
  <2>5. Running(k)
    BY <1>4 DEF Poll, Seed, Tick, Quit, Running
  <2>6. UNCHANGED <<conns, streams, pollCancel, tabs, down>>
    BY <1>4 DEF Poll, Seed, Tick, Quit
  <2>7. QED
    BY <2>4, <2>5, <2>6, PollPreserves
<1>5. QED
  BY <1>1, <1>2, <1>3, <1>4, ConnectPreserves, HangupPreserves, LeavePreserves, ShutdownPreserves
     DEF Next, Browser, Stream

\* However streams, pollers and the shutdown interleave, the streams counted are
\* those with a slot past its start, and pollCancel is the one poller nobody has
\* told to stop (handleModeEvents, pollEngine).
THEOREM InvariantHolds == Spec => []IInv
BY InvInit, InvStep, PTL DEF Spec

\* While a stream is counted, and only then, there is a poller nobody has told
\* to stop, and never a second one (enginePollStartedLocked,
\* enginePollStoppedLocked).
THEOREM OnePoller == Spec => []OnePollerWhileWatched
<1>1. ASSUME IInv PROVE OnePollerWhileWatched
  <2>1. Watching \subseteq {pollCancel}
    BY <1>1 DEF IInv, InCharge
  <2>2. Cardinality(Watching) <= 1
    <3>1. IsFiniteSet({pollCancel}) /\ Cardinality({pollCancel}) = 1
      BY FS_Singleton
    <3>2. QED
      BY <2>1, <3>1, FS_Subset
  <2>3. streams > 0 <=> Counted # {}
    BY <1>1, CountedIsFinite DEF IInv, InCharge, Counted
  <2>4. ~down => (Counted # {} <=> Watching # {})
    BY <1>1, TabsAssumption DEF IInv, Typed, InCharge, Watching
  <2>5. QED
    BY <2>2, <2>3, <2>4 DEF OnePollerWhileWatched, Watching
<1>2. QED
  BY <1>1, InvariantHolds, PTL

-----------------------------------------------------------------------------
(* The record of a page *)

RecordsTyped ==
  /\ records = [t \in DOMAIN records |-> records[t]]
  /\ \A t \in DOMAIN records : DOMAIN records[t] = {"sel", "streams"}
UsedTyped == DOMAIN used = {"requests", "outside", "connects"} /\ used.requests \in Nat

\* A record counts the streams of its page that have not been closed.
StreamsAreCounted == \A t \in DOMAIN records : records[t].streams = Cardinality(Attached(t))

PageInv == IInv /\ RecordsTyped /\ UsedTyped /\ StreamsAreCounted

LEMMA AttachedIsFinite ==
  ASSUME NEW t
  PROVE  /\ IsFiniteSet(Attached(t)) /\ Cardinality(Attached(t)) \in Nat
         /\ Cardinality(Attached(t)) > 0 <=> Attached(t) # {}
<1>1. Attached(t) \in SUBSET Conns
  BY DEF Attached
<1>2. QED
  BY <1>1, CountedIsFinite

\* Marking the record of a page changes its count and nothing else.
LEMMA MarkedKeeps ==
  ASSUME RecordsTyped, NEW t, NEW by \in {1, -1}, records' = Marked(records, t, by)
  PROVE  /\ DOMAIN records' = DOMAIN records /\ records' = [u \in DOMAIN records' |-> records'[u]]
         /\ \A u \in DOMAIN records :
              /\ DOMAIN records'[u] = {"sel", "streams"} /\ records'[u].sel = records[u].sel
              /\ records'[u].streams = IF u # t THEN records[u].streams
                                       ELSE IF records[u].streams + by < 0 THEN 0 ELSE records[u].streams + by
BY DEF Marked, RecordsTyped

\* Who is attached to which page changes where streams open and close only.
LEMMA AttachedStays ==
  ASSUME IInv, [Next]_vars, \A t \in Tabs : ~Connect(t), \A c \in Conns : ~Leave(c)
  PROVE  \A t : Attached(t)' = Attached(t)
<1>1. CASE UNCHANGED conns
  BY <1>1 DEF Attached
<1>2. ASSUME NEW c \in Conns, Stream(c) PROVE \A t : Attached(t)' = Attached(t)
  <2>1. \/ conns' = [conns EXCEPT ![c].at = "send", ![c].view = Render(conns[c].tab)]
        \/ conns' = [conns EXCEPT ![c] = AfterPass(conns[c])]
        \/ conns' = [conns EXCEPT ![c].at = "render"]
        \/ conns' = [conns EXCEPT ![c].at = "leave", ![c].stop = pollCancel]
        \/ conns' = [conns EXCEPT ![c].at = "leave"]
    BY <1>2 DEF Stream, RenderPass, SendPass, Wake, Hangup
  <2>2. AfterPass(conns[c]).at = "wait" /\ AfterPass(conns[c]).tab = conns[c].tab
    BY FieldsOf DEF AfterPass, IInv, Typed, Unsent
  <2>3. conns[c].at # "idle"
    BY <1>2 DEF Stream, RenderPass, SendPass, Wake, Hangup
  <2> DEFINE view == Render(conns[c].tab)
  <2> HIDE DEF view
  <2>4. conns'[c].at # "idle" /\ conns'[c].tab = conns[c].tab
        /\ \A d \in Conns \ {c} : conns'[d] = conns[d]
    <3>1. CASE conns' = [conns EXCEPT ![c].at = "send", ![c].view = view]
      BY <3>1, FieldsOf DEF IInv, Typed
    <3>2. QED
      BY <2>1, <2>2, <3>1, FieldsOf DEF IInv, Typed, view
  <2>5. QED
    BY <2>3, <2>4 DEF Attached
<1>3. QED
  BY <1>1, <1>2 DEF Next, vars, Edit, Load, ChangeOutside, Publish, Shutdown, Browser, Select, LetGo,
                    Poll, Seed, Tick, Quit

LEMMA PageInvInit == Init => PageInv
<1> SUFFICES ASSUME Init PROVE PageInv
  OBVIOUS
<1>1. records = [t \in Tabs |-> [sel |-> 0, streams |-> 0]]
      /\ used = [requests |-> 0, outside |-> 0, connects |-> 0]
  BY DEF Init
<1>2. \A t : Attached(t) = {}
  BY DEF Init, Attached, IdleConn
<1>3. QED
  BY <1>1, <1>2, InvInit, FS_EmptySet DEF PageInv, RecordsTyped, UsedTyped, StreamsAreCounted

LEMMA PageInvStep == PageInv /\ [Next]_vars => PageInv'
<1> SUFFICES ASSUME PageInv, [Next]_vars PROVE PageInv'
  OBVIOUS
<1> DEFINE Good == RecordsTyped /\ UsedTyped /\ StreamsAreCounted
<1>0. IInv /\ IInv' /\ RecordsTyped /\ UsedTyped /\ StreamsAreCounted
  BY InvStep DEF PageInv
<1>1. ASSUME NEW t \in Tabs, Connect(t) PROVE Good'
  <2>1. PICK c \in Conns : /\ conns[c].at = "idle" /\ conns'[c].at # "idle" /\ conns'[c].tab = t
                           /\ \A d \in Conns \ {c} : conns'[d] = conns[d]
    <3> DEFINE c == CHOOSE d \in FreeConns : TRUE
               x == [IdleConn EXCEPT !.at = "render", !.tab = t,
                       !.version = IF t \in DOMAIN stamps THEN stamps[t] ELSE Unsent]
    <3>1. c \in Conns /\ conns[c].at = "idle" /\ conns' = [conns EXCEPT ![c] = x]
      BY <1>1 DEF Connect, FreeConns
    <3>2. x.at = "render" /\ x.tab = t
      BY FieldsOf DEF Unsent
    <3> HIDE DEF c, x
    <3>3. QED
      BY <1>0, <3>1, <3>2 DEF IInv, Typed
  <2>2. /\ Attached(t)' = Attached(t) \cup {c} /\ c \notin Attached(t)
        /\ \A u : u # t => Attached(u)' = Attached(u)
    BY <2>1 DEF Attached
  <2>3. Cardinality(Attached(t)') = Cardinality(Attached(t)) + 1 /\ Cardinality(Attached(t)) \in Nat
    BY <2>2, AttachedIsFinite, FS_AddElement
  <2>4. records' = Marked(records, t, 1)
    BY <1>1 DEF Connect, StreamOpened
  <2>5. used' = [used EXCEPT !.connects = @ + 1]
    BY <1>1 DEF Connect
  <2>6. /\ DOMAIN records' = DOMAIN records /\ records' = [u \in DOMAIN records' |-> records'[u]]
        /\ \A u \in DOMAIN records :
             /\ DOMAIN records'[u] = {"sel", "streams"}
             /\ records'[u].streams = IF u # t THEN records[u].streams
                                      ELSE IF records[u].streams + 1 < 0 THEN 0 ELSE records[u].streams + 1
    BY <1>0, <2>4, MarkedKeeps
  <2>7. StreamsAreCounted'
    BY <1>0, <2>2, <2>3, <2>6 DEF StreamsAreCounted
  <2>8. UsedTyped' /\ RecordsTyped'
    BY <1>0, <2>5, <2>6 DEF UsedTyped, RecordsTyped
  <2>9. QED
    BY <2>7, <2>8
<1>2. ASSUME NEW c \in Conns, Leave(c) PROVE Good'
  <2>0. PICK t : t = conns[c].tab
    OBVIOUS
  <2>1. conns[c].at = "leave" /\ conns' = [conns EXCEPT ![c] = IdleConn] /\ IdleConn.at = "idle"
        /\ records' = Marked(records, t, -1) /\ used' = used
    BY <1>2, <2>0 DEF Leave, StreamClosed, IdleConn
  <2>2. /\ Attached(t)' = Attached(t) \ {c} /\ c \in Attached(t)
        /\ \A u : u # t => Attached(u)' = Attached(u)
    BY <1>0, <2>0, <2>1 DEF Attached, IInv, Typed
  <2>3. Cardinality(Attached(t)') = Cardinality(Attached(t)) - 1
        /\ Cardinality(Attached(t)) \in Nat /\ Cardinality(Attached(t)) > 0
    BY <2>2, AttachedIsFinite, FS_RemoveElement
  <2>4. /\ DOMAIN records' = DOMAIN records /\ records' = [u \in DOMAIN records' |-> records'[u]]
        /\ \A u \in DOMAIN records :
             /\ DOMAIN records'[u] = {"sel", "streams"}
             /\ records'[u].streams = IF u # t THEN records[u].streams
                                      ELSE IF records[u].streams + -1 < 0 THEN 0 ELSE records[u].streams + -1
    BY <1>0, <2>1, MarkedKeeps
  <2>5. StreamsAreCounted'
    <3>1. ASSUME NEW u \in DOMAIN records PROVE records'[u].streams = Cardinality(Attached(u)')
      <4>1. records[u].streams = Cardinality(Attached(u))
        BY <1>0 DEF StreamsAreCounted
      <4>2. CASE u = t
        BY <2>3, <2>4, <4>1, <4>2
      <4>3. CASE u # t
        BY <2>2, <2>4, <4>1, <4>3
      <4>4. QED
        BY <4>2, <4>3
    <3>2. QED
      BY <2>4, <3>1 DEF StreamsAreCounted
  <2>6. UsedTyped' /\ RecordsTyped'
    BY <1>0, <2>1, <2>4 DEF UsedTyped, RecordsTyped
  <2>7. QED
    BY <2>5, <2>6
<1>3. ASSUME \A t \in Tabs : ~Connect(t), \A c \in Conns : ~Leave(c) PROVE Good'
  <2>1. \A t : Attached(t)' = Attached(t)
    BY <1>0, <1>3, AttachedStays
  <2>3. ASSUME records' = records PROVE RecordsTyped' /\ StreamsAreCounted'
    <3>1. RecordsTyped'
      BY <1>0, <2>3 DEF RecordsTyped
    <3>2. StreamsAreCounted'
      BY <1>0, <2>1, <2>3 DEF StreamsAreCounted
    <3>3. QED
      BY <3>1, <3>2
  <2>4. ASSUME NEW t \in Tabs, Select(t) PROVE RecordsTyped' /\ StreamsAreCounted'
    <3>1. records' = [u \in DOMAIN records |->
                        IF u = t THEN [records[u] EXCEPT !.sel = 1 - @] ELSE records[u]]
      BY <2>4 DEF Select
    <3>2. RecordsTyped' /\ DOMAIN records' = DOMAIN records
          /\ \A u \in DOMAIN records : records'[u].streams = records[u].streams
      BY <1>0, <3>1 DEF RecordsTyped
    <3>3. QED
      BY <1>0, <2>1, <3>2 DEF StreamsAreCounted
  <2>5. ASSUME Load PROVE RecordsTyped' /\ StreamsAreCounted'
    <3>1. PICK swept : records' = [t \in DOMAIN records \ swept |-> records[t]]
      BY <2>5 DEF Load
    <3>2. QED
      BY <1>0, <2>1, <3>1 DEF RecordsTyped, StreamsAreCounted
  <2>6. RecordsTyped' /\ StreamsAreCounted'
    BY <1>3, <2>3, <2>4, <2>5 DEF Next, vars, Edit, ChangeOutside, Publish, Shutdown, Browser, LetGo,
         Stream, RenderPass, SendPass, Wake, Hangup, Poll, Seed, Tick, Quit
  <2>7. UsedTyped'
    <3>1. \/ used' = used
          \/ used' = [used EXCEPT !.requests = @ + 1]
          \/ used' = [used EXCEPT !.outside = @ + 1]
      BY <1>3 DEF Next, vars, Edit, Load, Request, ChangeOutside, Publish, Shutdown, Browser, Select, LetGo,
           Stream, RenderPass, SendPass, Wake, Hangup, Poll, Seed, Tick, Quit
    <3>2. QED
      BY <1>0, <3>1 DEF UsedTyped
  <2>8. QED
    BY <2>6, <2>7
<1>4. QED
  BY <1>0, <1>1, <1>2, <1>3 DEF PageInv

\* However reconnects overlap with the closes they replace, and whatever other
\* pages are loaded meanwhile, a page somebody is connected to keeps its record
\* and the selection it made (newPage, markStream).
THEOREM SelectionKept == Spec => SelectionIsKept
<1>1. ASSUME PageInv, Next, NEW t \in DOMAIN records, Attached(t) # {}
      PROVE  /\ t \in DOMAIN records'
             /\ records'[t].sel # records[t].sel => used'.requests > used.requests
  <2>0. RecordsTyped /\ UsedTyped /\ StreamsAreCounted
    BY <1>1 DEF PageInv
  <2>1. CASE records' = records
    BY <1>1, <2>1
  <2>2. ASSUME NEW u \in Tabs, Connect(u) PROVE t \in DOMAIN records' /\ records'[t].sel = records[t].sel
    <3>1. records' = Marked(records, u, 1)
      BY <2>2 DEF Connect, StreamOpened
    <3>2. QED
      BY <2>0, <3>1, MarkedKeeps
  <2>3. ASSUME NEW c \in Conns, Leave(c) PROVE t \in DOMAIN records' /\ records'[t].sel = records[t].sel
    <3>1. records' = Marked(records, conns[c].tab, -1)
      BY <2>3 DEF Leave, StreamClosed
    <3>2. QED
      BY <2>0, <3>1, MarkedKeeps
  <2>4. ASSUME NEW u \in Tabs, Select(u) PROVE t \in DOMAIN records' /\ used'.requests > used.requests
    <3>1. /\ used' = [used EXCEPT !.requests = @ + 1]
          /\ DOMAIN records' = DOMAIN records
      BY <2>4 DEF Select, Request
    <3>2. QED
      BY <2>0, <3>1 DEF UsedTyped
  <2>5. ASSUME Load PROVE t \in DOMAIN records' /\ records'[t].sel = records[t].sel
    <3>1. PICK swept \in SUBSET Sweepable : records' = [u \in DOMAIN records \ swept |-> records[u]]
      BY <2>5 DEF Load
    <3>2. t \notin Sweepable
      BY <1>1, <2>0, AttachedIsFinite DEF StreamsAreCounted, Sweepable
    <3>3. QED
      BY <3>1, <3>2
  <2>6. QED
    BY <1>1, <2>1, <2>2, <2>3, <2>4, <2>5 DEF Next, Edit, ChangeOutside, Publish, Shutdown, Browser, LetGo,
         Stream, RenderPass, SendPass, Wake, Hangup, Poll, Seed, Tick, Quit
<1>2. PageInv /\ [Next]_vars =>
        [\A t \in DOMAIN records : Attached(t) # {} =>
           /\ t \in DOMAIN records'
           /\ records'[t].sel # records[t].sel => used'.requests > used.requests]_vars
  BY <1>1
<1>3. QED
  BY <1>2, PageInvInit, PageInvStep, PTL DEF Spec, SelectionIsKept

=============================================================================
