----------------------------- MODULE LiveUpdates -----------------------------
(***************************************************************************)
(* How a change reaches the pages Forge has open.  A browser tab loads a   *)
(* page and subscribes to one stream of patches; a request that changes    *)
(* something publishes an event; a poller, shared by all streams, watches  *)
(* what other processes change -- the game's database and the project's    *)
(* files -- and publishes when it has moved; a stream renders when it      *)
(* starts and after every burst of events.                                 *)
(*                                                                         *)
(* A page is three regions here: what is outside Forge, what the server    *)
(* holds (the project and a notice of the last refusal), and the selection *)
(* of this page.  Every kind of event reaches every stream, as in          *)
(* forgeEvents.                                                            *)
(***************************************************************************)
EXTENDS Integers, FiniteSets

CONSTANTS Tabs,                   \* the pages that are followed
          Conns, Pollers,         \* slots, used again
          None,
          Outside,                \* states of the database and the files
          Server,                 \* states of what Forge holds: [project, notice]
          Buffer,                 \* eventbus.ChannelBuffer
          MaxRequests, MaxOutside, MaxConnects   \* bounds

ASSUME TabsAssumption == None \notin Tabs \cup Conns \cup Pollers
ASSUME StatesAssumption ==
  /\ 0 \in Outside
  /\ \A s \in Server : [s EXCEPT !.notice = FALSE] \in Server
ASSUME ConnsAssumption == IsFiniteSet(Conns)
ASSUME BufferAssumption == Buffer \in Nat \ {0}

VARIABLES outside,     \* the database and the files
          server,      \* what every page renders of Forge itself
          unpublished, \* requests that have changed something but not published
          tabs,        \* the browser: [conn, shows]
          records,     \* pageStates: tab -> [sel, streams]
          stamps,      \* pageRenders: tab -> what its page load rendered
          conns,       \* handleModeEvents: [at, tab, version, view, last, stop]
          buffered,    \* events in a subscription
          streams,     \* Server.streams
          pollCancel,  \* Server.pollCancel: the poller in charge
          pollers,     \* pollEngine: [at, last, cancelled]
          down,        \* Shutdown was called
          used         \* how much of each bound is used

vars == <<outside, server, unpublished, tabs, records, stamps, conns, buffered,
          streams, pollCancel, pollers, down, used>>

Regions == {"outside", "server", "sel"}
Unsent == [r \in Regions |-> None]

IdleConn == [at |-> "idle", tab |-> None, version |-> Unsent, view |-> Unsent,
             last |-> Unsent, stop |-> None]
NoPoller == [at |-> "gone", last |-> None, cancelled |-> FALSE]

Running(k) == pollers[k].at # "gone"

\* Faulty variant: subscribed once the first render has been sent.
ListeningLate(c) == conns[c].at \in {"wait", "leave"}

\* The stream of a connection is subscribed from before its first render to
\* its end.
Listening(c) == conns[c].at # "idle"

\* What a render of the tab's regions gives now.
PageSel(t) == IF t \in DOMAIN records THEN records[t].sel ELSE 0
Render(t) == [outside |-> outside, server |-> server, sel |-> PageSel(t)]

-----------------------------------------------------------------------------
(* Events *)

\* PublishNonBlocking: dropped where there is no room.
Received == [c \in Conns |-> IF Listening(c) /\ buffered[c] < Buffer
                             THEN buffered[c] + 1 ELSE buffered[c]]

\* The publish deferred by sameOriginOnly, after the handler.
Publish ==
  /\ unpublished > 0
  /\ unpublished' = unpublished - 1
  /\ buffered' = Received
  /\ UNCHANGED <<outside, server, tabs, records, stamps, conns, streams, pollCancel, pollers, down, used>>

Request == /\ used.requests < MaxRequests /\ ~down
           /\ used' = [used EXCEPT !.requests = @ + 1]
           /\ unpublished' = unpublished + 1

\* A route that changes the project, or refuses and says why.
Edit ==
  /\ Request
  /\ server' \in Server \ {server}
  /\ UNCHANGED <<outside, tabs, records, stamps, conns, buffered, streams, pollCancel, pollers, down>>

\* handleSelect, from the page in tab t.
Select(t) ==
  /\ Request
  /\ records' = [u \in DOMAIN records |->
                   IF u = t THEN [records[u] EXCEPT !.sel = 1 - @] ELSE records[u]]
  /\ UNCHANGED <<outside, server, tabs, stamps, conns, buffered, streams, pollCancel, pollers, down>>

\* The game, or whoever else writes the project's files.
ChangeOutside ==
  /\ used.outside < MaxOutside /\ ~down
  /\ used' = [used EXCEPT !.outside = @ + 1]
  /\ outside' \in Outside \ {outside}
  /\ UNCHANGED <<server, unpublished, tabs, records, stamps, conns, buffered, streams, pollCancel, pollers, down>>

-----------------------------------------------------------------------------
(* Loading a page: handleMode *)

\* newPage sweeps: of the records without a stream, the old ones, or all of
\* them when there are too many.  rememberPage sweeps stamps in the same way.
Sweepable == {t \in DOMAIN records : records[t].streams = 0}

\* A page is loaded that is not one of Tabs.  It drops the notice of another
\* page's refusal, tells the others, and is issued its record and its stamp.
Load ==
  /\ Request
  /\ server' = [server EXCEPT !.notice = FALSE]
  /\ \E swept \in SUBSET Sweepable, lost \in SUBSET DOMAIN stamps :
       /\ records' = [t \in DOMAIN records \ swept |-> records[t]]
       /\ stamps' = [t \in DOMAIN stamps \ lost |-> stamps[t]]
  /\ UNCHANGED <<outside, tabs, conns, buffered, streams, pollCancel, pollers, down>>

-----------------------------------------------------------------------------
(* The stream of a page: handleModeEvents *)

Marked(rs, t, by) ==
  [u \in DOMAIN rs |-> IF u # t THEN rs[u]
     ELSE [rs[u] EXCEPT !.streams = IF @ + by < 0 THEN 0 ELSE @ + by]]

StreamOpened(rs, t) == Marked(rs, t, 1)

\* Faulty variant: a flag instead of a count.
StreamFlagDown(rs, t) ==
  [u \in DOMAIN rs |-> IF u = t THEN [rs[u] EXCEPT !.streams = 0] ELSE rs[u]]

StreamClosed(rs, t) == Marked(rs, t, -1)

FreePollers == {k \in Pollers : ~Running(k) /\ \A c \in Conns : conns[c].stop # k}
FreeConns == {c \in Conns : conns[c].at = "idle"}

\* Faulty variant: whether one is running is not asked.
HasPollerNever == FALSE

HasPoller == pollCancel # None

\* enginePollStartedLocked
PollStarted ==
  IF HasPoller THEN UNCHANGED <<pollCancel, pollers>>
  ELSE /\ FreePollers # {}
       /\ pollCancel' = CHOOSE k \in FreePollers : TRUE
       /\ pollers' = [pollers EXCEPT ![pollCancel'] =
            [at |-> "seeding", last |-> None, cancelled |-> down]]

\* The stamps after a page's stamp was presented.
Spent(t) == [u \in DOMAIN stamps \ {t} |-> stamps[u]]

\* The tab opens its stream, or opens it again after it was hidden: the handler
\* up to its loop.  The connection it had, if any, it has let go of.
Connect(t) ==
  /\ tabs[t].conn = None /\ FreeConns # {}
  /\ used.connects < MaxConnects
  /\ used' = [used EXCEPT !.connects = @ + 1]
  /\ LET c == CHOOSE d \in FreeConns : TRUE IN
       /\ tabs' = [tabs EXCEPT ![t].conn = c]
       /\ conns' = [conns EXCEPT ![c] = [IdleConn EXCEPT !.at = "render", !.tab = t,
            !.version = IF t \in DOMAIN stamps THEN stamps[t] ELSE Unsent]]
  /\ records' = StreamOpened(records, t)
  /\ streams' = streams + 1
  /\ PollStarted
  /\ stamps' = Spent(t)
  /\ UNCHANGED <<outside, server, unpublished, buffered, down>>

\* One pass: render every region ...
RenderPass(c) ==
  /\ conns[c].at = "render"
  /\ conns' = [conns EXCEPT ![c].at = "send", ![c].view = Render(conns[c].tab)]
  /\ UNCHANGED <<outside, server, unpublished, tabs, records, stamps, buffered, streams, pollCancel, pollers, down, used>>

\* ... and patch those that changed.  The first pass takes what the page load
\* rendered, if it says the same, for sent.
Held(conn) == IF conn.version = conn.view THEN conn.view ELSE conn.last
Patched(conn, shows) ==
  [r \in Regions |-> IF conn.view[r] = Held(conn)[r] THEN shows[r] ELSE conn.view[r]]

\* What a connection is after its pass.
AfterPass(conn) == [conn EXCEPT !.at = "wait", !.last = conn.view, !.view = Unsent,
                               !.version = Unsent]

Reaches(c) == tabs[conns[c].tab].conn = c

SendPass(c) ==
  /\ conns[c].at = "send"
  /\ conns' = [conns EXCEPT ![c] = AfterPass(@)]
  /\ tabs' = IF Reaches(c)
             THEN [tabs EXCEPT ![conns[c].tab].shows = Patched(conns[c], @)]
             ELSE tabs
  /\ UNCHANGED <<outside, server, unpublished, records, stamps, buffered, streams, pollCancel, pollers, down, used>>

\* A burst of events is one more pass.
Wake(c) ==
  /\ conns[c].at = "wait" /\ buffered[c] > 0
  /\ buffered' = [buffered EXCEPT ![c] = 0]
  /\ conns' = [conns EXCEPT ![c].at = "render"]
  /\ UNCHANGED <<outside, server, unpublished, tabs, records, stamps, streams, pollCancel, pollers, down, used>>

\* The last stream takes the poller down: told to stop here, outside the lock,
\* and awaited below.
Cancelled == [pollers EXCEPT ![pollCancel].cancelled = TRUE]

LastStream == streams = 1

\* Faulty variant: the stream does not know of the shutdown.
DoneByClient(c) == ~Reaches(c)

\* The client has gone, or streamsCtx was cancelled.
Done(c) == ~Reaches(c) \/ down

\* The connection is done, or a patch could not be sent: s.streams--.
Hangup(c) ==
  /\ \/ conns[c].at = "wait" /\ Done(c)
     \/ conns[c].at = "send" /\ ~Reaches(c) /\ conns[c].view # Held(conns[c])
  /\ streams' = streams - 1
  /\ IF LastStream
     THEN /\ pollers' = Cancelled /\ pollCancel' = None
          /\ conns' = [conns EXCEPT ![c].at = "leave", ![c].stop = pollCancel]
     ELSE /\ conns' = [conns EXCEPT ![c].at = "leave"]
          /\ UNCHANGED <<pollers, pollCancel>>
  /\ UNCHANGED <<outside, server, unpublished, tabs, records, stamps, buffered, down, used>>

\* stop() returned, streamClosed, Unsubscribe.
Leave(c) ==
  /\ conns[c].at = "leave"
  /\ conns[c].stop # None => ~Running(conns[c].stop)
  /\ records' = StreamClosed(records, conns[c].tab)
  /\ conns' = [conns EXCEPT ![c] = IdleConn]
  /\ buffered' = [buffered EXCEPT ![c] = 0]
  /\ UNCHANGED <<outside, server, unpublished, tabs, stamps, streams, pollCancel, pollers, down, used>>

\* The tab is hidden, or closed.
LetGo(t) ==
  /\ tabs[t].conn # None /\ ~down
  /\ tabs' = [tabs EXCEPT ![t].conn = None]
  /\ UNCHANGED <<outside, server, unpublished, records, stamps, conns, buffered, streams, pollCancel, pollers, down, used>>

-----------------------------------------------------------------------------
(* The poller: pollEngine *)

\* What it compares with is read in its own goroutine.
Seed(k) ==
  /\ pollers[k].at = "seeding"
  /\ pollers' = [pollers EXCEPT ![k].at = "wait", ![k].last = outside]
  /\ UNCHANGED <<outside, server, unpublished, tabs, records, stamps, conns, buffered, streams, pollCancel, down, used>>

\* A change is published once, on the tick that finds it.
Tick(k) ==
  /\ pollers[k].at = "wait" /\ outside # pollers[k].last
  /\ pollers' = [pollers EXCEPT ![k].last = outside]
  /\ buffered' = Received
  /\ UNCHANGED <<outside, server, unpublished, tabs, records, stamps, conns, streams, pollCancel, down, used>>

Quit(k) ==
  /\ pollers[k].at = "wait" /\ pollers[k].cancelled
  /\ pollers' = [pollers EXCEPT ![k] = NoPoller]
  /\ UNCHANGED <<outside, server, unpublished, tabs, records, stamps, conns, buffered, streams, pollCancel, down, used>>

\* Shutdown cancels streamsCtx, from which every poller's context derives, and
\* then waits for the requests in flight.
Shutdown ==
  /\ ~down
  /\ down' = TRUE
  /\ pollers' = [k \in Pollers |-> [pollers[k] EXCEPT !.cancelled = Running(k)]]
  /\ UNCHANGED <<outside, server, unpublished, tabs, records, stamps, conns, buffered, streams, pollCancel, used>>

-----------------------------------------------------------------------------
\* Every page of Tabs has just been loaded.
Init ==
  /\ outside = 0
  /\ server \in {s \in Server : ~s.notice}
  /\ unpublished = 0
  /\ LET shows == [outside |-> outside, server |-> server, sel |-> 0] IN
       /\ tabs = [t \in Tabs |-> [conn |-> None, shows |-> shows]]
       /\ stamps = [t \in Tabs |-> shows]
  /\ records = [t \in Tabs |-> [sel |-> 0, streams |-> 0]]
  /\ conns = [c \in Conns |-> IdleConn] /\ buffered = [c \in Conns |-> 0]
  /\ streams = 0 /\ pollCancel = None
  /\ pollers = [k \in Pollers |-> NoPoller]
  /\ down = FALSE
  /\ used = [requests |-> 0, outside |-> 0, connects |-> 0]

Browser(t) == Select(t) \/ LetGo(t) \/ Connect(t)
Stream(c) == RenderPass(c) \/ SendPass(c) \/ Wake(c) \/ Hangup(c) \/ Leave(c)
Poll(k) == Seed(k) \/ Tick(k) \/ Quit(k)

Next == \/ Edit \/ Load \/ ChangeOutside \/ Publish \/ Shutdown
        \/ \E t \in Tabs : Browser(t)
        \/ \E c \in Conns : Stream(c)
        \/ \E k \in Pollers : Poll(k)

Spec == Init /\ [][Next]_vars

\* The goroutines of the server run; users, browsers and the game need not.
FairSpec == /\ Spec
            /\ WF_vars(Publish)
            /\ \A c \in Conns : WF_vars(Stream(c))
            /\ \A k \in Pollers : WF_vars(Poll(k)) /\ WF_vars(Quit(k))

-----------------------------------------------------------------------------
Live(t) == tabs[t].conn # None /\ ~down

Attached(t) == {c \in Conns : conns[c].at # "idle" /\ conns[c].tab = t}

\* A tab that holds a connection keeps its record and the selection it made,
\* however its reconnects overlap with the closes they replace and whatever
\* other pages load meanwhile (markStream, newPage).
SelectionIsKept ==
  [][\A t \in DOMAIN records : Attached(t) # {} =>
       /\ t \in DOMAIN records'
       /\ records'[t].sel # records[t].sel => used'.requests > used.requests]_vars

\* While a stream is counted there is a poller that nobody has told to stop,
\* and there is never a second one (enginePollStartedLocked).
OnePollerWhileWatched ==
  LET watching == {k \in Pollers : Running(k) /\ ~pollers[k].cancelled} IN
  /\ Cardinality(watching) <= 1
  /\ ~down => (streams > 0 <=> watching # {})

\* What a page shows is as it should be.
OwnShown(t) == tabs[t].shows.server = server /\ tabs[t].shows.sel = PageSel(t)
OutsideShown(t) == tabs[t].shows.outside = outside

\* There is a change outside that the poller has yet to see.
Unseen == \E k \in Pollers : /\ pollers[k].at = "wait" /\ ~pollers[k].cancelled
                             /\ pollers[k].last # outside

\* What the server itself changed -- an edit, a refusal, another page's load, a
\* selection -- gets onto every page that stays connected, although events are
\* dropped and arrive during renders; and so does a change outside Forge, if
\* it stays and the poller has yet to see it (handleModeEvents,
\* PublishNonBlocking, pollEngine).
ChangesArrive ==
  \A t \in Tabs :
    /\ (Live(t) /\ ~OwnShown(t)) ~> (OwnShown(t) \/ ~Live(t))
    /\ \A o \in Outside :
         (Live(t) /\ ~OutsideShown(t) /\ Unseen /\ outside = o)
           ~> (OutsideShown(t) \/ ~Live(t) \/ outside # o)

\* Shutdown releases every stream and every poller, so that nothing it waits
\* for is left (Shutdown, enginePollStoppedLocked).
ShutdownReturns ==
  down ~> /\ \A c \in Conns : conns[c].at = "idle"
          /\ \A k \in Pollers : ~Running(k)
=============================================================================
