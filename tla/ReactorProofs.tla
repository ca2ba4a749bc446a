--------------------------- MODULE ReactorProofs ---------------------------
(***************************************************************************)
(* Proofs about the dispatcher thread for any set of carrier threads, any   *)
(* number of sessions and any queue bound.                                  *)
(***************************************************************************)
EXTENDS Reactor, SequenceTheorems, FiniteSetTheorems, TLAPS

\* Where the thread is, against the batch and the tasks it has taken.
Position ==
    /\ at = "poll" => batch = <<>>
    /\ at = "call" => batch # <<>> /\ Head(batch) \in Tokens
    /\ at \in {"tasks", "draining"} => batch # <<>> /\ Head(batch) = Waker
    /\ at \in {"poll", "event", "call"} => running = <<>>
    /\ at = "draining" => running # <<>> /\ Head(running) = "drain"

\* HANDLERS holds the live sessions and those whose removal is deferred.
HandlersTrack ==
    /\ \A t \in Tokens : session[t] = "live" => t \in handlers /\ t \notin pending_remove
    /\ \A t \in handlers : session[t] = "live" \/ t \in pending_remove
    /\ \A t \in ready : session[t] = "live"
    /\ \A t \in Tokens : t >= next_token => session[t] = "none"
    /\ \A t \in pending_remove : session[t] # "none"

\* Between two events of a batch nothing waits to be removed; after a sweep something
\* may, and then every event of the batch is of a live session.
BatchIsFresh ==
    at \in {"event", "call"} =>
        \/ pending_remove = {}
        \/ \A i \in DOMAIN batch : batch[i] = Waker \/ session[batch[i]] = "live"

\* The inductive invariant.
IInv ==
    /\ TypeOK /\ Position /\ HandlersTrack /\ BatchIsFresh
    /\ NoStaleCall /\ TasksAreWoken /\ InboundIsDrained

\* What the tail of a sequence keeps.
LEMMA TailFacts ==
    ASSUME NEW S, NEW s \in Seq(S), s # <<>>
    PROVE  /\ Head(s) \in S /\ Tail(s) \in Seq(S)
           /\ \A x : Has(s, x) /\ Head(s) # x => Has(Tail(s), x)
           /\ \A i \in DOMAIN Tail(s) : i + 1 \in DOMAIN s /\ Tail(s)[i] = s[i + 1]
           /\ 1 \in DOMAIN s /\ Head(s) = s[1]
  <1>1. Len(s) \in Nat \ {0} /\ DOMAIN s = 1 .. Len(s) /\ Head(s) = s[1] /\ Head(s) \in S
      BY HeadTailProperties, EmptySeq, LenProperties
  <1>2. Tail(s) \in Seq(S) /\ Len(Tail(s)) = Len(s) - 1 /\ \A i \in 1 .. Len(Tail(s)) : Tail(s)[i] = s[i + 1]
      BY HeadTailProperties
  <1>3. DOMAIN Tail(s) = 1 .. Len(Tail(s))
      BY <1>2, LenProperties
  <1>4. ASSUME NEW x, Has(s, x), Head(s) # x PROVE Has(Tail(s), x)
      <2>1. PICK i \in 1 .. Len(s) : s[i] = x
          BY <1>1, <1>4 DEF Has
      <2>2. i - 1 \in 1 .. Len(Tail(s)) /\ Tail(s)[i - 1] = x
          BY <1>1, <1>2, <1>4, <2>1
      <2> QED BY <1>3, <2>2 DEF Has
  <1> QED BY <1>1, <1>2, <1>3, <1>4

\* What appending keeps and adds.
LEMMA AppendFacts ==
    ASSUME NEW S, NEW s \in Seq(S), NEW e \in S
    PROVE  /\ Append(s, e) \in Seq(S)
           /\ Has(Append(s, e), e)
           /\ \A x : Has(s, x) => Has(Append(s, e), x)
  <1>1. /\ Append(s, e) \in Seq(S) /\ Len(Append(s, e)) = Len(s) + 1 /\ Len(s) \in Nat
        /\ \A i \in 1 .. Len(s) : Append(s, e)[i] = s[i]
        /\ Append(s, e)[Len(s) + 1] = e
      BY AppendProperties, LenProperties
  <1>2. DOMAIN s = 1 .. Len(s) /\ DOMAIN Append(s, e) = 1 .. Len(s) + 1
      BY <1>1, LenProperties
  <1> QED BY <1>1, <1>2 DEF Has

\* The empty sequence has nothing.
LEMMA NoneInEmpty == \A S : <<>> \in Seq(S) /\ DOMAIN <<>> = {} /\ \A x : ~Has(<<>>, x)
  BY EmptySeq DEF Has

\* A poll reports each of its sources and nothing else.
LEMMA OrdersFacts ==
    ASSUME NEW S \in SUBSET (Tokens \cup {Waker}), NEW s \in Orders(S)
    PROVE  /\ s \in Seq(Tokens \cup {Waker})
           /\ \A x \in S : Has(s, x)
           /\ \A i \in DOMAIN s : s[i] \in S
  <1>1. IsFiniteSet(Tokens \cup {Waker})
      <2>1. IsFiniteSet(Tokens)
          <3>1. 1 \in Int /\ MaxTokens \in Int
              BY BoundsAssumption
          <3> QED BY <3>1, FS_Interval DEF Tokens
      <2> QED BY <2>1, FS_AddElement, FS_Singleton, FS_Union
  <1>2. Cardinality(S) \in Nat
      BY <1>1, FS_Subset, FS_CardinalityType
  <1>3. s \in [1 .. Cardinality(S) -> S]
      BY DEF Orders
  <1>4. s \in Seq(S)
      BY <1>2, <1>3, IsASeq
  <1>5. s \in Seq(Tokens \cup {Waker})
      BY <1>2, <1>3, IsASeq
  <1> QED BY <1>3, <1>5 DEF Orders, Has

LEMMA InitIInv == Init => IInv
  <1> SUFFICES ASSUME Init PROVE IInv
      OBVIOUS
  <1>1. TypeOK
      <2>1. /\ inbound \in 0 .. InboundCap /\ next_token \in 1 .. MaxTokens + 1
            /\ queue \in Seq({"drain", "teardown"}) /\ running \in Seq({"drain", "teardown"})
            /\ batch \in Seq(Tokens \cup {Waker})
          BY NoneInEmpty, BoundsAssumption DEF Init
      <2> QED BY <2>1 DEF Init, TypeOK
  <1>2. Position /\ BatchIsFresh /\ NoStaleCall /\ TasksAreWoken /\ InboundIsDrained
      BY DEF Init, Position, BatchIsFresh, NoStaleCall, TasksAreWoken, InboundIsDrained
  <1>3. HandlersTrack
      BY DEF Init, HandlersTrack
  <1> QED BY <1>1, <1>2, <1>3 DEF IInv

\* The part of TypeOK about sockets and sessions.
TableOK ==
    /\ ready \subseteq Tokens /\ handlers \subseteq Tokens /\ pending_remove \subseteq Tokens
    /\ next_token \in 1 .. MaxTokens + 1 /\ nat \in BOOLEAN
    /\ session \in [Tokens -> {"none", "live", "closed", "dropped"}]

\* Types.
LEMMA TypeStep == IInv /\ [Next]_vars => TypeOK'
  <1> SUFFICES ASSUME IInv, [Next]_vars PROVE TypeOK'
      OBVIOUS
  <1> USE BoundsAssumption
  <1>0. TypeOK /\ Position
      BY DEF IInv
  <1>1. ASSUME NEW c \in Carriers, Arrive(c) PROVE TypeOK'
      BY <1>0, <1>1 DEF Arrive, TypeOK, Posters, table
  <1>2. CASE Teardown
      BY <1>0, <1>2 DEF Teardown, TypeOK, Posters, table
  <1>3. ASSUME NEW p \in Posters, Post(p) PROVE TypeOK'
      <2>1. queue' \in Seq({"drain", "teardown"})
          BY <1>0, <1>3, AppendFacts DEF Post, TaskOf, TypeOK
      <2> QED BY <1>0, <1>3, <2>1 DEF Post, TypeOK, table
  <1>4. ASSUME NEW p \in Posters, Wake(p) PROVE TypeOK'
      BY <1>0, <1>4 DEF Wake, TypeOK, table
  <1>5. ASSUME NEW t \in Tokens, SocketReady(t) PROVE TypeOK'
      BY <1>0, <1>5 DEF SocketReady, TypeOK, table, posting
  <1>6. CASE PollReturns
      <2>1. ready \cup (IF woken THEN {Waker} ELSE {}) \in SUBSET (Tokens \cup {Waker})
          BY <1>0 DEF TypeOK
      <2>2. batch' \in Seq(Tokens \cup {Waker})
          BY <1>6, <2>1, OrdersFacts DEF PollReturns
      <2> QED BY <1>0, <1>6, <2>2 DEF PollReturns, TypeOK, table
  <1>7. CASE TakeTasks
      BY <1>0, <1>7, NoneInEmpty DEF TakeTasks, TypeOK, table
  <1>8. CASE SkipEvent \/ TasksDone
      <2>0. batch # <<>> /\ batch' = Tail(batch) /\ batch \in Seq(Tokens \cup {Waker})
          BY <1>0, <1>8 DEF SkipEvent, TasksDone, Position, TypeOK
      <2>1. batch' \in Seq(Tokens \cup {Waker})
          BY <2>0, TailFacts
      <2> QED BY <1>0, <1>8, <2>1 DEF SkipEvent, TasksDone, DrainRemoves, TypeOK, posting
  <1>9. CASE CallHandler \/ StartDrain
      BY <1>0, <1>9 DEF CallHandler, StartDrain, TypeOK, table, posting
  <1>10. CASE HandlerRuns
      <2>1. batch' \in Seq(Tokens \cup {Waker})
          BY <1>0, <1>10, TailFacts DEF HandlerRuns, TypeOK, Position
      <2> QED BY <1>0, <1>10, <2>1 DEF HandlerRuns, TypeOK, posting
  <1>11. CASE DrainPacket
      <2>1. inbound' \in 0 .. InboundCap
          BY <1>0, <1>11 DEF DrainPacket, TypeOK
      <2>2. TableOK'
          <3>1. CASE UNCHANGED <<ready, table>>
              BY <1>0, <3>1 DEF TypeOK, TableOK, table
          <3>2. CASE Register
              BY <1>0, <3>2 DEF Register, TypeOK, TableOK, Tokens
          <3>4. ASSUME NEW t \in Owned, UNCHANGED nat, CloseAndDrop({t}, {}) PROVE TableOK'
              BY <1>0, <3>4 DEF CloseAndDrop, TypeOK, TableOK, Owned, Live
          <3>5. ASSUME NEW t \in Owned, UNCHANGED nat, CloseAndDrop({}, {t}) PROVE TableOK'
              BY <1>0, <3>5 DEF CloseAndDrop, TypeOK, TableOK, Owned, Live
          <3> QED BY <1>11, <3>1, <3>2, <3>4, <3>5 DEF DrainPacket
      <2> QED BY <1>0, <1>11, <2>1, <2>2 DEF DrainPacket, TypeOK, TableOK
  <1>12. CASE DrainEnds
      <2>1. running' \in Seq({"drain", "teardown"})
          BY <1>0, <1>12, TailFacts DEF DrainEnds, TypeOK, Position
      <2> QED BY <1>0, <1>12, <2>1 DEF DrainEnds, TypeOK, table, posting
  <1>13. CASE RunTeardown
      <2>1. running' \in Seq({"drain", "teardown"})
          BY <1>0, <1>13, TailFacts DEF RunTeardown, TypeOK
      <2> QED BY <1>0, <1>13, <2>1 DEF RunTeardown, CloseAndDrop, Owned, Live, TypeOK, posting
  <1>14. CASE Sweep
      BY <1>0, <1>14 DEF Sweep, CloseAndDrop, Owned, Live, TypeOK, posting
  <1>15. CASE UNCHANGED vars
      BY <1>0, <1>15 DEF TypeOK, vars, table, posting
  <1> QED
      BY <1>1, <1>2, <1>3, <1>4, <1>5, <1>6, <1>7, <1>8, <1>9, <1>10, <1>11, <1>12, <1>13, <1>14, <1>15
      DEF Next, Dispatch

\* Where the thread is.
LEMMA PositionStep == IInv /\ [Next]_vars => Position'
  <1> SUFFICES ASSUME IInv, [Next]_vars PROVE Position'
      OBVIOUS
  <1>0. TypeOK /\ Position
      BY DEF IInv
  <1>1. CASE UNCHANGED <<at, batch, running>>
      BY <1>0, <1>1 DEF Position
  <1>2. CASE PollReturns \/ TakeTasks \/ SkipEvent \/ StartDrain \/ DrainEnds \/ TasksDone \/ HandlerRuns
      BY <1>0, <1>2 DEF PollReturns, TakeTasks, SkipEvent, StartDrain, DrainEnds, TasksDone, HandlerRuns, Position
  <1>3. CASE CallHandler
      BY <1>0, <1>3 DEF CallHandler, Position, TypeOK
  <1>4. CASE RunTeardown \/ Sweep
      BY <1>0, <1>4 DEF RunTeardown, Sweep, Position
  <1>5. CASE DrainPacket
      BY <1>1, <1>5 DEF DrainPacket
  <1>6. ASSUME NEW p \in Posters, Post(p) \/ Wake(p) PROVE Position'
      BY <1>1, <1>6 DEF Post, Wake
  <1>7. ASSUME NEW c \in Carriers, Arrive(c) PROVE Position'
      BY <1>1, <1>7 DEF Arrive
  <1>8. ASSUME NEW t \in Tokens, SocketReady(t) PROVE Position'
      BY <1>1, <1>8 DEF SocketReady
  <1>9. CASE Teardown \/ UNCHANGED vars
      BY <1>1, <1>9 DEF Teardown, vars
  <1> QED
      BY <1>2, <1>3, <1>4, <1>5, <1>6, <1>7, <1>8, <1>9 DEF Next, Dispatch

\* Closing and dropping sessions keeps the table of handlers in step.
LEMMA CloseAndDropTracks ==
    ASSUME TypeOK, HandlersTrack, NEW T \in SUBSET Owned, NEW F \in SUBSET Owned, CloseAndDrop(T, F)
    PROVE  HandlersTrack'
  BY DEF TypeOK, HandlersTrack, CloseAndDrop, Owned, Live

\* So does applying the deferred removals, after which HANDLERS is exactly the live ones.
LEMMA RemovesTrack ==
    ASSUME TypeOK, HandlersTrack, DrainRemoves, UNCHANGED <<ready, next_token, session>>
    PROVE  HandlersTrack' /\ pending_remove' = {}
  BY DEF TypeOK, HandlersTrack, DrainRemoves

LEMMA TrackStep == IInv /\ [Next]_vars => HandlersTrack'
  <1> SUFFICES ASSUME IInv, [Next]_vars PROVE HandlersTrack'
      OBVIOUS
  <1>0. TypeOK /\ Position /\ HandlersTrack
      BY DEF IInv
  <1>1. CASE UNCHANGED <<ready, table>>
      BY <1>0, <1>1 DEF HandlersTrack, table
  <1>2. CASE SkipEvent \/ TasksDone
      BY <1>0, <1>2, RemovesTrack DEF SkipEvent, TasksDone
  <1>3. CASE HandlerRuns
      BY <1>0, <1>3 DEF HandlerRuns, HandlersTrack, TypeOK, Live
  <1>4. CASE DrainPacket
      <2>1. CASE Register
          BY <1>0, <2>1 DEF Register, HandlersTrack, TypeOK, Tokens
      <2>2. ASSUME NEW t \in Owned, CloseAndDrop({t}, {}) PROVE HandlersTrack'
          BY <1>0, <2>2, CloseAndDropTracks
      <2>3. ASSUME NEW t \in Owned, CloseAndDrop({}, {t}) PROVE HandlersTrack'
          BY <1>0, <2>3, CloseAndDropTracks
      <2> QED BY <1>1, <1>4, <2>1, <2>2, <2>3 DEF DrainPacket
  <1>5. CASE RunTeardown \/ Sweep
      BY <1>0, <1>5, CloseAndDropTracks DEF RunTeardown, Sweep
  <1>6. CASE PollReturns
      BY <1>0, <1>6 DEF PollReturns, HandlersTrack, table
  <1>7. CASE TakeTasks \/ CallHandler \/ StartDrain \/ DrainEnds \/ Teardown \/ UNCHANGED vars
      BY <1>1, <1>7 DEF TakeTasks, CallHandler, StartDrain, DrainEnds, Teardown, vars
  <1>8. ASSUME NEW p \in Posters, Post(p) \/ Wake(p) PROVE HandlersTrack'
      BY <1>1, <1>8 DEF Post, Wake
  <1>9. ASSUME NEW c \in Carriers, Arrive(c) PROVE HandlersTrack'
      BY <1>1, <1>9 DEF Arrive
  <1>10. ASSUME NEW t \in Tokens, SocketReady(t) PROVE HandlersTrack'
      BY <1>0, <1>10 DEF SocketReady, HandlersTrack, table
  <1> QED
      BY <1>2, <1>3, <1>4, <1>5, <1>6, <1>7, <1>8, <1>9, <1>10 DEF Next, Dispatch

\* What other threads do leaves the sockets' part alone.
LEMMA OthersLeaveTable ==
    ASSUME \/ \E c \in Carriers : Arrive(c)
           \/ Teardown
           \/ \E p \in Posters : Post(p) \/ Wake(p)
           \/ \E t \in Tokens : SocketReady(t)
           \/ UNCHANGED vars
    PROVE  UNCHANGED <<at, batch, running, table>>
  BY DEF Arrive, Teardown, Post, Wake, SocketReady, vars

LEMMA FreshStep == IInv /\ [Next]_vars => BatchIsFresh' /\ NoStaleCall'
  <1> SUFFICES ASSUME IInv, [Next]_vars PROVE BatchIsFresh' /\ NoStaleCall'
      OBVIOUS
  <1>0. TypeOK /\ Position /\ HandlersTrack /\ BatchIsFresh /\ NoStaleCall
      BY DEF IInv
  <1>1. CASE UNCHANGED <<at, batch, running, table>>
      BY <1>0, <1>1 DEF BatchIsFresh, NoStaleCall, table
  <1>2. CASE SkipEvent \/ TasksDone
      BY <1>2 DEF SkipEvent, TasksDone, DrainRemoves, BatchIsFresh, NoStaleCall
  <1>3. CASE HandlerRuns
      BY <1>3 DEF HandlerRuns, BatchIsFresh, NoStaleCall
  <1>4. CASE DrainPacket
      BY <1>4 DEF DrainPacket, BatchIsFresh, NoStaleCall
  <1>5. CASE RunTeardown \/ Sweep \/ TakeTasks \/ StartDrain \/ DrainEnds
      BY <1>5 DEF RunTeardown, Sweep, TakeTasks, StartDrain, DrainEnds, BatchIsFresh, NoStaleCall
  <1>6. CASE PollReturns
      <2>1. ready \cup (IF woken THEN {Waker} ELSE {}) \in SUBSET (Tokens \cup {Waker})
          BY <1>0 DEF TypeOK
      <2>2. \A i \in DOMAIN batch' : batch'[i] \in ready \cup (IF woken THEN {Waker} ELSE {})
          BY <1>6, <2>1, OrdersFacts DEF PollReturns
      <2>3. \A i \in DOMAIN batch' : batch'[i] = Waker \/ session[batch'[i]] = "live"
          BY <1>0, <2>2 DEF HandlersTrack
      <2>4. BatchIsFresh'
          BY <1>6, <2>3 DEF PollReturns, BatchIsFresh, table
      <2> QED BY <1>6, <2>4 DEF PollReturns, NoStaleCall
  <1>7. CASE CallHandler
      <2>1. batch # <<>> /\ Head(batch) # Waker /\ Head(batch) \in handlers
          BY <1>7 DEF CallHandler
      <2>2. 1 \in DOMAIN batch /\ Head(batch) = batch[1]
          BY <1>0, <2>1, TailFacts DEF TypeOK
      <2>3. session[Head(batch)] = "live"
          BY <1>0, <1>7, <2>1, <2>2 DEF CallHandler, BatchIsFresh, HandlersTrack
      <2> QED BY <1>0, <1>7, <2>3 DEF CallHandler, BatchIsFresh, NoStaleCall, table
  <1> QED
      BY <1>1, <1>2, <1>3, <1>4, <1>5, <1>6, <1>7, OthersLeaveTable DEF Next, Dispatch

LEMMA WokenStep == IInv /\ [Next]_vars => TasksAreWoken'
  <1> SUFFICES ASSUME IInv, [Next]_vars PROVE TasksAreWoken'
      OBVIOUS
  <1>0. TypeOK /\ Position /\ TasksAreWoken
      BY DEF IInv
  <1>1. CASE UNCHANGED <<pc, queue, woken, at, batch>>
      BY <1>0, <1>1 DEF TasksAreWoken
  <1>2. ASSUME NEW p \in Posters, Post(p) PROVE TasksAreWoken'
      BY <1>0, <1>2 DEF Post, TasksAreWoken, TypeOK
  <1>3. ASSUME NEW p \in Posters, Wake(p) PROVE TasksAreWoken'
      BY <1>3 DEF Wake, TasksAreWoken
  <1>4. ASSUME NEW c \in Carriers, Arrive(c) PROVE TasksAreWoken'
      <2>1. \A p \in Posters : pc[p] = "wake" => pc'[p] = "wake"
          BY <1>0, <1>4 DEF Arrive, TypeOK, Posters
      <2> QED BY <1>0, <1>4, <2>1 DEF Arrive, TasksAreWoken
  <1>5. CASE Teardown
      <2>1. \A p \in Posters : pc[p] = "wake" => pc'[p] = "wake"
          BY <1>0, <1>5 DEF Teardown, TypeOK, Posters
      <2> QED BY <1>0, <1>5, <2>1 DEF Teardown, TasksAreWoken
  <1>6. CASE PollReturns
      <2>1. ready \cup (IF woken THEN {Waker} ELSE {}) \in SUBSET (Tokens \cup {Waker})
          BY <1>0 DEF TypeOK
      <2>2. woken => Has(batch', Waker)
          BY <1>6, <2>1, OrdersFacts DEF PollReturns
      <2> QED BY <1>0, <1>6, <2>2 DEF PollReturns, TasksAreWoken
  <1>7. CASE TakeTasks
      BY <1>7 DEF TakeTasks, TasksAreWoken
  <1>8. CASE SkipEvent \/ HandlerRuns
      <2>1. batch # <<>> /\ Head(batch) # Waker /\ batch' = Tail(batch) /\ at' = "event"
          BY <1>0, <1>8 DEF SkipEvent, HandlerRuns, Position, Tokens, Waker
      <2>2. Has(batch, Waker) => Has(batch', Waker)
          BY <1>0, <2>1, TailFacts DEF TypeOK
      <2> QED BY <1>0, <1>8, <2>1, <2>2 DEF SkipEvent, HandlerRuns, TasksAreWoken, posting
  <1>9. CASE CallHandler
      BY <1>0, <1>9 DEF CallHandler, TasksAreWoken, posting
  <1>10. CASE TasksDone \/ StartDrain \/ DrainEnds
      BY <1>0, <1>10 DEF TasksDone, StartDrain, DrainEnds, TasksAreWoken, posting
  <1>11. CASE RunTeardown \/ DrainPacket
      BY <1>1, <1>11 DEF RunTeardown, DrainPacket, posting
  <1>12. CASE Sweep
      <2>1. ~Has(batch, Waker)
          BY <1>12, NoneInEmpty DEF Sweep
      <2> QED BY <1>0, <1>12, <2>1 DEF Sweep, TasksAreWoken, posting
  <1>13. CASE UNCHANGED vars
      BY <1>1, <1>13 DEF vars, posting
  <1>14. ASSUME NEW t \in Tokens, SocketReady(t) PROVE TasksAreWoken'
      BY <1>1, <1>14 DEF SocketReady, posting
  <1> QED
      BY <1>2, <1>3, <1>4, <1>5, <1>6, <1>7, <1>8, <1>9, <1>10, <1>11, <1>12, <1>13, <1>14 DEF Next, Dispatch

LEMMA DrainedStep == IInv /\ [Next]_vars => InboundIsDrained'
  <1> SUFFICES ASSUME IInv, [Next]_vars PROVE InboundIsDrained'
      OBVIOUS
  <1>0. TypeOK /\ Position /\ InboundIsDrained
      BY DEF IInv
  <1>1. CASE UNCHANGED <<pc, inbound, queue, running>>
      BY <1>0, <1>1 DEF InboundIsDrained
  <1>2. ASSUME NEW p \in Posters, Post(p) PROVE InboundIsDrained'
      <2>1. TaskOf(p) \in {"drain", "teardown"}
          BY DEF TaskOf
      <2>2. /\ Has(queue, "drain") => Has(queue', "drain")
            /\ Has(queue', TaskOf(p))
          BY <1>0, <1>2, <2>1, AppendFacts DEF Post, TypeOK
      <2>3. \A c \in Carriers : c # p => pc'[c] = pc[c]
          BY <1>0, <1>2 DEF Post, TypeOK, Posters
      <2>4. p \in Carriers => TaskOf(p) = "drain"
          BY CloserAssumption DEF TaskOf
      <2> QED BY <1>0, <1>2, <2>2, <2>3, <2>4 DEF Post, InboundIsDrained
  <1>3. ASSUME NEW p \in Posters, Wake(p) PROVE InboundIsDrained'
      <2>1. \A c \in Carriers : pc[c] = "post" => pc'[c] = "post"
          BY <1>0, <1>3 DEF Wake, TypeOK, Posters
      <2> QED BY <1>0, <1>3, <2>1 DEF Wake, InboundIsDrained
  <1>4. ASSUME NEW c \in Carriers, Arrive(c) PROVE InboundIsDrained'
      <2>1. \A d \in Carriers : pc[d] = "post" => pc'[d] = "post"
          BY <1>0, <1>4 DEF Arrive, TypeOK, Posters
      <2>2. inbound = 0 => pc'[c] = "post"
          BY <1>0, <1>4 DEF Arrive, TypeOK, Posters
      <2>3. inbound = 0 \/ inbound > 0
          BY <1>0, BoundsAssumption DEF TypeOK
      <2> QED BY <1>0, <1>4, <2>1, <2>2, <2>3 DEF Arrive, InboundIsDrained
  <1>5. CASE Teardown
      <2>1. \A c \in Carriers : pc[c] = "post" => pc'[c] = "post"
          BY <1>0, <1>5 DEF Teardown, TypeOK, Posters
      <2> QED BY <1>0, <1>5, <2>1 DEF Teardown, InboundIsDrained
  <1>6. CASE TakeTasks
      <2>1. ~Has(running, "drain")
          BY <1>0, <1>6, NoneInEmpty DEF TakeTasks, Position
      <2> QED BY <1>0, <1>6, <2>1 DEF TakeTasks, InboundIsDrained
  <1>7. CASE DrainPacket
      <2>1. running # <<>> /\ Head(running) = "drain"
          BY <1>0, <1>7 DEF DrainPacket, Position
      <2>2. Has(running, "drain")
          BY <1>0, <2>1, TailFacts DEF TypeOK, Has
      <2> QED BY <1>7, <2>2 DEF DrainPacket, InboundIsDrained
  <1>8. CASE DrainEnds
      BY <1>8 DEF DrainEnds, InboundIsDrained, posting
  <1>9. CASE RunTeardown
      <2>1. Has(running, "drain") => Has(running', "drain")
          BY <1>0, <1>9, TailFacts DEF RunTeardown, TypeOK
      <2> QED BY <1>0, <1>9, <2>1 DEF RunTeardown, InboundIsDrained, posting
  <1>10. CASE PollReturns \/ SkipEvent \/ CallHandler \/ HandlerRuns \/ StartDrain \/ TasksDone \/ Sweep
      BY <1>1, <1>10 DEF PollReturns, SkipEvent, CallHandler, HandlerRuns, StartDrain, TasksDone, Sweep, posting
  <1>11. CASE UNCHANGED vars
      BY <1>1, <1>11 DEF vars, posting
  <1>12. ASSUME NEW t \in Tokens, SocketReady(t) PROVE InboundIsDrained'
      BY <1>1, <1>12 DEF SocketReady, posting
  <1> QED
      BY <1>2, <1>3, <1>4, <1>5, <1>6, <1>7, <1>8, <1>9, <1>10, <1>11, <1>12 DEF Next, Dispatch

LEMMA Inductive == Spec => []IInv
  <1>1. IInv /\ [Next]_vars => IInv'
      BY TypeStep, PositionStep, TrackStep, FreshStep, WokenStep, DrainedStep DEF IInv
  <1> QED BY InitIInv, <1>1, PTL DEF Spec

\* Types.
THEOREM TypeCorrect == Spec => []TypeOK
  BY Inductive, PTL DEF IInv

\* The reactor only ever calls the handler of a session that is alive.
THEOREM CallsAreFresh == Spec => []NoStaleCall
  BY Inductive, PTL DEF IInv

\* A posted task always has a wake-up to come.
THEOREM WakesFollowPosts == Spec => []TasksAreWoken
  BY Inductive, PTL DEF IInv

\* Posting a drain for the first packet only is enough for all of them.
THEOREM DrainsFollowPackets == Spec => []InboundIsDrained
  BY Inductive, PTL DEF IInv
=============================================================================
