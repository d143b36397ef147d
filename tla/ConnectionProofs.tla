-------------------------- MODULE ConnectionProofs --------------------------
(* The flags, the timer and the queue of a connection, for any numbers of    *)
(* frames and requests and any user, and the frames on their way to a client *)
(* that plays, for a user who waits until it has played those it received.   *)
EXTENDS Connection, TLAPS, WellFoundedInduction, SequenceTheorems

Callbacks == {"menu", "game", "Leave", "Frame"}
Requests ==
    [id : {"Login"}, cb : Callbacks, flags : BOOLEAN, sync : Nat]
    \cup [id : {"None", "Leave", "Frame", "Pluse"}]

Fields == {"sock", "conHandler", "logining", "logined", "wait", "handler", "queue", "out",
           "pluse", "timer", "scene", "goTo", "tip", "dialogs",
           "frameNO", "frameQueue", "dxxw", "playing"}

\* The connection of a client has its types.
Typed(c) ==
    /\ DOMAIN c = Fields
    /\ c.sock \in {"none", "connecting", "open"}
    /\ c.conHandler \in Callbacks \cup {"none"}
    /\ c.sock = "connecting" => c.conHandler \in Callbacks
    /\ c.queue \in Seq(Requests) /\ c.out \in Seq(Requests)
    /\ c.handler \in Requests
    /\ c.frameNO \in Nat

\* The flags, what is waited for and what is under way belong to an open socket.
Flags(c) ==
    /\ c.logined => c.sock = "open"
    /\ c.wait => c.sock = "open"
    /\ c.out # <<>> => c.sock = "open"
    /\ c.logining => /\ c.sock = "open" /\ c.wait
                     /\ c.handler.id = "Login" /\ c.handler.flags

Core(c) == Typed(c) /\ Flags(c)
Timed(c) == c.wait => c.timer

(* What most handlers do: the connection stays in order, an open socket open *)
(* and a request that waits timed.                                           *)
Sound(c, d) ==
    /\ Core(d)
    /\ Timed(c) => Timed(d)
    /\ c.sock = "open" => d.sock = "open"

\* d has the connection of c, whatever the user sees.
Same(c, d) ==
    /\ DOMAIN d = Fields
    /\ d.sock = c.sock /\ d.conHandler = c.conHandler
    /\ d.logining = c.logining /\ d.logined = c.logined
    /\ d.wait = c.wait /\ d.handler = c.handler /\ d.timer = c.timer
    /\ d.queue = c.queue /\ d.out = c.out /\ d.frameNO = c.frameNO

-----------------------------------------------------------------------------
(* Sequences of requests *)

\* The requests that need an answer have a first one.
LEMMA FirstEcho ==
  ASSUME NEW q \in Seq(Requests), Echoes(q) # {}
  PROVE  LET k == CHOOSE i \in Echoes(q) : \A j \in Echoes(q) : i <= j
         IN  k \in Echoes(q) /\ \A j \in Echoes(q) : k <= j
<1>1. Echoes(q) \in SUBSET Nat
  BY DEF Echoes
<1>2. PICK i \in Echoes(q) : \A j \in Echoes(q) : ~(<<j, i>> \in OpToRel(<, Nat))
  BY <1>1, NatLessThanWellFounded, WFMin
<1>3. \A j \in Echoes(q) : i <= j
  <2> TAKE j \in Echoes(q)
  <2>1. i \in Nat /\ j \in Nat
    BY <1>1
  <2>2. ~(j < i)
    BY <1>2, <2>1 DEF OpToRel
  <2> QED BY <2>1, <2>2
<1> QED BY <1>3

\* What is sent and what stays in the queue are sequences of requests.
LEMMA CutSeq ==
  ASSUME NEW q \in Seq(Requests), NEW k \in 0..Len(q)
  PROVE  SubSeq(q, 1, k) \in Seq(Requests) /\ SubSeq(q, k + 1, Len(q)) \in Seq(Requests)
<1>1. SubSeq(q, 1, k) \in Seq(Requests)
  BY SubSeqProperties
<1>2. SubSeq(q, k + 1, Len(q)) \in Seq(Requests)
  BY SubSeqProperties
<1> QED BY <1>1, <1>2

-----------------------------------------------------------------------------
(* The connection *)

\* Handlers that change what the user sees keep the connection in order.
LEMMA SameSound ==
  ASSUME NEW c, NEW d, Core(c), Same(c, d)
  PROVE  Sound(c, d)
  BY DEF Core, Typed, Flags, Same, Sound, Timed

\* One handler calls another.
LEMMA SoundTwice ==
  ASSUME NEW c, NEW d, NEW e, Sound(c, d), Sound(d, e)
  PROVE  Sound(c, e)
  BY DEF Sound

\* Everything up to the first request that needs an answer goes out.
LEMMA SendAllSound ==
  ASSUME NEW c, Core(c), isConnected(c), ~c.logining, NEW q \in Seq(Requests)
  PROVE  Sound(c, SendAll(c, q))
<1> DEFINE k == IF Echoes(q) = {} THEN Len(q)
                ELSE CHOOSE i \in Echoes(q) : \A j \in Echoes(q) : i <= j
           asks == Echoes(q) # {}
           h == IF asks THEN q[k] ELSE NoRequest
           s == sendData(c, SubSeq(q, 1, k))
           d == SendAll(c, q)
<1>1. k \in 0..Len(q) /\ (asks => k \in 1..Len(q))
  BY FirstEcho DEF Echoes
<1> HIDE DEF k, asks
<1>2. h \in Requests
  BY <1>1 DEF Requests, NoRequest
<1>3. SubSeq(q, 1, k) \in Seq(Requests) /\ SubSeq(q, k + 1, Len(q)) \in Seq(Requests)
  BY <1>1, CutSeq
<1> HIDE DEF h
<1>4. /\ DOMAIN s = Fields
      /\ s.out \in Seq(Requests)
      /\ s.sock = c.sock /\ s.conHandler = c.conHandler /\ s.logining = c.logining
      /\ s.logined = c.logined /\ s.frameNO = c.frameNO
  BY <1>3, ConcatProperties DEF sendData, Core, Typed, Fields
<1> HIDE DEF s
<1>5. d = [s EXCEPT !.queue = SubSeq(q, k + 1, Len(q)), !.wait = asks, !.timer = asks, !.handler = h]
  BY DEF SendAll, k, asks, h, s
<1>6. /\ DOMAIN d = Fields
      /\ d.queue = SubSeq(q, k + 1, Len(q)) /\ d.wait = asks /\ d.timer = asks /\ d.handler = h
      /\ d.out = s.out /\ d.sock = s.sock /\ d.conHandler = s.conHandler
      /\ d.logining = s.logining /\ d.logined = s.logined /\ d.frameNO = s.frameNO
  BY <1>4, <1>5 DEF Fields
<1> HIDE DEF d
<1> QED
  BY <1>2, <1>3, <1>4, <1>6 DEF Sound, Core, Typed, Flags, Timed, isConnected, d

\* A request goes out at once or waits behind the one that is waited for.
LEMMA SendSound ==
  ASSUME NEW c, Core(c), NEW r \in Requests
  PROVE  Sound(c, sendRequest(c, r)) /\ sendRequest(c, r).logining = c.logining
<1>1. CASE ~isConnected(c) \/ c.wait
  <2> DEFINE q == Append(c.queue, r)
             d == [c EXCEPT !.queue = q]
  <2>1. sendRequest(c, r) = d
    BY <1>1 DEF sendRequest
  <2>2. q \in Seq(Requests)
    BY AppendProperties DEF Core, Typed
  <2> HIDE DEF q
  <2> QED BY <2>1, <2>2 DEF Sound, Core, Typed, Flags, Timed, Fields
<1>2. CASE isConnected(c) /\ ~c.wait
  <2> DEFINE q == <<r>> \o c.queue
  <2>1. sendRequest(c, r) = SendAll(c, q)
    BY <1>2 DEF sendRequest
  <2>2. q \in Seq(Requests)
    BY ConcatProperties DEF Core, Typed
  <2>3. ~c.logining
    BY <1>2 DEF Core, Flags
  <2> HIDE DEF q
  <2>4. Sound(c, SendAll(c, q))
    BY <1>2, <2>2, <2>3, SendAllSound
  <2>5. SendAll(c, q).logining = c.logining
    BY DEF SendAll, sendData, Core, Typed, Fields
  <2> QED BY <2>1, <2>4, <2>5
<1> QED BY <1>1, <1>2

\* What waits in the queue goes out as if it were asked for now.
LEMMA SendInQueueSound ==
  ASSUME NEW c, Core(c)
  PROVE  Sound(c, sendRequestInQueue(c)) /\ sendRequestInQueue(c).logining = c.logining
<1>1. CASE c.queue = <<>>
  BY <1>1 DEF sendRequestInQueue, Sound
<1>2. CASE c.queue # <<>>
  <2> DEFINE t == Tail(c.queue)
             r == Head(c.queue)
             d == [c EXCEPT !.queue = t]
  <2>1. t \in Seq(Requests) /\ r \in Requests
    BY <1>2, HeadTailProperties DEF Core, Typed
  <2>2. sendRequestInQueue(c) = sendRequest(d, r)
    BY <1>2 DEF sendRequestInQueue
  <2> HIDE DEF t, r
  <2>3. Sound(c, d) /\ d.logining = c.logining
    BY <2>1 DEF Sound, Core, Typed, Flags, Timed, Fields
  <2> HIDE DEF d
  <2>4. Sound(d, sendRequest(d, r)) /\ sendRequest(d, r).logining = d.logining
    BY <2>1, <2>3, SendSound DEF Sound
  <2> QED BY <2>2, <2>3, <2>4, SoundTwice
<1> QED BY <1>1, <1>2

\* The answer to connectServer's caller; the login itself is over by then.
LEMMA ConnectedSound ==
  ASSUME NEW c, Core(c), NEW cb \in Callbacks, NEW ret, NEW ans
  PROVE  Sound(c, Connected(c, cb, ret, ans)) /\ Connected(c, cb, ret, ans).logining = c.logining
<1> DEFINE d == Connected(c, cb, ret, ans)
<1>1. CASE cb = "menu"
  <2>1. d = MenuConnected(c, ret, ans)
    BY <1>1 DEF Connected
  <2>2. Same(c, MenuConnected(c, ret, ans))
    BY DEF MenuConnected, Same, Core, Typed, Fields
  <2> QED BY <2>1, <2>2, SameSound DEF Same
<1>2. CASE cb = "game"
  <2>1. d = GameConnected(c, ret, ans)
    BY <1>2 DEF Connected
  <2>2. Same(c, GameConnected(c, ret, ans))
    BY DEF GameConnected, Same, Core, Typed, Fields
  <2> QED BY <2>1, <2>2, SameSound DEF Same
<1>3. CASE cb \notin {"menu", "game"}
  <2>1. d = IF ret \in {0, 3} THEN sendRequest(c, Request(cb)) ELSE c
    BY <1>3 DEF Connected
  <2>2. Request(cb) \in Requests
    BY <1>3 DEF Request, Requests, Callbacks
  <2>3. Sound(c, c)
    BY DEF Sound
  <2> HIDE DEF d
  <2> QED BY <2>1, <2>2, <2>3, SendSound DEF d
<1> QED BY <1>1, <1>2, <1>3

\* A request that needs a login connects, logs in or goes out.
LEMMA ConnectSound ==
  ASSUME NEW c, Core(c), NEW cb \in Callbacks
  PROVE  Sound(c, connectServer(c, cb))
<1> DEFINE d == connectServer(c, cb)
<1>1. d = IF isConnecting(c) THEN Connected(c, cb, 4, NoAnswer)
          ELSE IF c.logining THEN Connected(c, cb, 5, NoAnswer)
          ELSE IF c.sock = "none" THEN connect(c, cb)
          ELSE IF isConnected(c) /\ ~c.logined THEN sendRequest(c, Login(cb, FALSE, c.frameNO))
          ELSE Connected(c, cb, 3, NoAnswer)
  BY DEF connectServer, isConnecting, isConnected
<1>2. c.sock = "none" => Sound(c, connect(c, cb))
  BY DEF connect, Sound, Core, Typed, Flags, Timed, Fields
<1>3. Login(cb, FALSE, c.frameNO) \in Requests
  BY DEF Login, Requests, Core, Typed
<1>4. Sound(c, sendRequest(c, Login(cb, FALSE, c.frameNO)))
  BY <1>3, SendSound
<1>5. \A ret : Sound(c, Connected(c, cb, ret, NoAnswer))
  BY ConnectedSound
<1> HIDE DEF d
<1>6. Sound(c, d)
  BY <1>1, <1>2, <1>4, <1>5
<1> QED BY <1>6 DEF d

\* What the scenes do about a lost connection is for the user to see.
LEMMA NetErrorSame ==
  ASSUME NEW c, DOMAIN c = Fields
  PROVE  Same(c, onNetError(c))
  BY DEF onNetError, MenuNetError, GameNetError, Same, Fields

\* A connection that is lost, given up or refused leaves nothing behind.
Lost(d) ==
    /\ Typed(d) /\ d.sock = "none"
    /\ ~d.logining /\ ~d.logined /\ ~d.wait /\ d.out = <<>>

\* A lost connection is in order.
LEMMA LostSound ==
  ASSUME NEW d, Lost(d)
  PROVE  Core(d) /\ Timed(d)
  BY DEF Lost, Core, Flags, Timed

\* The handlers of a failed socket clear the connection.
LEMMA LoseIsLost ==
  ASSUME NEW c, Core(c)
  PROVE  Lost(clearSocket(socketErrorHandler(c)))
<1> DEFINE f == [c EXCEPT !.logining = FALSE, !.logined = FALSE]
           e == onNetError(f)
           d == clearSocket(clearData(e))
<1>1. /\ DOMAIN f = Fields /\ ~f.logining /\ ~f.logined /\ f.frameNO = c.frameNO
  BY DEF Core, Typed, Fields
<1> HIDE DEF f
<1>2. Same(f, e)
  BY <1>1, NetErrorSame
<1> HIDE DEF e
<1>3. Lost(d)
  BY <1>1, <1>2
  DEF Same, Lost, Typed, Core, clearSocket, clearData, NoRequest, Requests, Fields
<1> HIDE DEF d
<1> QED BY <1>3 DEF socketErrorHandler, onSocketError, d, e, f

\* So do those of a connect that fails.
LEMMA RefusedIsLost ==
  ASSUME NEW c, Core(c), isConnecting(c)
  PROVE  Lost(clearSocket(ConnectRefused(c)))
<1> DEFINE e == Connected(c, c.conHandler, 1, NoAnswer)
           d == clearSocket(clearData(e))
<1>1. c.conHandler \in Callbacks
  BY DEF Core, Typed, isConnecting
<1>2. Same(c, e)
  BY <1>1
  DEF Connected, MenuConnected, GameConnected, Callbacks, Same, Core, Typed, Fields
<1> HIDE DEF e
<1>3. Lost(d)
  BY <1>2
  DEF Same, Lost, Core, Typed, Flags, clearSocket, clearData, NoRequest, Requests, Fields, isConnecting
<1> HIDE DEF d
<1> QED BY <1>3 DEF ConnectRefused, d, e

\* After a timeout the connection is given up, if it was not lost already.
TimedOut(c) == onNetError(disconnectServer([c EXCEPT !.timer = FALSE]))

\* A request timeout leaves no open socket and nothing that waits untimed.
LEMMA TimeOutCore ==
  ASSUME NEW c, Core(c)
  PROVE  /\ Core(TimedOut(c)) /\ Timed(TimedOut(c))
         /\ TimedOut(c).sock # "open"
<1> DEFINE t == [c EXCEPT !.timer = FALSE]
           f == [t EXCEPT !.logining = FALSE, !.logined = FALSE]
           g == disconnectServer(t)
           d == onNetError(g)
<1>1. /\ DOMAIN f = Fields /\ ~f.logining /\ ~f.logined /\ f.timer = FALSE
      /\ f.sock = c.sock /\ f.conHandler = c.conHandler /\ f.wait = c.wait
      /\ f.handler = c.handler /\ f.queue = c.queue /\ f.out = c.out /\ f.frameNO = c.frameNO
      /\ t.sock = c.sock
  BY DEF Core, Typed, Fields
<1>2. g = IF isConnected(t) THEN disconnect(f) ELSE f
  BY DEF disconnectServer
<1> HIDE DEF t, f, g
<1>3. CASE c.sock = "open"
  <2>1. g = disconnect(f)
    BY <1>1, <1>2, <1>3 DEF isConnected
  <2>2. Lost(g)
    BY <1>1, <2>1
    DEF disconnect, Lost, Core, Typed, clearSocket, clearData, NoRequest, Requests, Fields
  <2>3. Same(g, d)
    BY <2>2, NetErrorSame DEF Lost, Typed
  <2> HIDE DEF d
  <2>4. Lost(d)
    BY <2>2, <2>3 DEF Lost, Typed, Same
  <2> QED BY <2>4, LostSound DEF TimedOut, d, g, t, Lost
<1>4. CASE c.sock # "open"
  <2>1. g = f
    BY <1>1, <1>2, <1>4 DEF isConnected
  <2>2. Core(g) /\ Timed(g) /\ g.sock # "open"
    BY <1>1, <1>4, <2>1 DEF Core, Typed, Flags, Timed
  <2>3. Same(g, d)
    BY <2>2, NetErrorSame DEF Core, Typed
  <2> HIDE DEF d
  <2>4. Core(d) /\ Timed(d) /\ d.sock # "open"
    BY <2>2, <2>3, SameSound DEF Sound, Same
  <2> QED BY <2>4 DEF TimedOut, d, g, t
<1> QED BY <1>3, <1>4

\* The login is the first request of a connection that has come about.
LEMMA ConnectSuccessCore ==
  ASSUME NEW c, Core(c), Timed(c), isConnecting(c)
  PROVE  LET d == onConnectSuccess([c EXCEPT !.sock = "open"])
         IN  Core(d) /\ Timed(d)
<1> DEFINE o == [c EXCEPT !.sock = "open"]
           l == [o EXCEPT !.logining = TRUE]
           r == Login(o.conHandler, TRUE, o.frameNO)
           q == <<r>> \o c.queue
           s == sendRequest(l, r)
           e == sendRequestInQueue(s)
<1>1. /\ DOMAIN l = Fields /\ l.sock = "open" /\ l.logining /\ l.logined = c.logined
      /\ l.wait = c.wait /\ l.handler = c.handler /\ l.queue = c.queue /\ l.out = c.out
      /\ l.frameNO = c.frameNO /\ l.conHandler = c.conHandler
  BY DEF Core, Typed, Fields
<1>2. ~c.wait /\ c.out = <<>> /\ ~c.logined
  BY DEF Core, Flags, isConnecting
<1>3. r \in Requests /\ r.id = "Login" /\ r.flags
  BY DEF Login, Requests, Core, Typed, isConnecting, Fields
<1> HIDE DEF l, r
<1>4. q \in Seq(Requests) /\ Len(q) >= 1 /\ q[1] = r
  BY <1>3, ConcatProperties DEF Core, Typed
<1>5. s = SendAll(l, q)
  BY <1>1, <1>2 DEF sendRequest, isConnected
<1> HIDE DEF q
<1>6. 1 \in Echoes(q)
  BY <1>3, <1>4 DEF Echoes, NeedEcho
<1>7. (CHOOSE i \in Echoes(q) : \A j \in Echoes(q) : i <= j) = 1
  BY <1>4, <1>6, FirstEcho DEF Echoes
<1>8. /\ DOMAIN s = Fields /\ s.sock = "open" /\ s.logining /\ s.logined = c.logined
      /\ s.wait /\ s.timer /\ s.handler = r /\ s.frameNO = c.frameNO /\ s.conHandler = c.conHandler
      /\ s.queue = SubSeq(q, 2, Len(q)) /\ s.out = c.out \o SubSeq(q, 1, 1)
  <2> DEFINE x == sendData(l, SubSeq(q, 1, 1))
             k == CHOOSE i \in Echoes(q) : \A j \in Echoes(q) : i <= j
  <2>1. SendAll(l, q) = [sendData(l, SubSeq(q, 1, k)) EXCEPT
            !.queue = SubSeq(q, k + 1, Len(q)), !.wait = TRUE, !.timer = TRUE, !.handler = q[k]]
    BY <1>6 DEF SendAll
  <2> HIDE DEF k, s
  <2>2. k = 1 /\ k + 1 = 2
    <3>1. k = 1
      BY <1>7 DEF k
    <3> QED BY <3>1
  <2>3. /\ DOMAIN x = Fields /\ x.out = c.out \o SubSeq(q, 1, 1)
        /\ x.sock = l.sock /\ x.logining = l.logining /\ x.logined = l.logined
        /\ x.frameNO = l.frameNO /\ x.conHandler = l.conHandler
    BY <1>1 DEF sendData, Fields
  <2>4. s = [x EXCEPT !.queue = SubSeq(q, 2, Len(q)), !.wait = TRUE, !.timer = TRUE, !.handler = r]
    BY <1>4, <1>5, <2>1, <2>2, Zenon
  <2> HIDE DEF x
  <2> QED BY <1>1, <2>3, <2>4 DEF Fields
<1> HIDE DEF s
<1>9. s.queue \in Seq(Requests) /\ s.out \in Seq(Requests)
  BY <1>4, <1>8, CutSeq, ConcatProperties DEF Core, Typed
<1>10. Core(s) /\ Timed(s)
  BY <1>2, <1>3, <1>8, <1>9 DEF Core, Typed, Flags, Timed
<1>11. Core(e) /\ Timed(e)
  BY <1>10, SendInQueueSound DEF Sound
<1> HIDE DEF e
<1>12. Same(e, [e EXCEPT !.pluse = TRUE])
  BY <1>11 DEF Same, Core, Typed, Fields
<1>13. Core([e EXCEPT !.pluse = TRUE]) /\ Timed([e EXCEPT !.pluse = TRUE])
  BY <1>11, <1>12, SameSound DEF Sound
<1> QED BY <1>13 DEF onConnectSuccess, e, s, l, r

-----------------------------------------------------------------------------
(* Answers *)

\* A resumed game has frames to play if some were missed.
Answers == {a \in [ok : BOOLEAN, inGame : BOOLEAN, record : Seq(Nat)] :
                MissedAtLeast > 0 /\ a.ok /\ a.inGame => a.record # <<>>}
Messages ==
    [kind : {"answer"}, ans : Answers] \cup [kind : {"frame"}, no : Nat]
    \cup [kind : {"start", "end"}]

\* What an answer calls back finds the login over.
LEMMA AnswerCore ==
  ASSUME NEW c, Core(c), c.sock = "open", NEW ans \in Answers
  PROVE  LET d == IF c.handler.id = "Login" THEN OnLoginAnswer(c, c.handler, ans)
                  ELSE OnLeaveAnswer(c, ans)
         IN  Core(d) /\ ~d.logining /\ d.sock = "open"
<1>1. CASE c.handler.id # "Login"
  <2>1. Same(c, OnLeaveAnswer(c, ans))
    BY DEF OnLeaveAnswer, Same, Core, Typed, Fields
  <2>2. Core(OnLeaveAnswer(c, ans)) /\ OnLeaveAnswer(c, ans).sock = "open"
    BY <2>1, SameSound DEF Sound
  <2> QED BY <1>1, <2>1, <2>2 DEF Same, Core, Flags
<1>2. CASE c.handler.id = "Login"
  <2> DEFINE r == c.handler
             d == IF ans.ok THEN onLoginInSuccess(c, ans) ELSE c
             e == IF r.flags THEN [d EXCEPT !.logining = FALSE, !.logined = ans.ok] ELSE d
             ret == IF ans.ok THEN 0 ELSE 2
             f == Connected(e, r.cb, ret, ans)
  <2>1. Same(c, d)
    BY DEF onLoginInSuccess, Same, Core, Typed, Fields
  <2>2. r.cb \in Callbacks
    BY <1>2 DEF Core, Typed, Requests
  <2> HIDE DEF d
  <2>3. /\ DOMAIN e = Fields /\ e.sock = d.sock /\ e.conHandler = d.conHandler
        /\ e.wait = d.wait /\ e.handler = d.handler /\ e.queue = d.queue /\ e.out = d.out
        /\ e.frameNO = d.frameNO
        /\ IF r.flags THEN ~e.logining ELSE e.logining = d.logining
        /\ ~r.flags => e.logined = d.logined
    BY <2>1 DEF Same, Fields
  <2> HIDE DEF e
  <2>4. Core(e) /\ ~e.logining /\ e.sock = "open"
    BY <2>1, <2>3 DEF Same, Core, Typed, Flags
  <2> HIDE DEF ret
  <2>5. Sound(e, f) /\ f.logining = e.logining
    BY <2>2, <2>4, ConnectedSound
  <2> HIDE DEF f
  <2>6. OnLoginAnswer(c, r, ans) = f
    BY DEF OnLoginAnswer, d, e, ret, f
  <2> QED BY <1>2, <2>4, <2>5, <2>6 DEF Sound
<1> QED BY <1>1, <1>2

\* After an answer nothing is waited for but what the queue sends next.
LEMMA ResponseCore ==
  ASSUME Core(client), client.sock = "open", NEW ans \in Answers
  PROVE  LET d == onResponse(ans) IN
         Core(d) /\ d.sock = "open" /\ (MissedAtLeast > 0 => Timed(d))
<1> DEFINE c == [client EXCEPT !.timer = FALSE]
           r == client.handler
           d == IF r.id = "Login" THEN OnLoginAnswer(c, r, ans) ELSE OnLeaveAnswer(c, ans)
           e == [d EXCEPT !.wait = FALSE, !.handler = NoRequest]
           f == sendRequestInQueue(e)
<1>1. Core(c) /\ c.sock = "open" /\ c.handler = r
  BY DEF Core, Typed, Flags, Fields
<1> HIDE DEF c, r
<1>2. Core(d) /\ ~d.logining /\ d.sock = "open"
  BY <1>1, AnswerCore
<1> HIDE DEF d
<1>3. Core(e) /\ Timed(e) /\ e.sock = "open"
  BY <1>2 DEF Core, Typed, Flags, Timed, NoRequest, Requests, Fields
<1> HIDE DEF e
<1>4. Core(f) /\ Timed(f) /\ f.sock = "open"
  BY <1>3, SendInQueueSound DEF Sound
<1> HIDE DEF f
<1>5. MissedAtLeast > 0 => ~Throws(ans)
  BY DEF Throws, Answers
<1>6. onResponse(ans) = IF r.id = "Login" /\ Throws(ans) THEN d ELSE f
  BY DEF onResponse, c, d, e, f, r
<1> QED BY <1>2, <1>4, <1>5, <1>6

\* What a notification brings is for the user to see, and for the game to play.
LEMMA NotifySound ==
  ASSUME NEW c, Core(c), NEW m \in Messages, m.kind # "answer"
  PROVE  Sound(c, NotifyHandler(c, m))
<1>1. CASE m.kind = "frame"
  <2>1. Same(c, onNtfGameFrame(c, m.no))
    BY DEF onNtfGameFrame, Same, Core, Typed, Fields
  <2> QED BY <1>1, <2>1, SameSound DEF NotifyHandler
<1>2. CASE m.kind = "start"
  <2>1. Same(c, onNtfGameStart(c))
    BY DEF onNtfGameStart, Same, Core, Typed, Fields
  <2> QED BY <1>2, <2>1, SameSound DEF NotifyHandler
<1>3. CASE m.kind = "end"
  <2> DEFINE d == [reset(c) EXCEPT !.goTo = "menu"]
  <2>1. Sound(c, d)
    BY DEF reset, stopFrameHandleTimer, Sound, Core, Typed, Flags, Timed, Fields
  <2>2. Sound(c, onNtfGameEnd(c))
    BY <2>1 DEF onNtfGameEnd, Sound
  <2> QED BY <1>3, <2>2 DEF NotifyHandler
<1> QED BY <1>1, <1>2, <1>3 DEF Messages

\* Leaving or starting a game begins with frame 0.
LEMMA ResetSound ==
  ASSUME NEW c, Core(c)
  PROVE  Sound(c, reset(c))
  BY DEF reset, stopFrameHandleTimer, Sound, Core, Typed, Flags, Timed, Fields

\* Loading a scene keeps the connection in order.
LEMMA SceneSound ==
  ASSUME NEW c, Core(c)
  PROVE  Sound(c, startGame(c)) /\ Sound(c, exitGame(c))
<1>1. Sound(c, startGame(c))
  <2> DEFINE r == reset(c)
             d == IF c.dxxw THEN r ELSE sendRequestWhenLogined(r, "Frame")
  <2>1. Sound(c, r)
    BY ResetSound
  <2> HIDE DEF r
  <2>2. Sound(r, r) /\ Sound(r, connectServer(r, "Frame"))
    BY <2>1, ConnectSound DEF Sound, Callbacks
  <2>3. Sound(c, d)
    BY <2>1, <2>2, SoundTwice DEF sendRequestWhenLogined
  <2> HIDE DEF d
  <2>4. Same(d, startFrameHandleTimer(d))
    BY <2>3 DEF startFrameHandleTimer, Same, Sound, Core, Typed, Fields
  <2>5. Sound(d, startFrameHandleTimer(d))
    BY <2>3, <2>4, SameSound DEF Sound
  <2>6. Sound(c, startFrameHandleTimer(d))
    BY <2>3, <2>5, SoundTwice
  <2> QED BY <2>6 DEF startGame, d, r
<1>2. Sound(c, exitGame(c))
  <2> DEFINE d == [c EXCEPT !.dxxw = FALSE]
  <2>1. Same(c, d)
    BY DEF Same, Core, Typed, Fields
  <2> HIDE DEF d
  <2>2. Sound(c, d) /\ Core(d)
    BY <2>1, SameSound DEF Sound
  <2> QED BY <2>2, ResetSound, SoundTwice DEF exitGame, d
<1> QED BY <1>1, <1>2

-----------------------------------------------------------------------------
(* The client and the server *)

\* What is on its way to the client, and its session, belong to an open socket.
World ==
    /\ toClient \in Seq(Messages)
    /\ account \in {"none", "old", "this"}
    /\ logLen \in Nat
    /\ toClient # <<>> \/ account = "this" => client.sock = "open"

IInv == Core(client) /\ World
TInv == MissedAtLeast > 0 => Timed(client)

\* The client starts without a connection.
LEMMA InitInv == Init => IInv /\ TInv
<1> SUFFICES ASSUME Init PROVE IInv /\ TInv
  OBVIOUS
<1>1. client = InitClient
  BY DEF Init
<1>2. /\ DOMAIN InitClient = Fields
      /\ InitClient.sock = "none" /\ InitClient.conHandler = "none"
      /\ InitClient.queue = <<>> /\ InitClient.out = <<>>
      /\ InitClient.handler = NoRequest /\ InitClient.frameNO = 0
      /\ ~InitClient.logined /\ ~InitClient.logining /\ ~InitClient.wait
  BY DEF InitClient, Fields
<1>3. Core(client)
  BY <1>1, <1>2 DEF Core, Typed, Flags, NoRequest, Requests
<1>4. Timed(client)
  BY <1>1, <1>2 DEF Timed
<1>5. World
  BY DEF Init, World
<1> QED BY <1>3, <1>4, <1>5 DEF IInv, TInv

\* A step of the client alone.
LEMMA ClientStep ==
  ASSUME IInv, TInv, Sound(client, client'), UNCHANGED <<toClient, server>>
  PROVE  IInv' /\ TInv'
  BY DEF IInv, TInv, World, Sound, Core, Typed, Flags, Timed, server

\* A step of the server.
LEMMA ServerStep ==
  ASSUME IInv, TInv, client' = client, World'
  PROVE  IInv' /\ TInv'
  BY DEF IInv, TInv, Core, Typed, Flags, Timed

\* A step in which the connection is lost.
LEMMA LossStep ==
  ASSUME IInv, Core(client'), Timed(client'),
         toClient' = <<>>, Bind(Sessions(client)) \/ Bind({"none"})
  PROVE  IInv' /\ TInv'
<1>1. account' \in {"none", "old"} /\ logLen' = logLen
  BY DEF Bind, Sessions, IInv, World
<1>2. World'
  BY <1>1 DEF World, IInv
<1>3. TInv' /\ Core(client)'
  BY DEF TInv, Timed, Core, Typed, Flags
<1> QED BY <1>2, <1>3 DEF IInv

\* The socket opens, fails to open or closes.
LEMMA SocketStep ==
  ASSUME IInv, TInv, onopen \/ onConnectFailed \/ onclose \/ onRequestTimeOut
  PROVE  IInv' /\ TInv'
<1>1. CASE onopen
  <2>1. Core(client) /\ Timed(client) /\ isConnecting(client)
    BY <1>1 DEF onopen, IInv, Core, Flags, Timed, isConnecting
  <2>2. Core(client') /\ Timed(client')
    BY <1>1, <2>1, ConnectSuccessCore DEF onopen
  <2>3. toClient = <<>> /\ account # "this"
    BY <2>1 DEF IInv, World, isConnecting
  <2>4. World' /\ Core(client)' /\ Timed(client)'
    BY <1>1, <2>2, <2>3 DEF onopen, server, World, IInv, Core, Typed, Flags, Timed
  <2> QED BY <2>4 DEF IInv, TInv
<1>2. CASE onConnectFailed
  <2>1. Core(client') /\ Timed(client')
    BY <1>2, RefusedIsLost, LostSound DEF onConnectFailed, IInv
  <2>2. toClient = <<>> /\ account # "this"
    BY <1>2 DEF IInv, World, isConnecting, onConnectFailed
  <2>3. World' /\ Core(client)' /\ Timed(client)'
    BY <1>2, <2>1, <2>2 DEF onConnectFailed, server, World, IInv, Core, Typed, Flags, Timed
  <2> QED BY <2>3 DEF IInv, TInv
<1>3. CASE onclose
  <2>1. Core(client') /\ Timed(client')
    BY <1>3, LoseIsLost, LostSound DEF onclose, Lose, IInv
  <2> QED BY <1>3, <2>1, LossStep DEF onclose, Lose
<1>4. CASE onRequestTimeOut
  <2>1. Core(client') /\ Timed(client')
    BY <1>4, TimeOutCore DEF onRequestTimeOut, TimedOut, IInv
  <2> QED BY <1>4, <2>1, LossStep DEF onRequestTimeOut
<1> QED BY <1>1, <1>2, <1>3, <1>4

\* A change of what the user sees, and a request after it.
LEMMA ThenConnect ==
  ASSUME NEW c, NEW d, Core(c), Same(c, d), NEW cb \in Callbacks
  PROVE  /\ Sound(c, d)
         /\ Sound(c, connectServer(d, cb))
         /\ Sound(c, sendRequestWhenLogined(d, cb))
  BY SameSound, ConnectSound, SoundTwice DEF Sound, sendRequestWhenLogined

\* What the user does in the menu.
LEMMA MenuStep ==
  ASSUME IInv, TInv, ChooseOnline \/ Resume \/ RefuseResume \/ CloseMenuError
  PROVE  IInv' /\ TInv'
<1> DEFINE tip == [client EXCEPT !.tip = TRUE]
           shut(d) == [client EXCEPT !.dialogs = @ \ {d}]
<1>1. Core(client) /\ DOMAIN client = Fields
  BY DEF IInv, Core, Typed
<1>2. Same(client, tip) /\ \A d : Same(client, shut(d)) /\ DOMAIN shut(d) = Fields
  BY <1>1 DEF Same, Fields
<1>3. CASE ChooseOnline
  <2>1. client' = connectServer(tip, "menu")
    BY <1>3 DEF ChooseOnline
  <2> HIDE DEF tip
  <2>2. Sound(client, client')
    BY <1>1, <1>2, <2>1, ThenConnect DEF Callbacks
  <2> QED BY <1>3, <2>2, ClientStep DEF ChooseOnline
<1>4. CASE Resume
  <2> DEFINE c == shut("resume")
             d == [c EXCEPT !.dxxw = TRUE,
                            !.goTo = IF c.frameQueue = <<>> THEN "none" ELSE "game"]
  <2>1. client' = IF ~c.logined THEN c ELSE d
    BY <1>4 DEF Resume
  <2>2. Same(client, c) /\ DOMAIN c = Fields
    BY <1>2
  <2> HIDE DEF c
  <2>3. Same(client, d)
    BY <2>2 DEF Same, Fields
  <2> HIDE DEF d
  <2>4. Sound(client, client')
    BY <1>1, <2>1, <2>2, <2>3, SameSound
  <2> QED BY <1>4, <2>4, ClientStep DEF Resume
<1>5. CASE RefuseResume
  <2>1. client' = sendRequestWhenLogined(shut("resume"), "Leave")
    BY <1>5 DEF RefuseResume
  <2> HIDE DEF shut
  <2>2. Sound(client, client')
    BY <1>1, <1>2, <2>1, ThenConnect DEF Callbacks
  <2> QED BY <1>5, <2>2, ClientStep DEF RefuseResume
<1>6. CASE CloseMenuError
  <2>1. client' = shut("menuError")
    BY <1>6 DEF CloseMenuError
  <2> HIDE DEF shut
  <2>2. Sound(client, client')
    BY <1>1, <1>2, <2>1, SameSound
  <2> QED BY <1>6, <2>2, ClientStep DEF CloseMenuError
<1> QED BY <1>3, <1>4, <1>5, <1>6

\* What the user and the frame timer do in the game, and the change of scenes.
LEMMA GameStep ==
  ASSUME IInv, TInv, Reconnect \/ LeaveGame \/ SceneLoaded \/ onGameFrame \/ CaughtUp \/ sendPluse
  PROVE  IInv' /\ TInv'
<1> DEFINE shut == [client EXCEPT !.dialogs = @ \ {"reconnect"}]
<1>1. Core(client) /\ DOMAIN client = Fields
  BY DEF IInv, Core, Typed
<1>2. Same(client, shut)
  BY <1>1 DEF Same, Fields
<1>3. CASE Reconnect
  <2>1. client' = connectServer(shut, "game")
    BY <1>3 DEF Reconnect
  <2> HIDE DEF shut
  <2>2. Sound(client, client')
    BY <1>1, <1>2, <2>1, ThenConnect DEF Callbacks
  <2> QED BY <1>3, <2>2, ClientStep DEF Reconnect
<1>4. CASE LeaveGame
  <2> DEFINE d == [shut EXCEPT !.goTo = "menu"]
  <2>1. client' = IF shut.logined THEN sendRequestWhenLogined(shut, "Leave") ELSE d
    BY <1>4 DEF LeaveGame
  <2> HIDE DEF shut
  <2>2. Same(client, d)
    BY <1>2 DEF Same, Fields
  <2> HIDE DEF d
  <2>3. Sound(client, client')
    BY <1>1, <1>2, <2>1, <2>2, ThenConnect, SameSound DEF Callbacks
  <2> QED BY <1>4, <2>3, ClientStep DEF LeaveGame
<1>5. CASE SceneLoaded
  <2> DEFINE c == [client EXCEPT !.scene = client.goTo, !.goTo = "none",
                                 !.tip = FALSE, !.dialogs = {}]
  <2>1. client' = IF c.scene = "game" THEN startGame(c) ELSE exitGame(c)
    BY <1>5 DEF SceneLoaded
  <2>2. Same(client, c)
    BY <1>1 DEF Same, Fields
  <2> HIDE DEF c
  <2>3. Sound(client, c)
    BY <1>1, <2>2, SameSound
  <2>4. Sound(client, client')
    BY <2>1, <2>3, SceneSound, SoundTwice DEF Sound
  <2> QED BY <1>5, <2>4, ClientStep DEF SceneLoaded
<1>6. CASE onGameFrame
  <2> DEFINE c == [client EXCEPT !.frameNO = @ + 1, !.frameQueue = Tail(@)]
  <2>1. client' = IF c.dxxw THEN c ELSE sendRequestWhenLogined(c, "Frame")
    BY <1>6 DEF onGameFrame
  <2>2. Sound(client, c)
    BY <1>1 DEF Sound, Core, Typed, Flags, Timed, Fields
  <2> HIDE DEF c
  <2>3. Sound(c, connectServer(c, "Frame"))
    BY <2>2, ConnectSound DEF Sound, Callbacks
  <2>4. Sound(client, client')
    BY <2>1, <2>2, <2>3, SoundTwice DEF sendRequestWhenLogined
  <2> QED BY <1>6, <2>4, ClientStep DEF onGameFrame
<1>7. CASE CaughtUp
  <2>1. Same(client, client')
    BY <1>1, <1>7 DEF CaughtUp, Same, Fields
  <2>2. Sound(client, client')
    BY <1>1, <2>1, SameSound
  <2> QED BY <1>7, <2>2, ClientStep DEF CaughtUp
<1>8. CASE sendPluse
  <2>1. Request("Pluse") \in Requests
    BY DEF Request, Requests
  <2>2. Sound(client, client')
    BY <1>1, <1>8, <2>1, SendSound DEF sendPluse
  <2> QED BY <1>8, <2>2, ClientStep DEF sendPluse
<1> QED BY <1>3, <1>4, <1>5, <1>6, <1>7, <1>8

\* A message comes over an open socket.
LEMMA MessageStep ==
  ASSUME IInv, TInv, onMessage
  PROVE  IInv' /\ TInv'
<1> DEFINE m == Head(toClient)
<1>1. /\ Core(client) /\ client.sock = "open"
      /\ m \in Messages /\ Tail(toClient) \in Seq(Messages)
      /\ (MissedAtLeast > 0 => Timed(client))
  BY HeadTailProperties DEF onMessage, IInv, TInv, World
<1>2. client' = IF m.kind = "answer" THEN onResponse(m.ans) ELSE NotifyHandler(client, m)
  BY DEF onMessage
<1> HIDE DEF m
<1>3. Core(client') /\ client'.sock = "open" /\ (MissedAtLeast > 0 => Timed(client'))
  <2>1. CASE m.kind = "answer"
    <3>1. m.ans \in Answers
      BY <1>1, <2>1 DEF Messages
    <3>2. client' = onResponse(m.ans)
      BY <1>2, <2>1
    <3> QED BY <1>1, <3>1, <3>2, ResponseCore
  <2>2. CASE m.kind # "answer"
    <3>1. Sound(client, client')
      BY <1>1, <1>2, <2>2, NotifySound
    <3> QED BY <1>1, <3>1 DEF Sound
  <2> QED BY <2>1, <2>2
<1>4. World'
  BY <1>1, <1>3 DEF World, IInv, onMessage, server
<1>5. Core(client)' /\ (MissedAtLeast > 0 => Timed(client)')
  BY <1>3 DEF Core, Typed, Flags, Timed
<1> QED BY <1>4, <1>5 DEF IInv, TInv

\* Frames(from, to) is empty only when there are none.
LEMMA FramesSeq ==
  ASSUME NEW from \in Nat, NEW n \in Nat
  PROVE  /\ Frames(from, n - 1) \in Seq(Nat)
         /\ n > from => Frames(from, n - 1) # <<>>
<1> DEFINE k == IF n - 1 >= from THEN n - 1 - from + 1 ELSE 0
           f == [i \in 1..k |-> from + i - 1]
<1>1. k \in Nat /\ (n > from => k > 0)
  OBVIOUS
<1>2. Frames(from, n - 1) = f
  BY DEF Frames
<1> HIDE DEF k
<1>3. f \in Seq(Nat) /\ Len(f) = k
  BY <1>1
<1> HIDE DEF f
<1> QED BY <1>1, <1>2, <1>3

\* The server handles the requests in the order they were sent.
LEMMA ServeStep ==
  ASSUME IInv, TInv, Serve
  PROVE  IInv' /\ TInv'
<1> DEFINE r == Head(client.out)
           t == Tail(client.out)
<1>1. /\ Core(client) /\ client.sock = "open" /\ DOMAIN client = Fields
      /\ r \in Requests /\ t \in Seq(Requests)
  BY HeadTailProperties DEF Serve, IInv, Core, Typed, Flags
<1>2. client' = [client EXCEPT !.out = t]
  BY DEF Serve
<1>3. CASE r.id = "Login"
  <2>1. ServeLogin(r) /\ logLen' = logLen
    BY <1>3 DEF Serve
  <2>2. r.sync \in Nat
    BY <1>1, <1>3 DEF Requests
  <2> HIDE DEF r, t
  <2> DEFINE f == IF seat = "game" THEN Frames(r.sync, logLen - 1) ELSE <<>>
  <2>3. f \in Seq(Nat) /\ (seat = "game" /\ MissedAtLeast > 0 /\ logLen >= r.sync + MissedAtLeast => f # <<>>)
    <3>1. logLen \in Nat /\ MissedAtLeast \in Nat
      BY ConnectionAssumption DEF IInv, World
    <3> QED BY <2>2, <3>1, FramesSeq
  <2>4. \/ account' = "this" /\ toClient' = Append(toClient, Answer(TRUE, seat = "game", f))
           /\ (seat = "game" => logLen >= r.sync + MissedAtLeast)
        \/ account' = account /\ toClient' = Append(toClient, Answer(FALSE, FALSE, <<>>))
    BY <2>1 DEF ServeLogin
  <2> HIDE DEF f
  <2>5. PICK a \in Messages : toClient' = Append(toClient, a)
    <3>1. (seat = "game" => logLen >= r.sync + MissedAtLeast) => Answer(TRUE, seat = "game", f) \in Messages
      BY <2>3 DEF Answer, Messages, Answers
    <3>2. Answer(FALSE, FALSE, <<>>) \in Messages
      BY DEF Answer, Messages, Answers
    <3> QED BY <2>4, <3>1, <3>2
  <2>6. toClient' \in Seq(Messages) /\ account' \in {"none", "old", "this"} /\ logLen' \in Nat
    BY <2>1, <2>4, <2>5, AppendProperties DEF IInv, World
  <2> HIDE DEF Messages
  <2> QED BY <1>1, <1>2, <2>6 DEF IInv, TInv, World, Core, Typed, Flags, Timed, Fields
<1>4. CASE r.id # "Login"
  <2>1. ServeLeave \/ ServeFrame \/ UNCHANGED <<toClient, account, seat, ready>>
    BY <1>4 DEF Serve
  <2>2. logLen' = logLen /\ account' = account
    BY <2>1 DEF Serve, ServeLeave, ServeFrame
  <2>3. Answer(seat # "none", FALSE, <<>>) \in Messages
    BY DEF Answer, Messages, Answers
  <2> HIDE DEF r, t
  <2>4. toClient' \in Seq(Messages)
    BY <2>1, <2>3, AppendProperties DEF ServeLeave, ServeFrame, IInv, World
  <2> HIDE DEF Messages
  <2> QED BY <1>1, <1>2, <2>2, <2>4 DEF IInv, TInv, World, Core, Typed, Flags, Timed, Fields
<1> QED BY <1>3, <1>4

\* The game starts, goes on and ends, and the server notices a loss.
LEMMA RoomStep ==
  ASSUME IInv, TInv, GameStart \/ GameFrame \/ GameEnd \/ OldSessionClosed
  PROVE  IInv' /\ TInv'
<1>1. \A m \in Messages : Notify(m) => toClient' \in Seq(Messages)
  BY AppendProperties DEF Notify, IInv, World
<1>2. /\ [kind |-> "start"] \in Messages /\ [kind |-> "end"] \in Messages
      /\ [kind |-> "frame", no |-> logLen] \in Messages
  BY DEF Messages, IInv, World
<1>3. client' = client
  BY DEF GameStart, GameFrame, GameEnd, OldSessionClosed
<1>4. toClient' \in Seq(Messages)
  BY <1>1, <1>2 DEF GameStart, GameFrame, GameEnd, OldSessionClosed, IInv, World
<1>5. logLen' \in Nat /\ account' \in {"none", "old", "this"} /\ (account' = "this" => account = "this")
  BY DEF GameStart, GameFrame, GameEnd, OldSessionClosed, Bind, IInv, World
<1>6. toClient' # <<>> => toClient # <<>> \/ account = "this"
  BY DEF GameStart, GameFrame, GameEnd, OldSessionClosed, Notify
<1>7. World'
  BY <1>3, <1>4, <1>5, <1>6 DEF World, IInv
<1> QED BY <1>3, <1>7, ServerStep

\* Every step keeps the connection in order.
LEMMA NextInv == IInv /\ TInv /\ [Next]_vars => IInv' /\ TInv'
<1> SUFFICES ASSUME IInv, TInv, [Next]_vars PROVE IInv' /\ TInv'
  OBVIOUS
<1>1. CASE onopen \/ onConnectFailed \/ onclose \/ onRequestTimeOut
  BY <1>1, SocketStep
<1>2. CASE ChooseOnline \/ Resume \/ RefuseResume \/ CloseMenuError
  BY <1>2, MenuStep
<1>3. CASE Reconnect \/ LeaveGame \/ SceneLoaded \/ onGameFrame \/ CaughtUp \/ sendPluse
  BY <1>3, GameStep
<1>4. CASE onMessage
  BY <1>4, MessageStep
<1>5. CASE Serve
  BY <1>5, ServeStep
<1>6. CASE GameStart \/ GameFrame \/ GameEnd \/ OldSessionClosed
  BY <1>6, RoomStep
<1>7. CASE UNCHANGED vars
  BY <1>7, ServerStep DEF vars, server, IInv, World
<1> QED BY <1>1, <1>2, <1>3, <1>4, <1>5, <1>6, <1>7 DEF Next

-----------------------------------------------------------------------------
(* Theorems *)

(* Type correctness of the connection and of what is under way, with the     *)
(* inductive invariant; the timer part needs that a login which resumes a    *)
(* game always brings frames.                                                *)
THEOREM Invariance == Spec => [](IInv /\ TInv)
<1>1. Init => IInv /\ TInv
  BY InitInv
<1>2. IInv /\ TInv /\ [Next]_vars => IInv' /\ TInv'
  BY NextInv
<1> QED BY <1>1, <1>2, PTL DEF Spec

(* _netLogined and _netLogining never outlive the socket or the login they   *)
(* stand for, whatever the user, the network and the server do.              *)
THEOREM FlagsFollowSocketThm == Spec => []FlagsFollowSocket
<1>1. IInv => FlagsFollowSocket
  BY DEF IInv, Core, Flags, FlagsFollowSocket
<1> QED BY <1>1, Invariance, PTL

(* A request that waits for its answer has its timer running, when a client  *)
(* that resumes a game has missed a frame.                                   *)
THEOREM WaitIsTimedThm ==
  ASSUME MissedAtLeast > 0
  PROVE  Spec => []WaitIsTimed
<1>1. IInv /\ TInv => WaitIsTimed
  BY DEF TInv, Timed, WaitIsTimed
<1> QED BY <1>1, Invariance, PTL
-----------------------------------------------------------------------------
(* The frames of the game *)

\* s brings nothing but frames, and with q they are those from `from` to n - 1.
Nos(s) == [i \in DOMAIN s |-> s[i].no]
Line(q, s, from, n) ==
    /\ from <= n
    /\ \A i \in DOMAIN s : s[i].kind = "frame"
    /\ q \o Nos(s) = Frames(from, n - 1)

Has(s, id) == \E i \in DOMAIN s : s[i].id = id
Under(c, id) == Has(c.out, id) \/ Has(c.queue, id)
Flagged(r) == r.id = "Login" /\ r.flags
resume(c) == "resume" \in c.dialogs

\* The queue is empty unless a request waits; the login of a connection is never queued.
Plain(c) == \A i \in DOMAIN c.queue : ~Flagged(c.queue[i])
Unflagged(c) == Plain(c) /\ (Flagged(c.handler) => c.logining)
Quiet(c) == (~c.wait => c.queue = <<>>) /\ Unflagged(c)

\* The scenes: no frame is played in the menu.
Scenes(c) ==
    /\ c.scene \in {"menu", "game"} /\ c.goTo \in {"none", "menu", "game"}
    /\ c.frameQueue \in Seq(Nat)
    /\ c.scene = "menu" => c.frameNO = 0 /\ ~c.playing
    /\ c.goTo = "game" => c.scene = "menu"

\* What a login that calls back cb may find when it is over.
Awaits(c, cb) ==
    /\ c.scene = "menu" => c.goTo = "none"
    /\ cb = "menu" => c.scene = "menu"
    /\ cb = "game" => c.scene = "game" /\ c.goTo = "none"
    /\ cb = "Frame" /\ c.scene = "menu" => ~c.dxxw

\* The login asks for the frames that the client lacks.
Asks(c, r) ==
    /\ Awaits(c, r.cb)
    /\ c.scene = "menu" => r.sync = 0 \/ ~resume(c)
    /\ c.scene = "game" => c.frameQueue = <<>> /\ r.sync = c.frameNO
    /\ r.cb = "menu" => r.sync = 0

\* The login is on its way, was refused or was granted: then its answer, which
\* is the next message, and the frames behind it are what the client asked for.
Asked(c, t, a) == c.out = <<c.handler>> /\ t = <<>> /\ a # "this"
Refused(c, t, a) ==
    /\ c.out = <<>> /\ t # <<>> /\ Tail(t) = <<>> /\ a # "this"
    /\ Head(t).kind = "answer" /\ ~Head(t).ans.ok
Granted(c, t, a, s, n) ==
    /\ c.out = <<>> /\ t # <<>> /\ a = "this"
    /\ Head(t).kind = "answer" /\ Head(t).ans.ok
    /\ s # "none" => Head(t).ans.inGame /\ Head(t).ans.record # <<>>
    /\ s = "game" => Line(Head(t).ans.record, Tail(t), c.handler.sync, n)

LoggingIn(c, t, a, s, n) ==
    /\ Asks(c, c.handler)
    /\ ~Has(c.queue, "Login")
    /\ Asked(c, t, a) \/ Refused(c, t, a) \/ Granted(c, t, a, s, n)

\* Logged in, the client has no other login under way, and only the request to
\* leave keeps others waiting.
Alone(c, s) ==
    /\ ~Under(c, "Login") /\ c.handler.id # "Login"
    /\ s # "none" /\ c.wait => Has(c.out, "Leave")

\* A client in the menu of a game that runs is asked whether to resume it or
\* has chosen not to.
Chooses(c) ==
    c.scene = "menu" /\ c.goTo = "none" =>
        /\ resume(c) => c.frameQueue # <<>>
        /\ c.dxxw => resume(c) \/ Under(c, "Leave")

\* The game begins: the client has not been told yet, or is loading the scene.
Told(t) == t # <<>> /\ Head(t).kind = "start"
Begins(c, rd, n) == n = 0 /\ ~rd /\ ~Under(c, "Frame")

\* The frames a client that plays lacks are those after the last one it played;
\* one that will resume the game lacks all.
Playing(c, t, rd, n) ==
    /\ c.scene = "game" /\ c.goTo = "none" => Line(c.frameQueue, t, c.frameNO, n)
    /\ c.scene = "menu" /\ c.goTo = "none" /\ resume(c) => Line(c.frameQueue, t, 0, n)
    /\ c.scene = "menu" /\ c.goTo = "game" /\ c.dxxw => Line(c.frameQueue, t, 0, n)
    /\ c.scene = "menu" /\ c.goTo = "game" /\ ~c.dxxw => Begins(c, rd, n) /\ t = <<>>
    /\ Told(t) => /\ Begins(c, rd, n) /\ Tail(t) = <<>>
                  /\ c.scene = "menu" /\ c.goTo = "none" /\ ~resume(c) /\ ~c.dxxw
    /\ ~Told(t) => \A i \in DOMAIN t : t[i].kind = "frame"

\* leaves: a client that has refused to resume is about to ask to leave.
LoggedIn(leaves, c, t, a, s, rd, n) ==
    /\ a = "this" /\ Alone(c, s)
    /\ s # "none" => Chooses(c) \/ leaves
    /\ s = "game" => Playing(c, t, rd, n)

\* The client and the server agree on the frames the client lacks.
AgreeBut(leaves, c, t, a, s, rd, n) ==
    /\ Quiet(c) /\ Scenes(c)
    /\ c.pluse => c.sock = "open"
    /\ s = "room" => a # "none"
    /\ c.sock = "connecting" => Awaits(c, c.conHandler)
    /\ c.logining => LoggingIn(c, t, a, s, n)
    /\ c.logined => LoggedIn(leaves, c, t, a, s, rd, n)
Agree(c, t, a, s, rd, n) == AgreeBut(FALSE, c, t, a, s, rd, n)

FInv == Agree(client, toClient, account, seat, ready, logLen)

-----------------------------------------------------------------------------
(* Frames in line and requests under way *)

\* The frames from `from` to n - 1 are as many as one thinks.
LEMMA FramesAre ==
  ASSUME NEW from \in Nat, NEW n \in Nat, from <= n
  PROVE  /\ Frames(from, n - 1) \in Seq(Nat)
         /\ Len(Frames(from, n - 1)) = n - from
         /\ \A i \in 1..(n - from) : Frames(from, n - 1)[i] = from + i - 1
<1> DEFINE k == IF n - 1 >= from THEN n - 1 - from + 1 ELSE 0
<1>1. k = n - from
  OBVIOUS
<1>2. Frames(from, n - 1) = [i \in 1..k |-> from + i - 1]
  BY DEF Frames
<1> HIDE DEF k
<1> QED BY <1>1, <1>2

\* The numbers of the frames in s.
LEMMA NosAre ==
  ASSUME NEW s \in Seq(Messages), \A i \in DOMAIN s : s[i].kind = "frame"
  PROVE  /\ Nos(s) \in Seq(Nat) /\ Len(Nos(s)) = Len(s)
         /\ \A i \in 1..Len(s) : Nos(s)[i] = s[i].no
<1>1. \A i \in 1..Len(s) : s[i].no \in Nat
  BY DEF Messages
<1>2. Nos(s) = [i \in 1..Len(s) |-> s[i].no]
  BY DEF Nos
<1> QED BY <1>1, <1>2

\* Line, position by position.
Placed(q, s, from, n) ==
    /\ \A i \in 1..Len(s) : s[i].kind = "frame"
    /\ from + Len(q) + Len(s) = n
    /\ \A i \in 1..Len(q) : q[i] = from + i - 1
    /\ \A i \in 1..Len(s) : s[i].no = from + Len(q) + i - 1

\* Both say the same.
LEMMA LineIs ==
  ASSUME NEW q \in Seq(Nat), NEW s \in Seq(Messages), NEW from \in Nat, NEW n \in Nat
  PROVE  Line(q, s, from, n) <=> Placed(q, s, from, n)
<1> DEFINE f == Frames(from, n - 1)
           o == Nos(s)
           m == Len(q)
<1>0. m \in Nat /\ Len(s) \in Nat
  OBVIOUS
<1>1. ASSUME Line(q, s, from, n)
      PROVE  /\ \A i \in 1..Len(s) : s[i].kind = "frame"
             /\ from + m + Len(s) = n
             /\ \A i \in 1..m : q[i] = from + i - 1
             /\ \A i \in 1..Len(s) : s[i].no = from + m + i - 1
  <2>1. /\ from <= n /\ q \o o = f /\ \A i \in DOMAIN s : s[i].kind = "frame"
    BY <1>1 DEF Line
  <2>2. /\ o \in Seq(Nat) /\ Len(o) = Len(s) /\ \A i \in 1..Len(s) : o[i] = s[i].no
    BY <2>1, NosAre
  <2>3. f \in Seq(Nat) /\ Len(f) = n - from /\ \A i \in 1..(n - from) : f[i] = from + i - 1
    BY <2>1, FramesAre
  <2> HIDE DEF o, f
  <2>4. Len(q \o o) = m + Len(s)
    <3>1. Len(q \o o) = Len(q) + Len(o)
      BY <2>2, ConcatProperties
    <3> QED BY <2>2, <3>1
  <2>5. from + m + Len(s) = n
    BY <1>0, <2>1, <2>3, <2>4
  <2>6. \A i \in 1..m : q[i] = from + i - 1
    <3> TAKE i \in 1..m
    <3>1. (q \o o)[i] = q[i]
      BY <2>2
    <3>2. i \in 1..(n - from)
      BY <1>0, <2>5
    <3> QED BY <2>1, <2>3, <3>1, <3>2
  <2>7. \A i \in 1..Len(s) : s[i].no = from + m + i - 1
    <3> TAKE i \in 1..Len(s)
    <3>1. (q \o o)[m + i] = o[i]
      BY <2>2
    <3>2. m + i \in 1..(n - from)
      BY <1>0, <2>5
    <3>3. f[m + i] = from + (m + i) - 1
      BY <2>3, <3>2
    <3> QED BY <1>0, <2>1, <2>2, <3>1, <3>3
  <2> QED BY <2>1, <2>5, <2>6, <2>7
<1>2. ASSUME \A i \in 1..Len(s) : s[i].kind = "frame",
             from + m + Len(s) = n,
             \A i \in 1..m : q[i] = from + i - 1,
             \A i \in 1..Len(s) : s[i].no = from + m + i - 1
      PROVE  Line(q, s, from, n)
  <2>1. from <= n /\ n - from = m + Len(s)
    BY <1>0, <1>2
  <2>2. /\ o \in Seq(Nat) /\ Len(o) = Len(s) /\ \A i \in 1..Len(s) : o[i] = s[i].no
    <3>1. \A i \in DOMAIN s : s[i].kind = "frame"
      BY <1>2
    <3> QED BY <3>1, NosAre
  <2>3. f \in Seq(Nat) /\ Len(f) = n - from /\ \A i \in 1..(n - from) : f[i] = from + i - 1
    BY <2>1, FramesAre
  <2> HIDE DEF o, f
  <2>4. q \o o \in Seq(Nat) /\ Len(q \o o) = Len(f)
    <3>1. q \o o \in Seq(Nat) /\ Len(q \o o) = Len(q) + Len(o)
      BY <2>2, ConcatProperties
    <3> QED BY <2>1, <2>2, <2>3, <3>1
  <2>5. \A i \in 1..Len(f) : (q \o o)[i] = f[i]
    <3> TAKE i \in 1..Len(f)
    <3>1. i \in Nat /\ i \in 1..(n - from) /\ f[i] = from + i - 1
      BY <2>3
    <3>2. CASE i <= m
      <4>1. i \in 1..m
        BY <3>1, <3>2
      <4>2. (q \o o)[i] = q[i]
        BY <2>2, <4>1
      <4> QED BY <1>2, <3>1, <4>1, <4>2
    <3>3. CASE i > m
      <4>1. i - m \in 1..Len(s)
        BY <1>0, <2>1, <3>1, <3>3
      <4>2. (q \o o)[i] = o[i - m]
        BY <1>0, <2>2, <3>1, <3>3, <4>1
      <4>3. o[i - m] = from + m + (i - m) - 1
        BY <1>2, <2>2, <4>1
      <4> QED BY <1>0, <3>1, <4>2, <4>3
    <3>4. i <= m \/ i > m
      BY <1>0, <3>1
    <3> QED BY <3>2, <3>3, <3>4
  <2>6. q \o o = f
    BY <2>3, <2>4, <2>5, SeqEqual
  <2> QED BY <1>2, <2>1, <2>6 DEF Line, o, f
<1> QED BY <1>1, <1>2 DEF Placed

\* Nothing is in line before the first frame.
LEMMA LineEmpty == Line(<<>>, <<>>, 0, 0)
<1>1. <<>> \in Seq(Nat) /\ <<>> \in Seq(Messages) /\ Len(<<>>) = 0
  OBVIOUS
<1>2. Placed(<<>>, <<>>, 0, 0)
  BY DEF Placed
<1> QED BY <1>1, <1>2, LineIs

\* The record of a login is what the login asked for.
LEMMA LineRecord ==
  ASSUME NEW from \in Nat, NEW n \in Nat, from <= n
  PROVE  Line(Frames(from, n - 1), <<>>, from, n)
<1> DEFINE f == Frames(from, n - 1)
<1>1. f \in Seq(Nat) /\ Len(f) = n - from /\ \A i \in 1..(n - from) : f[i] = from + i - 1
  BY FramesAre
<1>2. <<>> \in Seq(Messages) /\ Len(<<>>) = 0
  OBVIOUS
<1> HIDE DEF f
<1>3. Placed(f, <<>>, from, n)
  BY <1>1, <1>2 DEF Placed
<1>4. Line(f, <<>>, from, n)
  BY <1>1, <1>2, <1>3, LineIs
<1> QED BY <1>4 DEF f

\* The server issues the next frame.
LEMMA LineIssue ==
  ASSUME NEW q \in Seq(Nat), NEW s \in Seq(Messages), NEW from \in Nat, NEW n \in Nat,
         Line(q, s, from, n)
  PROVE  Line(q, Append(s, [kind |-> "frame", no |-> n]), from, n + 1)
<1> DEFINE m == [kind |-> "frame", no |-> n]
           e == Append(s, m)
<1>1. m \in Messages /\ m.kind = "frame" /\ m.no = n
  BY DEF Messages
<1> HIDE DEF m
<1>2. /\ e \in Seq(Messages) /\ Len(e) = Len(s) + 1
      /\ e[Len(s) + 1] = m /\ \A i \in 1..Len(s) : e[i] = s[i]
  BY <1>1
<1>3. /\ \A i \in 1..Len(s) : s[i].kind = "frame"
      /\ from + Len(q) + Len(s) = n
      /\ \A i \in 1..Len(q) : q[i] = from + i - 1
      /\ \A i \in 1..Len(s) : s[i].no = from + Len(q) + i - 1
  BY LineIs DEF Placed
<1> HIDE DEF e
<1>4. n + 1 \in Nat /\ Len(s) \in Nat /\ Len(q) \in Nat
  OBVIOUS
<1>5. \A i \in 1..Len(e) : e[i].kind = "frame" /\ e[i].no = from + Len(q) + i - 1
  <2> TAKE i \in 1..Len(e)
  <2>1. CASE i \in 1..Len(s)
    BY <1>2, <1>3, <2>1
  <2>2. CASE i = Len(s) + 1
    BY <1>1, <1>2, <1>3, <1>4, <2>2
  <2> QED BY <1>2, <1>4, <2>1, <2>2
<1>6. from + Len(q) + Len(e) = n + 1
  BY <1>2, <1>3, <1>4
<1>7. Line(q, e, from, n + 1)
  <2>1. Placed(q, e, from, n + 1)
    BY <1>2, <1>3, <1>4, <1>5, <1>6 DEF Placed
  <2> QED BY <1>2, <1>3, <1>4, <1>5, <1>6, <2>1, LineIs
<1> QED BY <1>7 DEF e, m

\* The client takes a frame from the connection into its queue.
LEMMA LineTake ==
  ASSUME NEW q \in Seq(Nat), NEW s \in Seq(Messages), NEW from \in Nat, NEW n \in Nat,
         Line(q, s, from, n), s # <<>>
  PROVE  Line(Append(q, Head(s).no), Tail(s), from, n)
<1> DEFINE t == Tail(s)
           p == Append(q, Head(s).no)
<1>1. /\ \A i \in 1..Len(s) : s[i].kind = "frame"
      /\ from + Len(q) + Len(s) = n
      /\ \A i \in 1..Len(q) : q[i] = from + i - 1
      /\ \A i \in 1..Len(s) : s[i].no = from + Len(q) + i - 1
  BY LineIs DEF Placed
<1>2. /\ Len(s) \in Nat /\ Len(s) >= 1 /\ Len(q) \in Nat /\ Head(s) = s[1]
      /\ t \in Seq(Messages) /\ Len(t) = Len(s) - 1 /\ \A i \in 1..Len(t) : t[i] = s[i + 1]
  BY HeadTailProperties
<1>3. Head(s).no = from + Len(q) /\ Head(s).no \in Nat
  BY <1>1, <1>2
<1>4. /\ p \in Seq(Nat) /\ Len(p) = Len(q) + 1
      /\ p[Len(q) + 1] = from + Len(q) /\ \A i \in 1..Len(q) : p[i] = q[i]
  BY <1>3
<1> HIDE DEF t, p
<1>5. \A i \in 1..Len(p) : p[i] = from + i - 1
  <2> TAKE i \in 1..Len(p)
  <2>1. CASE i \in 1..Len(q)
    BY <1>1, <1>4, <2>1
  <2>2. CASE i = Len(q) + 1
    BY <1>2, <1>4, <2>2
  <2> QED BY <1>2, <1>4, <2>1, <2>2
<1>6. \A i \in 1..Len(t) : t[i].kind = "frame" /\ t[i].no = from + Len(p) + i - 1
  <2> TAKE i \in 1..Len(t)
  <2>1. i + 1 \in 1..Len(s)
    BY <1>2
  <2>2. s[i + 1].no = from + Len(q) + (i + 1) - 1 /\ s[i + 1].kind = "frame"
    BY <1>1, <2>1
  <2> QED BY <1>2, <1>4, <2>2
<1>7. from + Len(p) + Len(t) = n
  BY <1>1, <1>2, <1>4
<1>8. Line(p, t, from, n)
  <2>1. Placed(p, t, from, n)
    BY <1>2, <1>4, <1>5, <1>6, <1>7 DEF Placed
  <2> QED BY <1>2, <1>4, <1>5, <1>6, <1>7, <2>1, LineIs
<1> QED BY <1>8 DEF p, t

\* The client plays the frame that comes next.
LEMMA LinePlay ==
  ASSUME NEW q \in Seq(Nat), NEW s \in Seq(Messages), NEW from \in Nat, NEW n \in Nat,
         Line(q, s, from, n), q # <<>>
  PROVE  Line(Tail(q), s, from + 1, n)
<1> DEFINE t == Tail(q)
<1>1. /\ \A i \in 1..Len(s) : s[i].kind = "frame"
      /\ from + Len(q) + Len(s) = n
      /\ \A i \in 1..Len(q) : q[i] = from + i - 1
      /\ \A i \in 1..Len(s) : s[i].no = from + Len(q) + i - 1
  BY LineIs DEF Placed
<1>2. /\ Len(s) \in Nat /\ Len(q) >= 1 /\ Len(q) \in Nat
      /\ t \in Seq(Nat) /\ Len(t) = Len(q) - 1 /\ \A i \in 1..Len(t) : t[i] = q[i + 1]
  BY HeadTailProperties
<1> HIDE DEF t
<1>3. \A i \in 1..Len(t) : t[i] = from + 1 + i - 1
  <2> TAKE i \in 1..Len(t)
  <2>1. i + 1 \in 1..Len(q)
    BY <1>2
  <2>2. q[i + 1] = from + (i + 1) - 1
    BY <1>1, <2>1
  <2> QED BY <1>2, <2>2
<1>4. \A i \in 1..Len(s) : s[i].no = from + 1 + Len(t) + i - 1
  <2> TAKE i \in 1..Len(s)
  <2> QED BY <1>1, <1>2
<1>5. from + 1 + Len(t) + Len(s) = n /\ from + 1 \in Nat
  BY <1>1, <1>2
<1>6. Line(t, s, from + 1, n)
  <2>1. Placed(t, s, from + 1, n)
    BY <1>1, <1>2, <1>3, <1>4, <1>5 DEF Placed
  <2> QED BY <1>1, <1>2, <1>3, <1>4, <1>5, <2>1, LineIs
<1> QED BY <1>6 DEF t

\* What is under way when two sequences of requests are joined,
LEMMA HasConcat ==
  ASSUME NEW s \in Seq(Requests), NEW t \in Seq(Requests), NEW id
  PROVE  Has(s \o t, id) <=> Has(s, id) \/ Has(t, id)
<1> DEFINE u == s \o t
<1>1. /\ u \in Seq(Requests) /\ Len(u) = Len(s) + Len(t)
      /\ \A i \in 1..Len(s) : u[i] = s[i]
      /\ \A i \in 1..Len(t) : u[Len(s) + i] = t[i]
  BY ConcatProperties
<1>2. Len(s) \in Nat /\ Len(t) \in Nat
  OBVIOUS
<1> HIDE DEF u
<1>3. Has(u, id) => Has(s, id) \/ Has(t, id)
  <2> SUFFICES ASSUME NEW i \in 1..Len(u), u[i].id = id PROVE Has(s, id) \/ Has(t, id)
    BY <1>1 DEF Has
  <2>1. CASE i \in 1..Len(s)
    BY <1>1, <2>1 DEF Has
  <2>2. CASE i \notin 1..Len(s)
    <3>1. i - Len(s) \in 1..Len(t) /\ i = Len(s) + (i - Len(s))
      BY <1>1, <1>2, <2>2
    <3>2. t[i - Len(s)].id = id
      BY <1>1, <3>1
    <3> QED BY <3>1, <3>2 DEF Has
  <2> QED BY <2>1, <2>2
<1>4. Has(s, id) => Has(u, id)
  <2> SUFFICES ASSUME NEW i \in 1..Len(s), s[i].id = id PROVE Has(u, id)
    BY DEF Has
  <2>1. i \in 1..Len(u) /\ u[i].id = id
    BY <1>1, <1>2
  <2> QED BY <1>1, <2>1 DEF Has
<1>5. Has(t, id) => Has(u, id)
  <2> SUFFICES ASSUME NEW i \in 1..Len(t), t[i].id = id PROVE Has(u, id)
    BY DEF Has
  <2>1. Len(s) + i \in 1..Len(u) /\ u[Len(s) + i].id = id
    BY <1>1, <1>2
  <2> QED BY <1>1, <2>1 DEF Has
<1> QED BY <1>3, <1>4, <1>5 DEF u

\* ... when it is one request,
LEMMA HasOne ==
  ASSUME NEW r, NEW id
  PROVE  Has(<<r>>, id) <=> r.id = id
  BY DEF Has

\* ... when a request is appended,
LEMMA HasAppend ==
  ASSUME NEW s \in Seq(Requests), NEW r \in Requests, NEW id
  PROVE  Has(Append(s, r), id) <=> Has(s, id) \/ r.id = id
<1>1. Append(s, r) = s \o <<r>> /\ <<r>> \in Seq(Requests)
  OBVIOUS
<1>2. Has(s \o <<r>>, id) <=> Has(s, id) \/ Has(<<r>>, id)
  BY <1>1, HasConcat
<1>3. Has(<<r>>, id) <=> r.id = id
  BY HasOne
<1> QED BY <1>1, <1>2, <1>3

\* ... when the first is taken,
LEMMA HasHeadTail ==
  ASSUME NEW s \in Seq(Requests), s # <<>>, NEW id
  PROVE  Has(s, id) <=> Head(s).id = id \/ Has(Tail(s), id)
<1>1. s = <<Head(s)>> \o Tail(s) /\ Tail(s) \in Seq(Requests) /\ Head(s) \in Requests
  BY HeadTailProperties
<1>2. <<Head(s)>> \in Seq(Requests)
  BY <1>1
<1>3. Has(<<Head(s)>> \o Tail(s), id) <=> Has(<<Head(s)>>, id) \/ Has(Tail(s), id)
  BY <1>1, <1>2, HasConcat
<1> QED BY <1>1, <1>3, HasOne

\* ... and when the requests are cut in two.
LEMMA HasCut ==
  ASSUME NEW q \in Seq(Requests), NEW k \in 0..Len(q), NEW id
  PROVE  Has(q, id) <=> Has(SubSeq(q, 1, k), id) \/ Has(SubSeq(q, k + 1, Len(q)), id)
<1> DEFINE a == SubSeq(q, 1, k)
           b == SubSeq(q, k + 1, Len(q))
<1>1. a \in Seq(Requests) /\ b \in Seq(Requests)
  BY CutSeq
<1>2. /\ Len(a) = k /\ \A i \in 1..k : a[i] = q[i]
      /\ Len(b) = Len(q) - k /\ \A i \in 1..(Len(q) - k) : b[i] = q[k + i]
  OBVIOUS
<1>3. Len(q) \in Nat /\ k \in Nat
  OBVIOUS
<1> HIDE DEF a, b
<1>4. Has(q, id) => Has(a, id) \/ Has(b, id)
  <2> SUFFICES ASSUME NEW i \in 1..Len(q), q[i].id = id PROVE Has(a, id) \/ Has(b, id)
    BY DEF Has
  <2>1. CASE i <= k
    <3>1. i \in 1..Len(a) /\ a[i].id = id
      BY <1>2, <1>3, <2>1
    <3> QED BY <1>1, <3>1 DEF Has
  <2>2. CASE i > k
    <3>1. i - k \in 1..Len(b) /\ b[i - k] = q[k + (i - k)] /\ k + (i - k) = i
      BY <1>2, <1>3, <2>2
    <3> QED BY <1>1, <3>1 DEF Has
  <2> QED BY <1>3, <2>1, <2>2
<1>5. Has(a, id) => Has(q, id)
  <2> SUFFICES ASSUME NEW i \in 1..Len(a), a[i].id = id PROVE Has(q, id)
    BY <1>1 DEF Has
  <2>1. i \in 1..Len(q) /\ q[i].id = id
    BY <1>2, <1>3
  <2> QED BY <2>1 DEF Has
<1>6. Has(b, id) => Has(q, id)
  <2> SUFFICES ASSUME NEW i \in 1..Len(b), b[i].id = id PROVE Has(q, id)
    BY <1>1 DEF Has
  <2>1. k + i \in 1..Len(q) /\ q[k + i].id = id
    BY <1>2, <1>3
  <2> QED BY <2>1 DEF Has
<1> QED BY <1>4, <1>5, <1>6 DEF a, b

-----------------------------------------------------------------------------
(* Requests and what the user sees *)

\* A request changes nothing but what is sent, queued and waited for.
Seen(c, d) ==
    /\ d.scene = c.scene /\ d.goTo = c.goTo /\ (resume(d) <=> resume(c))
    /\ d.frameNO = c.frameNO /\ d.frameQueue = c.frameQueue /\ d.dxxw = c.dxxw
    /\ (c.scene = "menu" /\ ~c.playing => ~d.playing)
    /\ d.pluse = c.pluse
    /\ d.sock = c.sock /\ d.conHandler = c.conHandler
    /\ d.logining = c.logining /\ d.logined = c.logined

\* The requests q of c are sent or queued in d.
Passed(c, q, d) ==
    /\ \A id : Under(d, id) <=> Has(c.out, id) \/ Has(q, id)
    /\ \A i \in DOMAIN d.queue : \E j \in DOMAIN q : d.queue[i] = q[j]
    /\ d.wait \/ d.queue = <<>>
    /\ d.handler = NoRequest \/ \E j \in DOMAIN q : d.handler = q[j]
    /\ d.wait => NeedEcho(d.handler) /\ Has(d.out, d.handler.id)

\* Everything up to the first request that needs an answer is sent, the rest is
\* queued behind it.
LEMMA SendAllPassed ==
  ASSUME NEW c, Core(c), NEW q \in Seq(Requests)
  PROVE  Seen(c, SendAll(c, q)) /\ Passed(c, q, SendAll(c, q))
<1> DEFINE k == IF Echoes(q) = {} THEN Len(q)
                ELSE CHOOSE i \in Echoes(q) : \A j \in Echoes(q) : i <= j
           asks == Echoes(q) # {}
           h == IF asks THEN q[k] ELSE NoRequest
           a == SubSeq(q, 1, k)
           b == SubSeq(q, k + 1, Len(q))
           s == sendData(c, a)
           d == SendAll(c, q)
<1>1. k \in 0..Len(q) /\ (asks => k \in 1..Len(q) /\ k \in Echoes(q))
  BY FirstEcho DEF Echoes
<1>2. ~asks => k = Len(q)
  OBVIOUS
<1> HIDE DEF k, asks
<1>3. a \in Seq(Requests) /\ b \in Seq(Requests)
  BY <1>1, CutSeq
<1>4. \A id : Has(q, id) <=> Has(a, id) \/ Has(b, id)
  BY <1>1, HasCut
<1>5. /\ Len(a) = k /\ Len(b) = Len(q) - k
      /\ \A i \in 1..k : a[i] = q[i]
      /\ \A i \in 1..(Len(q) - k) : b[i] = q[k + i]
  BY <1>1
<1>6. /\ asks => NeedEcho(h) /\ Has(a, h.id)
      /\ h = NoRequest \/ \E j \in DOMAIN q : h = q[j]
      /\ asks \/ b = <<>>
  <2>1. asks => NeedEcho(h) /\ h = q[k]
    BY <1>1 DEF Echoes
  <2>2. asks => Has(a, h.id)
    <3> SUFFICES ASSUME asks PROVE Has(a, h.id)
      OBVIOUS
    <3>1. k \in 1..Len(a) /\ a[k] = h
      BY <1>1, <1>5, <2>1
    <3>2. k \in DOMAIN a /\ a[k].id = h.id
      BY <1>3, <3>1
    <3> QED BY <3>2 DEF Has
  <2>3. ~asks => Len(b) = 0
    BY <1>1, <1>2, <1>5
  <2>4. ~asks => b = <<>>
    BY <1>3, <2>3, EmptySeq
  <2> QED BY <1>1, <2>1, <2>2, <2>4
<1>7. \A i \in DOMAIN b : \E j \in DOMAIN q : b[i] = q[j]
  <2> TAKE i \in DOMAIN b
  <2>1. i \in 1..(Len(q) - k) /\ Len(q) \in Nat /\ k \in Nat
    BY <1>1, <1>3, <1>5
  <2>2. k + i \in DOMAIN q /\ b[i] = q[k + i]
    BY <1>5, <2>1
  <2> QED BY <2>2
<1> HIDE DEF h, a, b
<1>8. DOMAIN s = Fields /\ s.out = c.out \o a /\ Seen(c, s)
  BY DEF sendData, Core, Typed, Fields, Seen, resume
<1> HIDE DEF s
<1>9. d = [s EXCEPT !.queue = b, !.wait = asks, !.timer = asks, !.handler = h]
  BY DEF SendAll, k, asks, h, s, a, b
<1>10. /\ d.queue = b /\ d.handler = h /\ d.out = c.out \o a /\ Seen(s, d)
  BY <1>8, <1>9 DEF Fields, Seen, resume
<1>11. d.wait = asks
  BY <1>8, <1>9 DEF Fields
<1> HIDE DEF d
<1>12. c.out \in Seq(Requests)
  BY DEF Core, Typed
<1>13. \A id : Has(d.out, id) <=> Has(c.out, id) \/ Has(a, id)
  BY <1>3, <1>10, <1>12, HasConcat
<1>14. \A id : Under(d, id) <=> Has(c.out, id) \/ Has(q, id)
  BY <1>4, <1>10, <1>13 DEF Under
<1>15. Passed(c, q, d)
  <2>1. d.wait => NeedEcho(d.handler) /\ Has(d.out, d.handler.id)
    BY <1>6, <1>10, <1>11, <1>13
  <2>2. d.wait \/ d.queue = <<>>
    BY <1>6, <1>10, <1>11
  <2>3. \A i \in DOMAIN d.queue : \E j \in DOMAIN q : d.queue[i] = q[j]
    BY <1>7, <1>10
  <2>4. d.handler = NoRequest \/ \E j \in DOMAIN q : d.handler = q[j]
    BY <1>6, <1>10
  <2> QED BY <1>14, <2>1, <2>2, <2>3, <2>4 DEF Passed
<1>16. Seen(c, d)
  BY <1>8, <1>10 DEF Seen
<1> QED BY <1>15, <1>16 DEF d

\* A request that cannot go out now is appended to the queue.
Queued(c, r, d) ==
    /\ d.queue = Append(c.queue, r) /\ d.out = c.out
    /\ d.wait = c.wait /\ d.handler = c.handler

\* A request is queued, or goes out with what is queued.
LEMMA SendCases ==
  ASSUME NEW c, Core(c), NEW r \in Requests
  PROVE  /\ Seen(c, sendRequest(c, r))
         /\ IF ~isConnected(c) \/ c.wait THEN Queued(c, r, sendRequest(c, r))
            ELSE Passed(c, <<r>> \o c.queue, sendRequest(c, r))
<1>1. CASE ~isConnected(c) \/ c.wait
  <2> DEFINE q == Append(c.queue, r)
             d == [c EXCEPT !.queue = q]
  <2>1. sendRequest(c, r) = d
    BY <1>1 DEF sendRequest
  <2> HIDE DEF q
  <2>2. Seen(c, d)
    BY DEF Seen, Core, Typed, Fields, resume
  <2>3. d.queue = q /\ d.out = c.out /\ d.handler = c.handler
    BY DEF Core, Typed, Fields
  <2>4. d.wait = c.wait
    BY DEF Core, Typed, Fields
  <2> HIDE DEF d
  <2>5. Queued(c, r, d)
    BY <2>3, <2>4 DEF Queued, q
  <2> QED BY <1>1, <2>1, <2>2, <2>5
<1>2. CASE ~(~isConnected(c) \/ c.wait)
  <2> DEFINE q == <<r>> \o c.queue
  <2>1. sendRequest(c, r) = SendAll(c, q)
    BY <1>2 DEF sendRequest
  <2>2. q \in Seq(Requests)
    BY ConcatProperties DEF Core, Typed
  <2> HIDE DEF q
  <2>3. Seen(c, SendAll(c, q)) /\ Passed(c, q, SendAll(c, q))
    BY <2>2, SendAllPassed
  <2>4. Seen(c, sendRequest(c, r)) /\ Passed(c, q, sendRequest(c, r))
    BY <2>1, <2>3
  <2> QED BY <1>2, <2>4 DEF q
<1> QED BY <1>1, <1>2

\* A request is under way once it is asked for, and nothing else is lost.
LEMMA SendUnder ==
  ASSUME NEW c, Core(c), NEW r \in Requests, NEW id
  PROVE  Under(sendRequest(c, r), id) <=> Under(c, id) \/ r.id = id
<1> DEFINE d == sendRequest(c, r)
<1>1. c.queue \in Seq(Requests) /\ c.out \in Seq(Requests) /\ <<r>> \in Seq(Requests)
  BY DEF Core, Typed
<1>2. CASE ~isConnected(c) \/ c.wait
  <2>1. Queued(c, r, d)
    BY <1>2, SendCases
  <2> HIDE DEF d
  <2>2. Has(d.queue, id) <=> Has(c.queue, id) \/ r.id = id
    BY <1>1, <2>1, HasAppend DEF Queued
  <2>3. Under(d, id) <=> Under(c, id) \/ r.id = id
    BY <2>1, <2>2 DEF Queued, Under
  <2> QED BY <2>3 DEF d
<1>3. CASE ~(~isConnected(c) \/ c.wait)
  <2>1. Passed(c, <<r>> \o c.queue, d)
    BY <1>3, SendCases
  <2> HIDE DEF d
  <2>2. Has(<<r>> \o c.queue, id) <=> r.id = id \/ Has(c.queue, id)
    BY <1>1, HasConcat, HasOne
  <2>3. Under(d, id) <=> Under(c, id) \/ r.id = id
    BY <2>1, <2>2 DEF Passed, Under
  <2> QED BY <2>3 DEF d
<1> QED BY <1>2, <1>3

\* The members of <<r>> \o q.
LEMMA FirstThen ==
  ASSUME NEW r \in Requests, NEW q \in Seq(Requests), NEW j \in DOMAIN (<<r>> \o q)
  PROVE  (<<r>> \o q)[j] = r \/ \E i \in DOMAIN q : (<<r>> \o q)[j] = q[i]
<1> DEFINE u == <<r>> \o q
<1>1. /\ Len(u) = 1 + Len(q) /\ u \in Seq(Requests)
      /\ u[1] = r /\ \A i \in 1..Len(q) : u[1 + i] = q[i]
  OBVIOUS
<1> HIDE DEF u
<1>2. j \in 1..Len(u) /\ Len(q) \in Nat
  BY <1>1 DEF u
<1>3. CASE j = 1
  BY <1>1, <1>3 DEF u
<1>4. CASE j # 1
  <2>1. j - 1 \in 1..Len(q) /\ j = 1 + (j - 1)
    BY <1>1, <1>2, <1>4
  <2>2. u[j] = q[j - 1]
    BY <1>1, <2>1
  <2> QED BY <2>1, <2>2 DEF u
<1> QED BY <1>3, <1>4

\* The queue and what is waited for stay free of the login of a connection.
LEMMA SendPlain ==
  ASSUME NEW c, Core(c), NEW r \in Requests, ~Flagged(r), Plain(c)
  PROVE  /\ Plain(sendRequest(c, r))
         /\ Flagged(sendRequest(c, r).handler) => Flagged(c.handler)
<1> DEFINE d == sendRequest(c, r)
<1>0. c.queue \in Seq(Requests)
  BY DEF Core, Typed
<1>1. CASE ~isConnected(c) \/ c.wait
  <2>1. Queued(c, r, d)
    BY <1>1, SendCases
  <2> HIDE DEF d
  <2>2. \A i \in DOMAIN d.queue : d.queue[i] = r \/ \E j \in DOMAIN c.queue : d.queue[i] = c.queue[j]
    BY <1>0, <2>1 DEF Queued
  <2>3. Plain(d) /\ d.handler = c.handler
    BY <2>1, <2>2 DEF Plain, Queued
  <2> QED BY <2>3 DEF d
<1>2. CASE ~(~isConnected(c) \/ c.wait)
  <2> DEFINE q == <<r>> \o c.queue
  <2>1. Passed(c, q, d)
    BY <1>2, SendCases
  <2>2. \A j \in DOMAIN q : ~Flagged(q[j])
    BY <1>0, FirstThen DEF Plain
  <2> HIDE DEF d, q
  <2>3. ~Flagged(NoRequest)
    BY DEF Flagged, NoRequest
  <2>4. Plain(d) /\ ~Flagged(d.handler)
    BY <2>1, <2>2, <2>3 DEF Plain, Passed
  <2> QED BY <2>4 DEF d
<1> QED BY <1>1, <1>2

\* Nor is such a login waited for when none is under way.
LEMMA SendUnflagged ==
  ASSUME NEW c, Core(c), NEW r \in Requests, ~Flagged(r), Unflagged(c)
  PROVE  Unflagged(sendRequest(c, r))
<1>1. Seen(c, sendRequest(c, r))
  BY SendCases
<1>2. /\ Plain(sendRequest(c, r))
      /\ Flagged(sendRequest(c, r).handler) => Flagged(c.handler)
  BY SendPlain DEF Unflagged
<1> QED BY <1>1, <1>2 DEF Unflagged, Seen

\* A queue that is empty unless a request waits stays so; so is one that was sent.
LEMMA SendQuiet ==
  ASSUME NEW c, Core(c), NEW r \in Requests, ~Flagged(r), Unflagged(c),
         c.wait \/ isConnected(c)
  PROVE  Quiet(sendRequest(c, r))
<1> DEFINE d == sendRequest(c, r)
<1>1. Unflagged(d)
  BY SendUnflagged
<1>2. CASE c.wait
  <2>1. Queued(c, r, d)
    BY <1>2, SendCases
  <2> HIDE DEF d
  <2> QED BY <1>1, <1>2, <2>1 DEF Quiet, Queued, d
<1>3. CASE ~c.wait
  <2>1. Passed(c, <<r>> \o c.queue, d)
    BY <1>3, SendCases
  <2> HIDE DEF d
  <2> QED BY <1>1, <2>1 DEF Quiet, Passed, d
<1> QED BY <1>2, <1>3

\* Logged in, only the request to leave keeps others waiting.
LEMMA SendAlone ==
  ASSUME NEW c, Core(c), NEW r \in Requests, r.id # "Login", NEW s, Alone(c, s)
  PROVE  Alone(sendRequest(c, r), s)
<1> DEFINE d == sendRequest(c, r)
<1>0. c.queue \in Seq(Requests)
  BY DEF Core, Typed
<1>1. ~Under(d, "Login")
  BY SendUnder DEF Alone
<1>2. CASE ~isConnected(c) \/ c.wait
  <2>1. Queued(c, r, d)
    BY <1>2, SendCases
  <2> HIDE DEF d
  <2>2. Alone(d, s)
    BY <1>1, <2>1 DEF Queued, Alone
  <2> QED BY <2>2 DEF d
<1>3. CASE ~(~isConnected(c) \/ c.wait)
  <2> DEFINE q == <<r>> \o c.queue
  <2>1. Passed(c, q, d)
    BY <1>3, SendCases
  <2>2. \A j \in DOMAIN q : q[j].id # "Login"
    <3>1. \A j \in DOMAIN c.queue : c.queue[j].id # "Login"
      BY DEF Alone, Under, Has
    <3> QED BY <1>0, <3>1, FirstThen
  <2> HIDE DEF d, q
  <2>3. d.handler.id # "Login"
    BY <2>1, <2>2 DEF Passed, NoRequest
  <2>4. d.wait => Has(d.out, "Leave")
    <3>1. d.wait => d.handler.id \in {"Login", "Leave"} /\ Has(d.out, d.handler.id)
      BY <2>1 DEF Passed, NeedEcho
    <3> QED BY <2>3, <3>1
  <2>5. Alone(d, s)
    BY <1>1, <2>3, <2>4 DEF Alone
  <2> QED BY <2>5 DEF d
<1> QED BY <1>2, <1>3

\* A client that is logged in stays so when requests are sent or queued.
LEMMA PassLoggedIn ==
  ASSUME NEW c, NEW d, NEW t, NEW a, NEW s, NEW rd, NEW n, NEW leaves,
         Seen(c, d), Alone(d, s), LoggedIn(leaves, c, t, a, s, rd, n),
         \A id : Under(c, id) => Under(d, id),
         Under(d, "Frame") => Under(c, "Frame") \/ c.scene = "game",
         leaves => Under(d, "Leave") /\ ~resume(d)
  PROVE  LoggedIn(FALSE, d, t, a, s, rd, n)
<1>1. s # "none" => Chooses(d)
  BY DEF LoggedIn, Chooses, Seen
<1>2. c.scene = "menu" => (Begins(c, rd, n) => Begins(d, rd, n))
  BY DEF Begins
<1>3. s = "game" => Playing(d, t, rd, n)
  BY <1>2 DEF LoggedIn, Playing, Seen
<1> QED BY <1>1, <1>3 DEF LoggedIn

\* So does a client that is logging in, while its login is waited for.
LEMMA PassLoggingIn ==
  ASSUME NEW c, Core(c), NEW r \in Requests, r.id # "Login", NEW t, NEW a, NEW s, NEW n,
         c.logining, LoggingIn(c, t, a, s, n)
  PROVE  LoggingIn(sendRequest(c, r), t, a, s, n)
<1> DEFINE d == sendRequest(c, r)
<1>1. c.wait
  BY DEF Core, Flags
<1>2. Seen(c, d) /\ Queued(c, r, d)
  BY <1>1, SendCases
<1>3. c.queue \in Seq(Requests)
  BY DEF Core, Typed
<1> HIDE DEF d
<1>4. ~Has(d.queue, "Login")
  BY <1>2, <1>3, HasAppend DEF LoggingIn, Queued
<1>5. Asks(d, d.handler)
  BY <1>2 DEF LoggingIn, Asks, Awaits, Seen, Queued
<1>6. \/ Asked(d, t, a) \/ Refused(d, t, a) \/ Granted(d, t, a, s, n)
  BY <1>2 DEF LoggingIn, Asked, Refused, Granted, Queued
<1>7. LoggingIn(d, t, a, s, n)
  BY <1>4, <1>5, <1>6 DEF LoggingIn
<1> QED BY <1>7 DEF d

\* A request leaves the client and the server in agreement.
LEMMA SendAgree ==
  ASSUME NEW c, Core(c), NEW r \in Requests, ~Flagged(r),
         NEW t, NEW a, NEW s, NEW rd, NEW n, NEW leaves,
         AgreeBut(leaves, c, t, a, s, rd, n),
         c.wait \/ isConnected(c),
         r.id = "Login" => ~c.logining /\ ~c.logined,
         r.id = "Frame" => c.scene = "game",
         leaves => r.id = "Leave" /\ ~resume(c)
  PROVE  Agree(sendRequest(c, r), t, a, s, rd, n)
<1> DEFINE d == sendRequest(c, r)
<1>1. Seen(c, d)
  BY SendCases
<1>2. Quiet(d)
  BY SendQuiet DEF AgreeBut, Quiet
<1>3. \A id : Under(d, id) <=> Under(c, id) \/ r.id = id
  BY SendUnder
<1>4. c.logining => LoggingIn(d, t, a, s, n)
  BY PassLoggingIn DEF AgreeBut
<1>5. c.logined => Alone(d, s)
  BY SendAlone DEF AgreeBut, LoggedIn
<1> HIDE DEF d
<1>6. ~resume(c) => ~resume(d)
  BY <1>1 DEF Seen
<1>7. c.logined => LoggedIn(FALSE, d, t, a, s, rd, n)
  <2> SUFFICES ASSUME c.logined PROVE LoggedIn(FALSE, d, t, a, s, rd, n)
    OBVIOUS
  <2>1. LoggedIn(leaves, c, t, a, s, rd, n)
    BY DEF AgreeBut
  <2> QED BY <1>1, <1>3, <1>5, <1>6, <2>1, PassLoggedIn
<1>8. Scenes(d) /\ (d.sock = "connecting" => Awaits(d, d.conHandler))
  BY <1>1 DEF AgreeBut, Scenes, Awaits, Seen
<1>9. Agree(d, t, a, s, rd, n)
  BY <1>1, <1>2, <1>4, <1>7, <1>8 DEF Agree, AgreeBut, Seen
<1> QED BY <1>9 DEF d

\* So does sending what is queued, once nothing is waited for.
LEMMA QueueAgree ==
  ASSUME NEW c, Core(c), isConnected(c), ~c.wait, ~c.logining, Unflagged(c), Scenes(c),
         NEW t, NEW a, NEW s, NEW rd, NEW n,
         s = "room" => a # "none",
         c.logined => LoggedIn(FALSE, c, t, a, s, rd, n)
  PROVE  Agree(sendRequestInQueue(c), t, a, s, rd, n)
<1>0. c.sock # "connecting" /\ c.sock = "open" /\ c.queue \in Seq(Requests)
  BY DEF isConnected, Core, Typed
<1>1. CASE c.queue = <<>>
  <2>1. sendRequestInQueue(c) = c
    BY <1>1 DEF sendRequestInQueue
  <2> QED BY <1>0, <1>1, <2>1 DEF Agree, AgreeBut, Quiet
<1>2. CASE c.queue # <<>>
  <2> DEFINE q == Tail(c.queue)
             r == Head(c.queue)
             e == [c EXCEPT !.queue = q]
             d == sendRequest(e, r)
  <2>1. q \in Seq(Requests) /\ r \in Requests
    BY <1>0, <1>2, HeadTailProperties
  <2>2. sendRequestInQueue(c) = d
    BY <1>2 DEF sendRequestInQueue
  <2>3. \A id : Has(c.queue, id) <=> r.id = id \/ Has(q, id)
    BY <1>0, <1>2, HasHeadTail
  <2>4. ~Flagged(r) /\ \A i \in DOMAIN q : ~Flagged(q[i])
    <3>1. /\ 1 \in DOMAIN c.queue /\ c.queue[1] = r
          /\ \A i \in DOMAIN q : i + 1 \in DOMAIN c.queue /\ q[i] = c.queue[i + 1]
      BY <1>0, <1>2, HeadTailProperties
    <3> QED BY <3>1 DEF Unflagged, Plain
  <2> HIDE DEF q, r
  <2>5. /\ DOMAIN e = Fields /\ Seen(c, e) /\ e.queue = q /\ e.out = c.out /\ e.handler = c.handler
    BY DEF Core, Typed, Fields, Seen, resume
  <2>6. (e.wait) = FALSE
    BY DEF Core, Typed, Fields
  <2>7. Core(e)
    BY <2>1, <2>5, <2>6 DEF Core, Typed, Flags, Seen
  <2> HIDE DEF e
  <2>8. \A id : Under(c, id) <=> Under(e, id) \/ r.id = id
    BY <2>3, <2>5 DEF Under
  <2>9. Unflagged(e)
    BY <2>4, <2>5 DEF Unflagged, Plain, Seen
  <2>10. Quiet(d)
    BY <1>0, <2>1, <2>4, <2>5, <2>7, <2>9, SendQuiet DEF isConnected, Seen
  <2>11. Seen(e, d)
    BY <2>1, <2>7, SendCases
  <2>12. \A id : Under(d, id) <=> Under(c, id)
    BY <2>1, <2>7, <2>8, SendUnder
  <2>13. c.logined => Alone(d, s)
    <3> SUFFICES ASSUME c.logined PROVE Alone(d, s)
      OBVIOUS
    <3>1. Alone(c, s)
      BY DEF LoggedIn
    <3>2. Alone(e, s) /\ r.id # "Login"
      BY <2>5, <2>6, <2>8, <3>1 DEF Alone
    <3> QED BY <2>1, <2>7, <3>2, SendAlone
  <2> HIDE DEF d
  <2>14. Seen(c, d)
    BY <2>5, <2>11 DEF Seen
  <2>15. c.logined => LoggedIn(FALSE, d, t, a, s, rd, n)
    BY <2>12, <2>13, <2>14, PassLoggedIn
  <2>16. Scenes(d)
    BY <2>14 DEF Scenes, Seen
  <2>17. Agree(d, t, a, s, rd, n)
    BY <1>0, <2>10, <2>14, <2>15, <2>16 DEF Agree, AgreeBut, Seen
  <2> QED BY <2>2, <2>17
<1> QED BY <1>1, <1>2

\* What only the tip or another dialog changes.
Still(c, d) ==
    /\ Seen(c, d)
    /\ d.queue = c.queue /\ d.out = c.out /\ d.wait = c.wait /\ d.handler = c.handler

\* The client and the server agree as before.
LEMMA StillAgree ==
  ASSUME NEW c, NEW d, Still(c, d), NEW t, NEW a, NEW s, NEW rd, NEW n, NEW leaves,
         AgreeBut(leaves, c, t, a, s, rd, n)
  PROVE  AgreeBut(leaves, d, t, a, s, rd, n)
<1>1. Quiet(d) /\ Scenes(d)
  BY DEF AgreeBut, Quiet, Unflagged, Plain, Scenes, Still, Seen
<1>2. d.sock = "connecting" => Awaits(d, d.conHandler)
  BY DEF AgreeBut, Awaits, Still, Seen
<1>3. d.logining => LoggingIn(d, t, a, s, n)
  BY DEF AgreeBut, LoggingIn, Asks, Awaits, Asked, Refused, Granted, Still, Seen
<1>4. d.logined => LoggedIn(leaves, d, t, a, s, rd, n)
  <2>1. Playing(c, t, rd, n) => Playing(d, t, rd, n)
    BY DEF Playing, Begins, Under, Still, Seen
  <2>2. Chooses(c) => Chooses(d)
    BY DEF Chooses, Under, Still, Seen
  <2>3. Alone(c, s) => Alone(d, s)
    BY DEF Alone, Under, Still
  <2> QED BY <2>1, <2>2, <2>3 DEF AgreeBut, LoggedIn, Still, Seen
<1> QED BY <1>1, <1>2, <1>3, <1>4 DEF AgreeBut, Still, Seen

\* A login that did not succeed, or was not tried, only takes the tip away.
LEMMA NotConnectedStill ==
  ASSUME NEW c, Core(c), NEW cb \in Callbacks, NEW ret, ret # 0, ret # 3 \/ cb \in {"menu", "game"}
  PROVE  Still(c, Connected(c, cb, ret, NoAnswer))
<1> DEFINE d == MenuConnected(c, ret, NoAnswer)
<1>0. Still(c, c)
  BY DEF Still, Seen
<1>1. CASE cb = "menu"
  <2>1. d = [c EXCEPT !.tip = FALSE, !.dialogs = c.dialogs]
    BY DEF MenuConnected
  <2>2. Still(c, d)
    BY <2>1 DEF Core, Typed, Fields, Still, Seen, resume
  <2> QED BY <1>1, <2>2 DEF Connected
<1>2. CASE cb = "game"
  <2>1. GameConnected(c, ret, NoAnswer) = c
    BY DEF GameConnected
  <2> QED BY <1>0, <1>2, <2>1 DEF Connected
<1>3. CASE cb \notin {"menu", "game"}
  <2>1. ret \notin {0, 3}
    BY <1>3
  <2>2. Connected(c, cb, ret, NoAnswer) = c
    BY <1>3, <2>1 DEF Connected
  <2> QED BY <1>0, <2>2
<1> QED BY <1>1, <1>2, <1>3

\* A request that needs a login leaves the client and the server in agreement.
LEMMA ConnectAgree ==
  ASSUME NEW c, Core(c), NEW cb \in Callbacks,
         NEW t, NEW a, NEW s, NEW rd, NEW n, NEW leaves,
         AgreeBut(leaves, c, t, a, s, rd, n),
         c.sock = "none" => Awaits(c, cb),
         cb = "Frame" => c.scene = "game",
         leaves => cb = "Leave" /\ ~resume(c)
  PROVE  Agree(connectServer(c, cb), t, a, s, rd, n)
<1> DEFINE d == connectServer(c, cb)
<1>1. d = IF isConnecting(c) THEN Connected(c, cb, 4, NoAnswer)
          ELSE IF c.logining THEN Connected(c, cb, 5, NoAnswer)
          ELSE IF c.sock = "none" THEN connect(c, cb)
          ELSE IF isConnected(c) /\ ~c.logined THEN sendRequest(c, Login(cb, FALSE, c.frameNO))
          ELSE Connected(c, cb, 3, NoAnswer)
  BY DEF connectServer, isConnecting, isConnected
<1> HIDE DEF d
<1>0. ~c.logined => Agree(c, t, a, s, rd, n)
  BY DEF AgreeBut, Agree
<1>2. CASE isConnecting(c) \/ c.logining
  <2>1. ~c.logined
    BY <1>2 DEF isConnecting, Core, Flags, AgreeBut, LoggedIn, Alone
  <2>2. d = Connected(c, cb, 4, NoAnswer) \/ d = Connected(c, cb, 5, NoAnswer)
    BY <1>1, <1>2
  <2>3. Still(c, Connected(c, cb, 4, NoAnswer)) /\ Still(c, Connected(c, cb, 5, NoAnswer))
    BY NotConnectedStill
  <2>4. Still(c, d)
    BY <2>2, <2>3
  <2> QED BY <1>0, <2>1, <2>4, StillAgree DEF Agree, d
<1>3. CASE ~isConnecting(c) /\ ~c.logining /\ c.sock = "none"
  <2>1. d = [c EXCEPT !.sock = "connecting", !.conHandler = cb]
    BY <1>1, <1>3 DEF connect
  <2>2. /\ d.sock = "connecting" /\ d.conHandler = cb /\ d.queue = c.queue /\ d.handler = c.handler
        /\ d.scene = c.scene /\ d.goTo = c.goTo /\ d.frameQueue = c.frameQueue /\ d.frameNO = c.frameNO
    BY <2>1 DEF Core, Typed, Fields
  <2>3. /\ d.wait = c.wait /\ d.logining = c.logining /\ d.logined = c.logined
        /\ d.dxxw = c.dxxw /\ d.playing = c.playing /\ d.pluse = c.pluse
    BY <2>1 DEF Core, Typed, Fields
  <2>4. ~d.logined /\ ~d.pluse /\ ~d.logining
    BY <1>3, <2>3 DEF Core, Flags, AgreeBut
  <2>5. Awaits(d, d.conHandler)
    BY <1>3, <2>2, <2>3 DEF Awaits
  <2>6. Quiet(d) /\ Scenes(d)
    BY <2>2, <2>3 DEF AgreeBut, Quiet, Unflagged, Plain, Scenes
  <2> QED BY <2>4, <2>5, <2>6 DEF Agree, AgreeBut, d
<1>4. CASE ~isConnecting(c) /\ ~c.logining /\ c.sock # "none" /\ ~c.logined
  <2> DEFINE r == Login(cb, FALSE, c.frameNO)
  <2>1. isConnected(c)
    BY <1>4 DEF isConnected, isConnecting, Core, Typed
  <2>2. r \in Requests /\ r.id = "Login" /\ ~Flagged(r)
    BY DEF Login, Requests, Core, Typed, Flagged
  <2>3. d = sendRequest(c, r)
    BY <1>1, <1>4, <2>1
  <2> HIDE DEF r
  <2>4. AgreeBut(FALSE, c, t, a, s, rd, n)
    BY <1>0, <1>4 DEF Agree
  <2>5. Agree(sendRequest(c, r), t, a, s, rd, n)
    BY <1>4, <2>1, <2>2, <2>4, SendAgree
  <2> QED BY <2>3, <2>5 DEF d
<1>5. CASE ~isConnecting(c) /\ ~c.logining /\ c.sock # "none" /\ c.logined
  <2>1. d = Connected(c, cb, 3, NoAnswer) /\ isConnected(c)
    BY <1>1, <1>5 DEF isConnected, isConnecting, Core, Typed
  <2>2. CASE cb \in {"menu", "game"}
    <3>1. Still(c, d)
      BY <2>1, <2>2, NotConnectedStill
    <3>2. AgreeBut(FALSE, c, t, a, s, rd, n)
      BY <2>2 DEF AgreeBut, LoggedIn
    <3> QED BY <3>1, <3>2, StillAgree DEF Agree, d
  <2>3. CASE cb \notin {"menu", "game"}
    <3> DEFINE r == Request(cb)
    <3>1. r \in Requests /\ r.id = cb /\ ~Flagged(r) /\ r.id # "Login"
      BY <2>3 DEF Request, Requests, Callbacks, Flagged
    <3>2. d = sendRequest(c, r)
      BY <2>1, <2>3 DEF Connected
    <3> HIDE DEF r
    <3>3. Agree(sendRequest(c, r), t, a, s, rd, n)
      BY <2>1, <3>1, SendAgree
    <3> QED BY <3>2, <3>3 DEF d
  <2> QED BY <2>2, <2>3
<1> QED BY <1>2, <1>3, <1>4, <1>5

\* It does not change the scene.
LEMMA ConnectScene ==
  ASSUME NEW c, Core(c), NEW cb \in Callbacks
  PROVE  connectServer(c, cb).scene = c.scene
<1>1. connect(c, cb).scene = c.scene
  BY DEF connect, Core, Typed, Fields
<1>2. \A r \in Requests : sendRequest(c, r).scene = c.scene
  BY SendCases DEF Seen
<1>3. Login(cb, FALSE, c.frameNO) \in Requests
  BY DEF Login, Requests, Core, Typed
<1>4. \A ret \in {3, 4, 5} : Connected(c, cb, ret, NoAnswer).scene = c.scene
  <2> TAKE ret \in {3, 4, 5}
  <2>1. CASE cb \in {"menu", "game"}
    <3>1. Still(c, Connected(c, cb, ret, NoAnswer))
      BY <2>1, NotConnectedStill
    <3> QED BY <3>1 DEF Still, Seen
  <2>2. CASE cb \notin {"menu", "game"}
    <3>1. Request(cb) \in Requests
      BY <2>2 DEF Request, Requests, Callbacks
    <3>2. Connected(c, cb, ret, NoAnswer) = IF ret \in {0, 3} THEN sendRequest(c, Request(cb)) ELSE c
      BY <2>2 DEF Connected
    <3> QED BY <1>2, <3>1, <3>2
  <2> QED BY <2>1, <2>2
<1>5. \/ connectServer(c, cb) = connect(c, cb)
      \/ connectServer(c, cb) = sendRequest(c, Login(cb, FALSE, c.frameNO))
      \/ \E ret \in {3, 4, 5} : connectServer(c, cb) = Connected(c, cb, ret, NoAnswer)
  BY DEF connectServer, isConnecting, isConnected
<1>6. sendRequest(c, Login(cb, FALSE, c.frameNO)).scene = c.scene
  BY <1>2, <1>3
<1> QED BY <1>1, <1>4, <1>5, <1>6

-----------------------------------------------------------------------------
(* The user *)

(* The user of FramesOnTheWay, a game that starts when all are ready, and a  *)
(* login that resumes a game always brings frames.                           *)
Patient == PatientUser /\ ~StartTimeout /\ MissedAtLeast > 0

\* A step of the client alone.
LEMMA ClientAgree ==
  ASSUME UNCHANGED <<toClient, server>>,
         Agree(client', toClient, account, seat, ready, logLen)
  PROVE  FInv'
  BY DEF FInv, server

\* The question whether to resume is answered.
LEMMA ShutAgree ==
  ASSUME NEW c, Core(c), NEW t, NEW a, NEW s, NEW rd, NEW n, Agree(c, t, a, s, rd, n)
  PROVE  LET d == [c EXCEPT !.dialogs = @ \ {"resume"}]
         IN  AgreeBut(TRUE, d, t, a, s, rd, n) /\ Core(d) /\ ~resume(d)
<1> DEFINE d == [c EXCEPT !.dialogs = @ \ {"resume"}]
<1>0. Core(d) /\ ~resume(d)
  BY DEF Core, Typed, Flags, Fields, resume
<1>1. /\ d.scene = c.scene /\ d.goTo = c.goTo /\ d.frameNO = c.frameNO
      /\ d.frameQueue = c.frameQueue /\ d.sock = c.sock /\ d.conHandler = c.conHandler
      /\ d.queue = c.queue /\ d.out = c.out /\ d.handler = c.handler
  BY DEF Core, Typed, Fields
<1>2. /\ d.dxxw = c.dxxw /\ d.playing = c.playing /\ d.pluse = c.pluse /\ d.wait = c.wait
      /\ d.logining = c.logining /\ d.logined = c.logined
  BY DEF Core, Typed, Fields
<1> HIDE DEF d
<1>3. Quiet(d) /\ Scenes(d)
  BY <1>1, <1>2 DEF Agree, AgreeBut, Quiet, Unflagged, Plain, Scenes
<1>4. d.sock = "connecting" => Awaits(d, d.conHandler)
  BY <1>1, <1>2 DEF Agree, AgreeBut, Awaits
<1>5. d.logining => LoggingIn(d, t, a, s, n)
  BY <1>0, <1>1, <1>2 DEF Agree, AgreeBut, LoggingIn, Asks, Awaits, Asked, Refused, Granted
<1>6. d.logined => LoggedIn(TRUE, d, t, a, s, rd, n)
  <2>1. Playing(c, t, rd, n) => Playing(d, t, rd, n)
    BY <1>0, <1>1, <1>2 DEF Playing, Begins, Under
  <2>2. Alone(c, s) => Alone(d, s)
    BY <1>1, <1>2 DEF Alone, Under
  <2> QED BY <1>2, <2>1, <2>2 DEF Agree, AgreeBut, LoggedIn
<1>7. AgreeBut(TRUE, d, t, a, s, rd, n)
  BY <1>1, <1>2, <1>3, <1>4, <1>5, <1>6 DEF Agree, AgreeBut
<1> QED BY <1>0, <1>7 DEF d

\* What the user does in the menu.
LEMMA MenuAgree ==
  ASSUME IInv, FInv, ChooseOnline \/ Resume \/ RefuseResume \/ CloseMenuError
  PROVE  FInv'
<1> DEFINE tip == [client EXCEPT !.tip = TRUE]
           shut == [client EXCEPT !.dialogs = @ \ {"resume"}]
           hush == [client EXCEPT !.dialogs = @ \ {"menuError"}]
           Ag(c) == Agree(c, toClient, account, seat, ready, logLen)
           Leaving(c) == AgreeBut(TRUE, c, toClient, account, seat, ready, logLen)
<1>1. Core(client) /\ DOMAIN client = Fields /\ Ag(client)
  BY DEF IInv, Core, Typed, FInv
<1>2. Still(client, tip) /\ Still(client, hush)
  BY <1>1 DEF Still, Seen, Fields, resume
<1>3. Ag(tip) /\ Ag(hush)
  BY <1>1, <1>2, StillAgree DEF Agree
<1>4. Core(tip)
  BY <1>1 DEF Core, Typed, Flags, Fields
<1>5. Leaving(shut) /\ Core(shut) /\ ~resume(shut)
  BY <1>1, ShutAgree
<1>6. /\ shut.scene = client.scene /\ shut.goTo = client.goTo /\ shut.sock = client.sock
      /\ tip.scene = client.scene /\ tip.goTo = client.goTo /\ tip.sock = client.sock
      /\ shut.frameQueue = client.frameQueue
  BY <1>1 DEF Fields
<1>7. shut.logined = client.logined
  BY <1>1 DEF Fields
<1>8. CASE ChooseOnline
  <2>1. client' = connectServer(tip, "menu") /\ client.scene = "menu" /\ client.goTo = "none"
    BY <1>8 DEF ChooseOnline
  <2> HIDE DEF tip
  <2>2. Awaits(tip, "menu")
    BY <1>6, <2>1 DEF Awaits
  <2>3. Ag(connectServer(tip, "menu"))
    BY <1>3, <1>4, <2>2, ConnectAgree DEF Agree, Callbacks
  <2> QED BY <1>8, <2>1, <2>3, ClientAgree DEF ChooseOnline
<1>9. CASE Resume
  <2> DEFINE d == [shut EXCEPT !.dxxw = TRUE,
                               !.goTo = IF shut.frameQueue = <<>> THEN "none" ELSE "game"]
  <2>1. /\ client' = IF ~shut.logined THEN shut ELSE d
        /\ client.scene = "menu" /\ client.goTo = "none" /\ resume(client)
    BY <1>9 DEF Resume, resume
  <2> HIDE DEF shut
  <2>2. CASE ~shut.logined
    BY <1>5, <1>9, <2>1, <2>2, ClientAgree DEF Agree, AgreeBut, Resume
  <2>3. CASE shut.logined
    <3> DEFINE c == shut
    <3>1. /\ d.scene = "menu" /\ d.frameNO = c.frameNO
          /\ d.goTo = IF c.frameQueue = <<>> THEN "none" ELSE "game"
          /\ d.frameQueue = c.frameQueue /\ d.sock = c.sock /\ d.conHandler = c.conHandler
          /\ d.queue = c.queue /\ d.out = c.out /\ d.handler = c.handler
          /\ (resume(d) <=> resume(c))
      BY <1>5, <1>6, <2>1 DEF Core, Typed, Fields, resume
    <3>2. /\ d.dxxw /\ d.playing = c.playing /\ d.pluse = c.pluse /\ d.wait = c.wait
          /\ d.logining = c.logining /\ d.logined = c.logined
      BY <1>5 DEF Core, Typed, Fields
    <3> HIDE DEF d
    <3>3. /\ client.logined /\ c.sock = "open" /\ ~c.logining
          /\ LoggedIn(FALSE, client, toClient, account, seat, ready, logLen)
          /\ LoggedIn(TRUE, c, toClient, account, seat, ready, logLen)
      BY <1>1, <1>5, <1>7, <2>3 DEF Agree, AgreeBut, LoggedIn, Alone, Core, Flags
    <3>4. seat # "none" => d.goTo = "game"
      BY <1>6, <2>1, <3>1, <3>3 DEF LoggedIn, Chooses
    <3>5. Alone(d, seat)
      BY <3>1, <3>2, <3>3 DEF LoggedIn, Alone, Under
    <3>6. seat = "game" => Playing(d, toClient, ready, logLen)
      <4> SUFFICES ASSUME seat = "game" PROVE Playing(d, toClient, ready, logLen)
        OBVIOUS
      <4>1. Playing(client, toClient, ready, logLen)
        BY <3>3 DEF LoggedIn
      <4>2. Line(client.frameQueue, toClient, 0, logLen) /\ ~Told(toClient)
        BY <2>1, <4>1 DEF Playing
      <4> QED BY <1>6, <3>1, <3>2, <3>4, <4>1, <4>2 DEF Playing
    <3>7. LoggedIn(FALSE, d, toClient, account, seat, ready, logLen)
      BY <3>1, <3>3, <3>4, <3>5, <3>6 DEF LoggedIn, Chooses
    <3>8. Quiet(d) /\ Scenes(d)
      BY <1>5, <3>1, <3>2, <2>1, <1>6 DEF AgreeBut, Quiet, Unflagged, Plain, Scenes
    <3>9. Ag(d)
      BY <1>5, <3>1, <3>2, <3>3, <3>7, <3>8 DEF Agree, AgreeBut
    <3> QED BY <1>9, <2>1, <2>3, <3>9, ClientAgree DEF Resume
  <2> QED BY <2>2, <2>3
<1>10. CASE RefuseResume
  <2>1. client' = connectServer(shut, "Leave") /\ client.scene = "menu" /\ client.goTo = "none"
    BY <1>10 DEF RefuseResume, sendRequestWhenLogined
  <2> HIDE DEF shut
  <2>2. Awaits(shut, "Leave")
    BY <1>6, <2>1 DEF Awaits
  <2>3. Ag(connectServer(shut, "Leave"))
    BY <1>5, <2>2, ConnectAgree DEF Callbacks
  <2> QED BY <1>10, <2>1, <2>3, ClientAgree DEF RefuseResume
<1>11. CASE CloseMenuError
  BY <1>3, <1>11, ClientAgree DEF CloseMenuError
<1> QED BY <1>8, <1>9, <1>10, <1>11

\* A change of scenes or of the frames when the client is not logged in.
LEMMA IdleAgree ==
  ASSUME NEW d, NEW t, NEW a, NEW s, NEW rd, NEW n,
         Quiet(d), Scenes(d), s = "room" => a # "none",
         d.pluse => d.sock = "open", d.sock # "connecting", ~d.logining, ~d.logined
  PROVE  Agree(d, t, a, s, rd, n)
  BY DEF Agree, AgreeBut

\* What the handlers below leave alone.
Linked(c, d) ==
    /\ d.sock = c.sock /\ d.conHandler = c.conHandler
    /\ d.queue = c.queue /\ d.out = c.out /\ d.handler = c.handler
    /\ d.wait = c.wait /\ d.pluse = c.pluse
    /\ d.logining = c.logining /\ d.logined = c.logined

\* The queue of requests is as quiet as before.
LEMMA LinkedQuiet ==
  ASSUME NEW c, NEW d, Linked(c, d)
  PROVE  /\ Quiet(c) => Quiet(d)
         /\ \A s : Alone(c, s) => Alone(d, s)
         /\ \A id : Under(d, id) <=> Under(c, id)
  BY DEF Linked, Quiet, Unflagged, Plain, Alone, Under

\* The game that is loaded starts with the frames of its record, or with none.
LEMMA StartAgree ==
  ASSUME IInv, FInv, SceneLoaded, client.goTo = "game"
  PROVE  FInv'
<1> DEFINE Ag(c) == Agree(c, toClient, account, seat, ready, logLen)
           c == [client EXCEPT !.scene = client.goTo, !.goTo = "none",
                               !.tip = FALSE, !.dialogs = {}]
           d == reset(c)
           e == IF c.dxxw THEN d ELSE connectServer(d, "Frame")
<1>1. Core(client) /\ DOMAIN client = Fields /\ Ag(client)
  BY DEF IInv, Core, Typed, FInv
<1>2. /\ DOMAIN c = Fields /\ c.scene = "game" /\ c.goTo = "none"
      /\ c.frameQueue = client.frameQueue /\ c.dialogs = {}
      /\ c.sock = client.sock /\ c.conHandler = client.conHandler
      /\ c.queue = client.queue /\ c.out = client.out /\ c.handler = client.handler
  BY <1>1 DEF Fields
<1>3. /\ c.dxxw = client.dxxw /\ c.pluse = client.pluse /\ c.wait = client.wait
      /\ c.logining = client.logining /\ c.logined = client.logined
  BY <1>1 DEF Fields
<1>4. client' = startFrameHandleTimer(e)
  BY <1>2 DEF SceneLoaded, startGame, sendRequestWhenLogined
<1> HIDE DEF c
<1>5. d = [[c EXCEPT !.playing = FALSE] EXCEPT !.frameNO = 0,
              !.frameQueue = IF c.dxxw THEN c.frameQueue ELSE <<>>]
  <2> DEFINE z == [c EXCEPT !.playing = FALSE]
  <2>1. (z.dxxw) = (c.dxxw) /\ z.frameQueue = c.frameQueue
    BY <1>2 DEF Fields
  <2> HIDE DEF c, z
  <2>2. reset(c) = [z EXCEPT !.frameNO = 0, !.frameQueue = IF c.dxxw THEN z.frameQueue ELSE <<>>]
    BY DEF reset, stopFrameHandleTimer, z
  <2> QED BY <2>1, <2>2 DEF z
<1> HIDE DEF d
<1>6. /\ DOMAIN d = Fields /\ d.scene = "game" /\ d.goTo = "none" /\ d.frameNO = 0
      /\ d.frameQueue = IF c.dxxw THEN client.frameQueue ELSE <<>>
      /\ d.dialogs = {}
      /\ d.sock = client.sock /\ d.conHandler = client.conHandler
      /\ d.queue = client.queue /\ d.out = client.out /\ d.handler = client.handler
  BY <1>2, <1>5 DEF Fields
<1>7. /\ d.pluse = client.pluse /\ d.wait = client.wait /\ d.dxxw = client.dxxw
      /\ d.logining = client.logining /\ d.logined = client.logined
  BY <1>2, <1>3, <1>5 DEF Fields
<1>8. Linked(client, d)
  BY <1>6, <1>7 DEF Linked
<1>9. Core(d)
  BY <1>1, <1>6, <1>8 DEF Core, Typed, Flags, Linked
<1>10. client.scene = "menu" /\ client.sock # "connecting" /\ ~client.logining
  <2>1. client.scene = "menu" /\ client.goTo # "none"
    BY <1>1 DEF Agree, AgreeBut, Scenes, SceneLoaded
  <2> QED BY <1>1, <2>1 DEF Agree, AgreeBut, LoggingIn, Asks, Awaits
<1>11. Quiet(d) /\ Scenes(d)
  <2>1. d.frameQueue \in Seq(Nat)
    BY <1>1, <1>6 DEF Agree, AgreeBut, Scenes
  <2> QED BY <1>1, <1>6, <1>8, <2>1, LinkedQuiet DEF Agree, AgreeBut, Scenes
<1>12. client.logined => LoggedIn(FALSE, d, toClient, account, seat, ready, logLen)
  <2> SUFFICES ASSUME client.logined PROVE LoggedIn(FALSE, d, toClient, account, seat, ready, logLen)
    OBVIOUS
  <2>1. LoggedIn(FALSE, client, toClient, account, seat, ready, logLen)
    BY <1>1 DEF Agree, AgreeBut
  <2>2. Alone(d, seat) /\ Chooses(d)
    BY <1>6, <1>8, <2>1, LinkedQuiet DEF LoggedIn, Chooses
  <2>3. seat = "game" => Playing(d, toClient, ready, logLen)
    <3> SUFFICES ASSUME seat = "game" PROVE Playing(d, toClient, ready, logLen)
      OBVIOUS
    <3>1. Playing(client, toClient, ready, logLen)
      BY <2>1 DEF LoggedIn
    <3>2. ~Told(toClient)
      BY <3>1 DEF Playing
    <3>3. Line(d.frameQueue, toClient, 0, logLen)
      <4>1. CASE client.dxxw
        BY <1>3, <1>6, <1>10, <3>1, <4>1 DEF Playing
      <4>2. CASE ~client.dxxw
        <5>1. toClient = <<>> /\ logLen = 0
          BY <1>10, <3>1, <4>2 DEF Playing, Begins
        <5>2. d.frameQueue = <<>>
          BY <1>3, <1>6, <4>2
        <5> QED BY <5>1, <5>2, LineEmpty
      <4> QED BY <4>1, <4>2
    <3> QED BY <1>6, <3>1, <3>2, <3>3 DEF Playing
  <2> QED BY <2>1, <2>2, <2>3 DEF LoggedIn
<1>13. Ag(d)
  BY <1>1, <1>6, <1>7, <1>10, <1>11, <1>12 DEF Agree, AgreeBut
<1>14. Ag(e) /\ Core(e) /\ e.scene = "game"
  <2>1. CASE c.dxxw
    BY <1>6, <1>9, <1>13, <2>1
  <2>2. CASE ~c.dxxw
    <3>1. Awaits(d, "Frame")
      BY <1>6 DEF Awaits
    <3>2. Ag(connectServer(d, "Frame"))
      BY <1>6, <1>9, <1>13, <3>1, ConnectAgree DEF Agree, Callbacks
    <3>3. Core(connectServer(d, "Frame"))
      BY <1>9, ConnectSound DEF Sound, Callbacks
    <3>4. connectServer(d, "Frame").scene = "game"
      BY <1>6, <1>9, ConnectScene DEF Callbacks
    <3> QED BY <2>2, <3>2, <3>3, <3>4
  <2> QED BY <2>1, <2>2
<1> HIDE DEF e
<1>15. Ag(startFrameHandleTimer(e))
  <2> DEFINE f == [e EXCEPT !.playing = TRUE]
  <2>1. Still(e, f)
    BY <1>14 DEF Core, Typed, Fields, Still, Seen, resume
  <2> HIDE DEF f
  <2>2. Ag(f)
    BY <1>14, <2>1, StillAgree DEF Agree
  <2> QED BY <2>2 DEF startFrameHandleTimer, f
<1> QED BY <1>4, <1>15, ClientAgree DEF SceneLoaded

\* In the menu no game is played, and the frames of the last one are gone.
LEMMA ExitAgree ==
  ASSUME IInv, FInv, SceneLoaded, client.goTo = "menu"
  PROVE  FInv'
<1> DEFINE Ag(c) == Agree(c, toClient, account, seat, ready, logLen)
           c == [client EXCEPT !.scene = client.goTo, !.goTo = "none",
                               !.tip = FALSE, !.dialogs = {}]
           z == [c EXCEPT !.dxxw = FALSE]
           d == reset(z)
<1>1. Core(client) /\ DOMAIN client = Fields /\ Ag(client)
  BY DEF IInv, Core, Typed, FInv
<1>2. /\ DOMAIN z = Fields /\ z.scene = "menu" /\ z.goTo = "none" /\ z.dialogs = {}
      /\ z.sock = client.sock /\ z.conHandler = client.conHandler
      /\ z.queue = client.queue /\ z.out = client.out /\ z.handler = client.handler
  BY <1>1 DEF Fields
<1>3. /\ z.dxxw = FALSE /\ z.pluse = client.pluse /\ z.wait = client.wait
      /\ z.logining = client.logining /\ z.logined = client.logined
  BY <1>1 DEF Fields
<1>4. client' = d
  <2>1. c.scene = "menu"
    BY <1>1 DEF Fields
  <2> QED BY <2>1 DEF SceneLoaded, exitGame
<1> HIDE DEF c, z
<1>5. d = [[z EXCEPT !.playing = FALSE] EXCEPT !.frameNO = 0, !.frameQueue = <<>>]
  <2> DEFINE y == [z EXCEPT !.playing = FALSE]
  <2>1. (y.dxxw) = FALSE
    BY <1>2, <1>3 DEF Fields
  <2> HIDE DEF y
  <2>2. reset(z) = [y EXCEPT !.frameNO = 0, !.frameQueue = IF y.dxxw THEN y.frameQueue ELSE <<>>]
    BY DEF reset, stopFrameHandleTimer, y
  <2> QED BY <2>1, <2>2 DEF y
<1> HIDE DEF d
<1>6. /\ d.scene = "menu" /\ d.goTo = "none" /\ d.frameNO = 0 /\ d.frameQueue = <<>>
      /\ ~resume(d)
      /\ d.sock = client.sock /\ d.conHandler = client.conHandler
      /\ d.queue = client.queue /\ d.out = client.out /\ d.handler = client.handler
  BY <1>2, <1>5 DEF Fields, resume
<1>7. /\ d.pluse = client.pluse /\ d.wait = client.wait /\ ~d.dxxw /\ ~d.playing
      /\ d.logining = client.logining /\ d.logined = client.logined
  BY <1>2, <1>3, <1>5 DEF Fields
<1>8. Linked(client, d)
  BY <1>6, <1>7 DEF Linked
<1>9. Quiet(d) /\ Scenes(d)
  BY <1>1, <1>6, <1>7, <1>8, LinkedQuiet DEF Agree, AgreeBut, Scenes
<1>10. \A cb : Awaits(client, cb) => Awaits(d, cb) /\ cb \notin {"menu", "game"}
  BY <1>6, <1>7 DEF Awaits, SceneLoaded
<1>11. d.sock = "connecting" => Awaits(d, d.conHandler)
  BY <1>1, <1>6, <1>10 DEF Agree, AgreeBut
<1>12. d.logining => LoggingIn(d, toClient, account, seat, logLen)
  <2> SUFFICES ASSUME client.logining PROVE LoggingIn(d, toClient, account, seat, logLen)
    BY <1>7
  <2>1. LoggingIn(client, toClient, account, seat, logLen)
    BY <1>1 DEF Agree, AgreeBut
  <2>2. Asks(d, d.handler)
    BY <1>6, <1>10, <2>1 DEF LoggingIn, Asks
  <2> QED BY <1>6, <2>1, <2>2 DEF LoggingIn, Asked, Refused, Granted
<1>13. d.logined => LoggedIn(FALSE, d, toClient, account, seat, ready, logLen)
  <2> SUFFICES ASSUME client.logined PROVE LoggedIn(FALSE, d, toClient, account, seat, ready, logLen)
    BY <1>7
  <2>1. LoggedIn(FALSE, client, toClient, account, seat, ready, logLen)
    BY <1>1 DEF Agree, AgreeBut
  <2>2. Alone(d, seat)
    BY <1>8, <2>1, LinkedQuiet DEF LoggedIn
  <2>3. Playing(client, toClient, ready, logLen) => Playing(d, toClient, ready, logLen)
    BY <1>6, <1>7 DEF Playing, SceneLoaded
  <2> QED BY <1>6, <1>7, <2>1, <2>2, <2>3 DEF LoggedIn, Chooses
<1>14. Ag(d)
  BY <1>1, <1>6, <1>7, <1>9, <1>11, <1>12, <1>13 DEF Agree, AgreeBut
<1> QED BY <1>4, <1>14, ClientAgree DEF SceneLoaded

\* The game plays the next frame.
LEMMA FrameAgree ==
  ASSUME IInv, FInv, onGameFrame
  PROVE  FInv'
<1> DEFINE Ag(c) == Agree(c, toClient, account, seat, ready, logLen)
           d == [client EXCEPT !.frameNO = @ + 1, !.frameQueue = Tail(@)]
<1>1. Core(client) /\ DOMAIN client = Fields /\ Ag(client)
  BY DEF IInv, Core, Typed, FInv
<1>2. /\ client.frameQueue # <<>> /\ client.frameQueue \in Seq(Nat) /\ client.frameNO \in Nat
      /\ client.scene = "game"
      /\ toClient \in Seq(Messages) /\ logLen \in Nat
  BY <1>1 DEF onGameFrame, CanPlay, Agree, AgreeBut, Scenes, Core, Typed, IInv, World
<1>3. /\ DOMAIN d = Fields /\ d.scene = "game" /\ d.goTo = client.goTo
      /\ d.frameNO = client.frameNO + 1 /\ d.frameQueue = Tail(client.frameQueue)
      /\ d.sock = client.sock /\ d.conHandler = client.conHandler
      /\ d.queue = client.queue /\ d.out = client.out /\ d.handler = client.handler
  BY <1>1, <1>2 DEF Fields
<1>4. /\ d.pluse = client.pluse /\ d.wait = client.wait /\ d.dxxw = client.dxxw
      /\ d.logining = client.logining /\ d.logined = client.logined
  BY <1>1 DEF Fields
<1>5. client' = IF d.dxxw THEN d ELSE connectServer(d, "Frame")
  BY DEF onGameFrame, sendRequestWhenLogined
<1> HIDE DEF d
<1>6. Linked(client, d)
  BY <1>3, <1>4 DEF Linked
<1>7. Core(d)
  BY <1>1, <1>2, <1>3, <1>6 DEF Core, Typed, Flags, Linked
<1>8. ~client.logining
  BY <1>1, <1>2 DEF Agree, AgreeBut, LoggingIn, Asks
<1>9. Quiet(d) /\ Scenes(d)
  <2>1. d.frameQueue \in Seq(Nat)
    BY <1>2, <1>3
  <2> QED BY <1>1, <1>2, <1>3, <1>6, <2>1, LinkedQuiet DEF Agree, AgreeBut, Scenes
<1>10. d.sock = "connecting" => Awaits(d, d.conHandler)
  BY <1>1, <1>2, <1>3, <1>4 DEF Agree, AgreeBut, Awaits
<1>11. d.logined => LoggedIn(FALSE, d, toClient, account, seat, ready, logLen)
  <2> SUFFICES ASSUME client.logined PROVE LoggedIn(FALSE, d, toClient, account, seat, ready, logLen)
    BY <1>4
  <2>1. LoggedIn(FALSE, client, toClient, account, seat, ready, logLen)
    BY <1>1 DEF Agree, AgreeBut
  <2>2. Alone(d, seat) /\ Chooses(d)
    BY <1>3, <1>6, <2>1, LinkedQuiet DEF LoggedIn, Chooses
  <2>3. Line(client.frameQueue, toClient, client.frameNO, logLen)
          => Line(d.frameQueue, toClient, d.frameNO, logLen)
    BY <1>2, <1>3, LinePlay
  <2>4. Playing(client, toClient, ready, logLen) => Playing(d, toClient, ready, logLen)
    BY <1>2, <1>3, <2>3 DEF Playing
  <2> QED BY <2>1, <2>2, <2>4 DEF LoggedIn
<1>12. Ag(d)
  BY <1>1, <1>3, <1>4, <1>8, <1>9, <1>10, <1>11 DEF Agree, AgreeBut
<1>13. Ag(connectServer(d, "Frame"))
  <2>1. d.sock = "none" => Awaits(d, "Frame")
    BY <1>3 DEF Awaits
  <2> QED BY <1>3, <1>7, <1>12, <2>1, ConnectAgree DEF Agree, Callbacks
<1> QED BY <1>5, <1>12, <1>13, ClientAgree DEF onGameFrame

\* What the user does in the game, a keepalive and the end of catching up.
LEMMA GameAgree ==
  ASSUME IInv, FInv, Patient, Reconnect \/ LeaveGame \/ CaughtUp \/ sendPluse
  PROVE  FInv'
<1> DEFINE Ag(c) == Agree(c, toClient, account, seat, ready, logLen)
           shut == [client EXCEPT !.dialogs = @ \ {"reconnect"}]
<1>1. Core(client) /\ DOMAIN client = Fields /\ Ag(client)
  BY DEF IInv, Core, Typed, FInv
<1>2. /\ Still(client, shut) /\ shut.scene = client.scene /\ shut.goTo = client.goTo
      /\ shut.sock = client.sock
  BY <1>1 DEF Still, Seen, Fields, resume
<1>3. Ag(shut) /\ Core(shut)
  <2>1. Ag(shut)
    BY <1>1, <1>2, StillAgree DEF Agree
  <2>2. Core(shut)
    BY <1>1 DEF Core, Typed, Flags, Fields
  <2> QED BY <2>1, <2>2
<1>4. CASE Reconnect
  <2>1. client' = connectServer(shut, "game") /\ client.scene = "game" /\ client.goTo = "none"
    BY <1>4 DEF Reconnect
  <2> HIDE DEF shut
  <2>2. Awaits(shut, "game")
    BY <1>2, <2>1 DEF Awaits
  <2>3. Ag(connectServer(shut, "game"))
    BY <1>3, <2>2, ConnectAgree DEF Agree, Callbacks
  <2> QED BY <1>4, <2>1, <2>3, ClientAgree DEF Reconnect
<1>5. CASE LeaveGame
  <2> DEFINE d == [shut EXCEPT !.goTo = "menu"]
  <2>1. /\ client' = IF shut.logined THEN connectServer(shut, "Leave") ELSE d
        /\ client.scene = "game" /\ client.goTo = "none"
        /\ client.sock # "connecting" /\ ~client.logining
    BY <1>5 DEF LeaveGame, sendRequestWhenLogined, Patient
  <2> HIDE DEF shut
  <2>2. CASE shut.logined
    <3>1. Ag(connectServer(shut, "Leave"))
      <4>1. Awaits(shut, "Leave")
        BY <1>2, <2>1 DEF Awaits
      <4> QED BY <1>3, <4>1, ConnectAgree DEF Agree, Callbacks
    <3> QED BY <1>5, <2>1, <2>2, <3>1, ClientAgree DEF LeaveGame
  <2>3. CASE ~shut.logined
    <3>1. /\ d.scene = shut.scene /\ d.goTo = "menu" /\ d.frameNO = shut.frameNO
          /\ d.frameQueue = shut.frameQueue
      BY <1>3 DEF Core, Typed, Fields
    <3>2. Linked(shut, d) /\ d.playing = shut.playing
      BY <1>3 DEF Core, Typed, Fields, Linked
    <3> HIDE DEF d
    <3>3. Quiet(d) /\ Scenes(d)
      BY <1>2, <1>3, <2>1, <3>1, <3>2, LinkedQuiet DEF Agree, AgreeBut, Scenes
    <3>4. Ag(d)
      BY <1>2, <1>3, <2>1, <2>3, <3>2, <3>3, IdleAgree DEF Agree, AgreeBut, Linked, Still, Seen
    <3> QED BY <1>5, <2>1, <2>3, <3>4, ClientAgree DEF LeaveGame
  <2> QED BY <2>2, <2>3
<1>6. CASE CaughtUp
  <2> DEFINE d == [client EXCEPT !.dxxw = FALSE]
  <2>1. client' = d /\ client.scene = "game"
    BY <1>1, <1>6 DEF CaughtUp, Agree, AgreeBut, Scenes
  <2>2. /\ d.scene = client.scene /\ d.goTo = client.goTo /\ d.frameNO = client.frameNO
        /\ d.frameQueue = client.frameQueue /\ (resume(d) <=> resume(client))
    BY <1>1 DEF Fields, resume
  <2>3. Linked(client, d) /\ d.playing = client.playing
    BY <1>1 DEF Fields, Linked
  <2> HIDE DEF d
  <2>4. Quiet(d) /\ Scenes(d)
    BY <1>1, <2>2, <2>3, LinkedQuiet DEF Agree, AgreeBut, Scenes
  <2>5. \A cb : Awaits(client, cb) => Awaits(d, cb)
    BY <2>1, <2>2 DEF Awaits
  <2>6. d.logining => LoggingIn(d, toClient, account, seat, logLen)
    BY <1>1, <2>2, <2>3, <2>5
    DEF Agree, AgreeBut, LoggingIn, Asks, Asked, Refused, Granted, Linked
  <2>7. d.logined => LoggedIn(FALSE, d, toClient, account, seat, ready, logLen)
    <3>1. Playing(client, toClient, ready, logLen) => Playing(d, toClient, ready, logLen)
      BY <2>1, <2>2 DEF Playing
    <3>2. Alone(client, seat) => Alone(d, seat)
      BY <2>3, LinkedQuiet
    <3> QED BY <1>1, <2>1, <2>2, <2>3, <3>1, <3>2 DEF Agree, AgreeBut, LoggedIn, Chooses, Linked
  <2>8. Ag(d)
    BY <1>1, <2>2, <2>3, <2>4, <2>5, <2>6, <2>7 DEF Agree, AgreeBut, Linked
  <2> QED BY <1>6, <2>1, <2>8, ClientAgree DEF CaughtUp
<1>7. CASE sendPluse
  <2> DEFINE r == Request("Pluse")
  <2>1. client' = sendRequest(client, r) /\ client.pluse
    BY <1>7 DEF sendPluse
  <2>2. r \in Requests /\ r.id = "Pluse" /\ ~Flagged(r)
    BY DEF Request, Requests, Flagged
  <2> HIDE DEF r
  <2>3. isConnected(client)
    BY <1>1, <2>1 DEF Agree, AgreeBut, isConnected
  <2>4. Ag(sendRequest(client, r))
    BY <1>1, <2>2, <2>3, SendAgree DEF Agree
  <2> QED BY <1>7, <2>1, <2>4, ClientAgree DEF sendPluse
<1> QED BY <1>4, <1>5, <1>6, <1>7

-----------------------------------------------------------------------------
(* The socket *)

\* What the scenes do about a lost connection does not change the frames.
LEMMA NetErrorFrames ==
  ASSUME NEW c, DOMAIN c = Fields
  PROVE  LET d == onNetError(c) IN
         /\ Linked(c, d) /\ DOMAIN d = Fields
         /\ d.scene = c.scene /\ d.goTo = c.goTo /\ d.frameNO = c.frameNO
         /\ d.frameQueue = c.frameQueue /\ d.dxxw = c.dxxw /\ d.playing = c.playing
<1> DEFINE a == [c EXCEPT !.tip = FALSE]
           b == [c EXCEPT !.dialogs = @ \cup {"menuError"}]
           g == [c EXCEPT !.dialogs = @ \cup {"reconnect"}]
           Ok(d) == /\ Linked(c, d) /\ DOMAIN d = Fields
                    /\ d.scene = c.scene /\ d.goTo = c.goTo /\ d.frameNO = c.frameNO
                    /\ d.frameQueue = c.frameQueue /\ d.dxxw = c.dxxw /\ d.playing = c.playing
<1>1. Ok(a) /\ Ok(b) /\ Ok(g)
  BY DEF Fields, Linked
<1>2. onNetError(c) = a \/ onNetError(c) = b \/ onNetError(c) = g
  BY DEF onNetError, MenuNetError, GameNetError
<1> HIDE DEF a, b, g
<1> QED BY <1>1, <1>2

\* A closed connection has nothing to say of frames.
Closed(c, d) ==
    /\ d.scene = c.scene /\ d.goTo = c.goTo /\ d.frameNO = c.frameNO
    /\ d.frameQueue = c.frameQueue /\ (d.playing <=> c.playing) /\ (d.dxxw <=> c.dxxw)
    /\ d.sock # "connecting" /\ ~d.logining /\ ~d.logined /\ ~d.pluse
    /\ d.queue = <<>> /\ d.handler = NoRequest

\* A client that has closed its connection agrees with any server.
LEMMA ClosedAgree ==
  ASSUME NEW c, NEW d, Closed(c, d), Scenes(c),
         NEW t, NEW a, NEW s, NEW rd, NEW n, s = "room" => a # "none"
  PROVE  Agree(d, t, a, s, rd, n)
<1>1. Quiet(d)
  BY DEF Closed, Quiet, Unflagged, Plain, Flagged, NoRequest
<1>2. Scenes(d)
  BY DEF Closed, Scenes
<1> QED BY <1>1, <1>2, IdleAgree DEF Closed

\* A lost connection is closed, with whatever waited on it.
LEMMA LoseCloses ==
  ASSUME NEW c, DOMAIN c = Fields
  PROVE  Closed(c, clearSocket(socketErrorHandler(c)))
<1> DEFINE f == [c EXCEPT !.logining = FALSE, !.logined = FALSE]
           e == onNetError(f)
           d == clearSocket(clearData(e))
<1>1. /\ DOMAIN f = Fields /\ f.scene = c.scene /\ f.goTo = c.goTo /\ f.frameNO = c.frameNO
      /\ f.frameQueue = c.frameQueue /\ ~f.logining /\ ~f.logined
  BY DEF Fields
<1>2. f.dxxw = c.dxxw /\ f.playing = c.playing
  BY DEF Fields
<1> HIDE DEF f
<1>3. /\ Linked(f, e) /\ DOMAIN e = Fields
      /\ e.scene = f.scene /\ e.goTo = f.goTo /\ e.frameNO = f.frameNO
      /\ e.frameQueue = f.frameQueue /\ e.dxxw = f.dxxw /\ e.playing = f.playing
  BY <1>1, NetErrorFrames
<1> HIDE DEF e
<1>4. /\ d.scene = e.scene /\ d.goTo = e.goTo /\ d.frameNO = e.frameNO
      /\ d.frameQueue = e.frameQueue /\ d.sock = "none"
      /\ d.queue = <<>> /\ d.handler = NoRequest
  BY <1>3 DEF clearSocket, clearData, Fields
<1>5. /\ d.dxxw = e.dxxw /\ d.playing = e.playing /\ ~d.pluse
      /\ d.logining = e.logining /\ d.logined = e.logined
  BY <1>3 DEF clearSocket, clearData, Fields
<1> HIDE DEF d
<1>6. Closed(c, d)
  BY <1>1, <1>2, <1>3, <1>4, <1>5 DEF Closed, Linked
<1> QED BY <1>6 DEF socketErrorHandler, onSocketError, d, e, f

\* The connection is lost, or given up while it is open.
LEMMA LossAgree ==
  ASSUME IInv, FInv, onclose \/ onRequestTimeOut
  PROVE  FInv'
<1> DEFINE Ag(c) == Agree(c, toClient, account, seat, ready, logLen)
<1>1. Core(client) /\ DOMAIN client = Fields /\ Ag(client) /\ Scenes(client)
  BY DEF IInv, Core, Typed, FInv, Agree, AgreeBut
<1>2. seat' = "room" => account' # "none"
  BY DEF onclose, onRequestTimeOut, Lose, Bind
<1>3. Closed(client, client') => FInv'
  BY <1>1, <1>2, ClosedAgree DEF FInv
<1>4. CASE onclose
  <2>1. Closed(client, client')
    BY <1>1, <1>4, LoseCloses DEF onclose, Lose
  <2> QED BY <1>3, <2>1
<1>5. CASE onRequestTimeOut
  <2> DEFINE u == [client EXCEPT !.timer = FALSE]
             f == [u EXCEPT !.logining = FALSE, !.logined = FALSE]
             g == disconnectServer(u)
             d == onNetError(g)
  <2>0. client' = d
    BY <1>5 DEF onRequestTimeOut
  <2>1. /\ DOMAIN f = Fields /\ f.scene = client.scene /\ f.goTo = client.goTo
        /\ f.frameNO = client.frameNO /\ f.frameQueue = client.frameQueue
        /\ f.sock = client.sock /\ f.conHandler = client.conHandler /\ f.queue = client.queue
        /\ f.out = client.out /\ f.handler = client.handler /\ u.sock = client.sock
        /\ ~f.logining /\ ~f.logined
    BY <1>1 DEF Fields
  <2>2. f.dxxw = client.dxxw /\ f.playing = client.playing /\ f.wait = client.wait /\ f.pluse = client.pluse
    BY <1>1 DEF Fields
  <2>3. g = IF isConnected(u) THEN disconnect(f) ELSE f
    BY DEF disconnectServer
  <2> HIDE DEF u, f, g
  <2>4. CASE client.sock = "open"
    <3>1. g = clearData(clearSocket(f))
      BY <2>1, <2>3, <2>4 DEF isConnected, disconnect
    <3>2. /\ DOMAIN g = Fields /\ g.scene = f.scene /\ g.goTo = f.goTo /\ g.frameNO = f.frameNO
          /\ g.frameQueue = f.frameQueue /\ g.sock = "none"
          /\ g.queue = <<>> /\ g.handler = NoRequest
      BY <2>1, <3>1 DEF clearSocket, clearData, Fields
    <3>3. /\ g.dxxw = f.dxxw /\ g.playing = f.playing /\ ~g.pluse
          /\ g.logining = f.logining /\ g.logined = f.logined
      BY <2>1, <3>1 DEF clearSocket, clearData, Fields
    <3>4. /\ Linked(g, d)
          /\ d.scene = g.scene /\ d.goTo = g.goTo /\ d.frameNO = g.frameNO
          /\ d.frameQueue = g.frameQueue /\ d.dxxw = g.dxxw /\ d.playing = g.playing
      BY <3>2, NetErrorFrames
    <3> HIDE DEF d
    <3>5. Closed(client, d)
      BY <2>1, <2>2, <3>2, <3>3, <3>4 DEF Closed, Linked
    <3> QED BY <1>3, <2>0, <3>5
  <2>5. CASE client.sock # "open"
    <3>1. g = f
      BY <2>1, <2>3, <2>5 DEF isConnected
    <3>2. /\ Linked(g, d)
          /\ d.scene = g.scene /\ d.goTo = g.goTo /\ d.frameNO = g.frameNO
          /\ d.frameQueue = g.frameQueue /\ d.dxxw = g.dxxw /\ d.playing = g.playing
      BY <2>1, <3>1, NetErrorFrames
    <3> HIDE DEF d
    <3>3. ~client.logining
      BY <1>1, <2>5 DEF Core, Flags
    <3>4. Quiet(d) /\ Scenes(d)
      BY <1>1, <2>1, <2>2, <3>1, <3>2, <3>3
      DEF Agree, AgreeBut, Quiet, Unflagged, Plain, Scenes, Linked
    <3>5. d.sock = "connecting" => Awaits(d, d.conHandler)
      BY <1>1, <2>1, <2>2, <3>1, <3>2 DEF Agree, AgreeBut, Awaits, Linked
    <3>6. Agree(d, toClient', account', seat', ready', logLen')
      BY <1>1, <1>2, <2>1, <2>2, <3>1, <3>2, <3>4, <3>5 DEF Agree, AgreeBut, Linked
    <3> QED BY <2>0, <3>6 DEF FInv
  <2> QED BY <2>4, <2>5
<1> QED BY <1>4, <1>5

\* The connection could not be made.
LEMMA RefusedAgree ==
  ASSUME IInv, FInv, onConnectFailed
  PROVE  FInv'
<1> DEFINE e == Connected(client, client.conHandler, 1, NoAnswer)
           d == clearSocket(clearData(e))
<1>1. Core(client) /\ Scenes(client) /\ client.conHandler \in Callbacks /\ isConnecting(client)
      /\ (seat = "room" => account # "none")
  BY DEF IInv, Core, Typed, FInv, Agree, AgreeBut, onConnectFailed, isConnecting
<1>2. Still(client, e)
  BY <1>1, NotConnectedStill
<1>3. DOMAIN e = Fields /\ e.playing = client.playing
  BY <1>1 DEF Connected, MenuConnected, GameConnected, Core, Typed, Fields, Callbacks
<1> HIDE DEF e
<1>4. /\ d.scene = e.scene /\ d.goTo = e.goTo /\ d.frameNO = e.frameNO
      /\ d.frameQueue = e.frameQueue /\ d.sock = "none"
      /\ d.queue = <<>> /\ d.handler = NoRequest
  BY <1>3 DEF clearSocket, clearData, Fields
<1>5. /\ d.dxxw = e.dxxw /\ d.playing = e.playing /\ ~d.pluse
      /\ d.logining = e.logining /\ d.logined = e.logined
  BY <1>3 DEF clearSocket, clearData, Fields
<1>6. client' = d
  BY DEF onConnectFailed, ConnectRefused, d, e
<1> HIDE DEF d
<1>7. ~client.logining /\ ~client.logined
  BY <1>1 DEF Core, Flags, isConnecting
<1>8. Closed(client, d)
  BY <1>2, <1>3, <1>4, <1>5, <1>7 DEF Closed, Still, Seen
<1>9. Agree(d, toClient, account, seat, ready, logLen)
  BY <1>1, <1>8, ClosedAgree
<1> QED BY <1>6, <1>9, ClientAgree DEF onConnectFailed

\* A request goes out alone when nothing is queued.
LEMMA SendFirst ==
  ASSUME NEW c, DOMAIN c = Fields, isConnected(c), (c.wait) = FALSE, c.queue = <<>>, c.out = <<>>,
         NEW r \in Requests, NeedEcho(r)
  PROVE  sendRequest(c, r) = [[c EXCEPT !.out = <<r>>] EXCEPT
            !.queue = <<>>, !.wait = TRUE, !.timer = TRUE, !.handler = r]
<1> DEFINE q == <<r>>
           k == IF Echoes(q) = {} THEN Len(q)
                ELSE CHOOSE i \in Echoes(q) : \A j \in Echoes(q) : i <= j
           asks == Echoes(q) # {}
<1>1. <<r>> \o c.queue = q
  OBVIOUS
<1>2. sendRequest(c, r) = SendAll(c, q)
  BY <1>1 DEF sendRequest
<1>3. Echoes(q) = {1}
  BY DEF Echoes
<1>4. k = 1 /\ asks = TRUE
  BY <1>3
<1> HIDE DEF k, asks
<1>5. SendAll(c, q) = [sendData(c, SubSeq(q, 1, k)) EXCEPT
            !.queue = SubSeq(q, k + 1, Len(q)), !.wait = asks, !.timer = asks,
            !.handler = IF asks THEN q[k] ELSE NoRequest]
  BY DEF SendAll, k, asks
<1>6. SubSeq(q, 1, k) = <<r>> /\ SubSeq(q, k + 1, Len(q)) = <<>> /\ q[k] = r
  <2>1. q \in Seq(Requests) /\ Len(q) = 1 /\ q[1] = r
    OBVIOUS
  <2>2. SubSeq(q, 1, 1) = [i \in 1..1 |-> r]
    <3>1. SubSeq(q, 1, 1) \in Seq(Requests) /\ Len(SubSeq(q, 1, 1)) = 1 /\ SubSeq(q, 1, 1)[1] = r
      BY <2>1
    <3> QED BY <3>1
  <2>3. <<r>> = [i \in 1..1 |-> r]
    OBVIOUS
  <2>4. SubSeq(q, 2, 1) = <<>>
    BY SubSeqEmpty
  <2>5. SubSeq(q, 1, 1) = <<r>>
    BY <2>2, <2>3
  <2>6. k + 1 = 2 /\ Len(q) = 1
    BY <1>4, <2>1
  <2> HIDE DEF q
  <2>7. SubSeq(q, k + 1, Len(q)) = <<>>
    BY <2>4, <2>6
  <2> QED BY <1>4, <2>1, <2>5, <2>7
<1>7. sendData(c, <<r>>) = [c EXCEPT !.out = <<r>>]
  <2>1. <<>> \o <<r>> = <<r>>
    OBVIOUS
  <2> QED BY <2>1 DEF sendData
<1>8. (IF asks THEN q[k] ELSE NoRequest) = r
  BY <1>4, <1>6
<1> HIDE DEF q
<1> QED BY <1>2, <1>4, <1>5, <1>6, <1>7, <1>8

\* The login asks for what the client lacks when the connection comes about.
LEMMA OpenAgree ==
  ASSUME IInv, FInv, Patient, onopen
  PROVE  FInv'
<1> DEFINE Ag(c) == Agree(c, toClient, account, seat, ready, logLen)
           o == [client EXCEPT !.sock = "open"]
           l == [o EXCEPT !.logining = TRUE]
           r == Login(client.conHandler, TRUE, client.frameNO)
           s == [[l EXCEPT !.out = <<r>>] EXCEPT
                    !.queue = <<>>, !.wait = TRUE, !.timer = TRUE, !.handler = r]
           d == [s EXCEPT !.pluse = TRUE]
<1>1. Core(client) /\ DOMAIN client = Fields /\ Ag(client) /\ client.conHandler \in Callbacks
      /\ client.sock = "connecting" /\ client.frameNO \in Nat
  BY DEF IInv, Core, Typed, FInv, onopen, isConnecting
<1>2. ~client.wait /\ client.out = <<>> /\ ~client.logined /\ client.queue = <<>>
      /\ toClient = <<>> /\ account # "this"
  BY <1>1 DEF Core, Flags, Agree, AgreeBut, Quiet, IInv, World
<1>3. r \in Requests /\ NeedEcho(r) /\ r.id = "Login" /\ r.cb = client.conHandler
      /\ r.sync = client.frameNO
  BY <1>1 DEF Login, Requests, NeedEcho
<1>4. /\ DOMAIN l = Fields /\ isConnected(l) /\ l.queue = <<>> /\ l.out = <<>>
      /\ o.conHandler = client.conHandler /\ o.frameNO = client.frameNO
  BY <1>1, <1>2 DEF Fields, isConnected
<1>5. (l.wait) = FALSE
  BY <1>1, <1>2 DEF Fields
<1>6. client' = [sendRequestInQueue(sendRequest(l, Login(o.conHandler, TRUE, o.frameNO)))
                    EXCEPT !.pluse = TRUE]
  BY DEF onopen, onConnectSuccess
<1> HIDE DEF o, r
<1>7. sendRequest(l, r) = s
  BY <1>3, <1>4, <1>5, SendFirst
<1>8. s.queue = <<>>
  BY <1>4 DEF Fields
<1>9. client' = d
  BY <1>4, <1>6, <1>7, <1>8 DEF sendRequestInQueue, r
<1>10. /\ d.scene = client.scene /\ d.goTo = client.goTo /\ d.frameNO = client.frameNO
       /\ d.frameQueue = client.frameQueue /\ (resume(d) <=> resume(client))
       /\ d.sock = "open" /\ d.out = <<r>> /\ d.queue = <<>> /\ d.handler = r
  BY <1>1 DEF Fields, resume, o
<1>11. /\ d.dxxw = client.dxxw /\ d.playing = client.playing /\ d.wait /\ d.logining
       /\ d.logined = client.logined
  BY <1>1 DEF Fields, o
<1> HIDE DEF d
<1>12. Quiet(d) /\ Scenes(d)
  BY <1>1, <1>10, <1>11 DEF Agree, AgreeBut, Quiet, Unflagged, Plain, Scenes
<1>13. Awaits(client, client.conHandler) /\ Scenes(client)
  BY <1>1 DEF Agree, AgreeBut
<1>14. Asks(d, r)
  <2>1. client.frameQueue = <<>> \/ client.scene = "menu"
    BY DEF onopen, Patient
  <2> QED BY <1>3, <1>10, <1>11, <1>13, <2>1 DEF Asks, Awaits, Scenes
<1>15. LoggingIn(d, toClient, account, seat, logLen)
  BY <1>2, <1>10, <1>14 DEF LoggingIn, Asked, Has
<1>16. Ag(d)
  BY <1>1, <1>2, <1>10, <1>11, <1>12, <1>15 DEF Agree, AgreeBut
<1> QED BY <1>9, <1>16, ClientAgree DEF onopen

-----------------------------------------------------------------------------
(* Messages *)

\* Behind a frame there are only frames.
LEMMA OnlyFrames ==
  ASSUME NEW t \in Seq(Messages), t # <<>>, \A i \in DOMAIN t : t[i].kind = "frame"
  PROVE  ~Told(t) /\ ~Told(Tail(t)) /\ \A i \in DOMAIN Tail(t) : Tail(t)[i].kind = "frame"
<1>1. /\ 1 \in DOMAIN t /\ Head(t) = t[1] /\ Tail(t) \in Seq(Messages)
      /\ \A i \in DOMAIN Tail(t) : i + 1 \in DOMAIN t /\ Tail(t)[i] = t[i + 1]
  BY HeadTailProperties
<1>2. Tail(t) # <<>> => 1 \in DOMAIN Tail(t) /\ Head(Tail(t)) = Tail(t)[1]
  BY <1>1, HeadTailProperties
<1> QED BY <1>1, <1>2 DEF Told

\* A frame that arrives goes from the connection into the queue.
LEMMA FrameComes ==
  ASSUME IInv, FInv, onMessage, Head(toClient).kind = "frame"
  PROVE  FInv'
<1> DEFINE m == Head(toClient)
           u == Tail(toClient)
           d == [client EXCEPT !.frameQueue = Append(@, m.no)]
           Ag(c) == Agree(c, u, account, seat, ready, logLen)
<1>1. /\ Core(client) /\ DOMAIN client = Fields /\ toClient # <<>> /\ client.sock = "open"
      /\ Agree(client, toClient, account, seat, ready, logLen)
      /\ toClient \in Seq(Messages) /\ logLen \in Nat
      /\ m \in Messages
  BY HeadTailProperties DEF IInv, Core, Typed, FInv, onMessage, World
<1>2. m.no \in Nat
  BY <1>1 DEF Messages
<1>3. client' = IF client.logined THEN d ELSE client
  BY DEF onMessage, NotifyHandler, onNtfGameFrame
<1>4. /\ d.scene = client.scene /\ d.goTo = client.goTo /\ d.frameNO = client.frameNO
      /\ d.frameQueue = Append(client.frameQueue, m.no) /\ (resume(d) <=> resume(client))
      /\ d.dxxw = client.dxxw /\ d.playing = client.playing
  BY <1>1 DEF Fields, resume
<1>5. Linked(client, d)
  BY <1>1 DEF Fields, Linked
<1>6. m.kind = "frame"
  OBVIOUS
<1> HIDE DEF m, d, u
<1>7. ~client.logining
  BY <1>1, <1>6 DEF Agree, AgreeBut, LoggingIn, Asked, Refused, Granted, m
<1>8. Scenes(client) /\ Quiet(client) /\ (client.pluse => client.sock = "open")
      /\ (seat = "room" => account # "none")
  BY <1>1 DEF Agree, AgreeBut
<1>9. CASE ~client.logined
  <2>1. Ag(client)
    BY <1>1, <1>7, <1>8, <1>9, IdleAgree
  <2> QED BY <1>3, <1>9, <2>1 DEF FInv, onMessage, server, u
<1>10. CASE client.logined
  <2>1. LoggedIn(FALSE, client, toClient, account, seat, ready, logLen)
    BY <1>1, <1>10 DEF Agree, AgreeBut
  <2>2. Append(client.frameQueue, m.no) \in Seq(Nat) /\ Append(client.frameQueue, m.no) # <<>>
        /\ client.frameQueue \in Seq(Nat) /\ client.frameNO \in Nat
    BY <1>1, <1>2, <1>8, AppendProperties DEF Scenes, Core, Typed
  <2>3. Alone(d, seat) /\ (seat # "none" => Chooses(d))
    BY <1>4, <1>5, <2>1, <2>2, LinkedQuiet DEF LoggedIn, Chooses
  <2>4. seat = "game" => Playing(d, u, ready, logLen)
    <3> SUFFICES ASSUME seat = "game" PROVE Playing(d, u, ready, logLen)
      OBVIOUS
    <3>1. Playing(client, toClient, ready, logLen) /\ ~Told(toClient)
      BY <1>6, <2>1 DEF LoggedIn, Told, m
    <3>2. ~Told(u) /\ \A i \in DOMAIN u : u[i].kind = "frame"
      BY <1>1, <3>1, OnlyFrames DEF Playing, u
    <3>3. \A from \in Nat : Line(client.frameQueue, toClient, from, logLen)
                               => Line(d.frameQueue, u, from, logLen)
      BY <1>1, <1>4, <2>2, LineTake DEF m, u
    <3>4. Line(client.frameQueue, toClient, 0, logLen) => Line(d.frameQueue, u, 0, logLen)
      BY <3>3
    <3>5. Line(client.frameQueue, toClient, client.frameNO, logLen)
            => Line(d.frameQueue, u, client.frameNO, logLen)
      BY <2>2, <3>3
    <3> QED BY <1>1, <1>4, <3>1, <3>2, <3>4, <3>5 DEF Playing
  <2>5. LoggedIn(FALSE, d, u, account, seat, ready, logLen)
    BY <2>1, <2>3, <2>4 DEF LoggedIn
  <2>6. Quiet(d) /\ Scenes(d)
    BY <1>4, <1>5, <1>8, <2>2, LinkedQuiet DEF Scenes
  <2>7. Ag(d)
    BY <1>1, <1>5, <1>7, <1>8, <2>5, <2>6 DEF Agree, AgreeBut, Linked
  <2> QED BY <1>3, <1>10, <2>7 DEF FInv, onMessage, server, u
<1> QED BY <1>9, <1>10

\* The client hears that a game begins or ends.
LEMMA NoticeComes ==
  ASSUME IInv, FInv, onMessage, Head(toClient).kind \in {"start", "end"}
  PROVE  FInv'
<1> DEFINE m == Head(toClient)
           u == Tail(toClient)
           g == [client EXCEPT !.goTo = "game"]
           x == [reset(client) EXCEPT !.goTo = "menu"]
           Ag(c) == Agree(c, u, account, seat, ready, logLen)
<1>1. /\ Core(client) /\ DOMAIN client = Fields /\ toClient # <<>> /\ client.sock = "open"
      /\ Agree(client, toClient, account, seat, ready, logLen)
      /\ toClient \in Seq(Messages)
  BY DEF IInv, Core, Typed, FInv, onMessage, World
<1>2. ~client.logining
  BY <1>1 DEF Agree, AgreeBut, LoggingIn, Asked, Refused, Granted
<1>3. Scenes(client) /\ Quiet(client) /\ (client.pluse => client.sock = "open")
      /\ (seat = "room" => account # "none")
      /\ (client.logined => LoggedIn(FALSE, client, toClient, account, seat, ready, logLen))
  BY <1>1 DEF Agree, AgreeBut
<1>4. /\ g.scene = client.scene /\ g.goTo = "game" /\ g.frameNO = client.frameNO
      /\ g.frameQueue = client.frameQueue /\ (resume(g) <=> resume(client))
      /\ g.dxxw = client.dxxw /\ g.playing = client.playing
  BY <1>1 DEF Fields, resume
<1>5. Linked(client, g)
  BY <1>1 DEF Fields, Linked
<1>6. /\ x.scene = client.scene /\ x.goTo = "menu"
      /\ x.frameQueue \in {client.frameQueue, <<>>}
  <2>1. reset(client) = [[client EXCEPT !.playing = FALSE] EXCEPT !.frameNO = 0,
          !.frameQueue = IF [client EXCEPT !.playing = FALSE].dxxw
                         THEN [client EXCEPT !.playing = FALSE].frameQueue ELSE <<>>]
    BY DEF reset, stopFrameHandleTimer
  <2> QED BY <1>1, <2>1 DEF Fields
<1>7. Linked(client, x)
  BY <1>1 DEF reset, stopFrameHandleTimer, Fields, Linked
<1>8. client' = IF m.kind = "start" THEN IF client.scene = "menu" THEN g ELSE client
                ELSE IF client.scene = "game" THEN x ELSE client
  BY DEF onMessage, NotifyHandler, onNtfGameStart, onNtfGameEnd
<1>9. client.logined /\ seat = "game" =>
        /\ m.kind = "start" /\ u = <<>> /\ Begins(client, ready, logLen)
        /\ client.scene = "menu" /\ client.goTo = "none" /\ ~resume(client) /\ ~client.dxxw
  <2> SUFFICES ASSUME client.logined, seat = "game"
               PROVE  Told(toClient) /\ Playing(client, toClient, ready, logLen)
    BY DEF Playing, Told
  <2>1. Playing(client, toClient, ready, logLen)
    BY <1>3 DEF LoggedIn
  <2>2. 1 \in DOMAIN toClient /\ toClient[1] = m
    BY <1>1, HeadTailProperties
  <2>3. Told(toClient)
    BY <2>1, <2>2 DEF Playing
  <2> QED BY <2>1, <2>3
<1> HIDE DEF m, g, x, u
<1>10. Quiet(client') /\ Scenes(client') /\ Linked(client, client')
  <2>1. Linked(client, client)
    BY DEF Linked
  <2>2. Linked(client, client')
    BY <1>5, <1>7, <1>8, <2>1
  <2>3. client'.frameQueue \in Seq(Nat)
    <3>1. <<>> \in Seq(Nat) /\ client.frameQueue \in Seq(Nat)
      BY <1>3 DEF Scenes
    <3> QED BY <1>4, <1>6, <1>8, <3>1
  <2>4. Scenes(client')
    BY <1>3, <1>4, <1>6, <1>8, <2>3 DEF Scenes
  <2> QED BY <1>3, <2>2, <2>4, LinkedQuiet
<1>11. client.logined => LoggedIn(FALSE, client', u, account, seat, ready, logLen)
  <2> SUFFICES ASSUME client.logined PROVE LoggedIn(FALSE, client', u, account, seat, ready, logLen)
    OBVIOUS
  <2>1. LoggedIn(FALSE, client, toClient, account, seat, ready, logLen)
    BY <1>3
  <2>2. Alone(client', seat) /\ \A id : Under(client', id) <=> Under(client, id)
    BY <1>10, <2>1, LinkedQuiet DEF LoggedIn
  <2>3. seat # "none" => Chooses(client')
    BY <1>4, <1>6, <1>8, <2>1, <2>2 DEF LoggedIn, Chooses
  <2>4. seat = "game" => Playing(client', u, ready, logLen)
    BY <1>4, <1>8, <1>9, <2>2 DEF Playing, Begins, Told
  <2> QED BY <2>1, <2>2, <2>3, <2>4 DEF LoggedIn
<1>12. Ag(client')
  BY <1>1, <1>2, <1>3, <1>10, <1>11 DEF Agree, AgreeBut, Linked
<1> QED BY <1>12 DEF FInv, onMessage, server, u

\* What the answer to a login calls back, with what it may change.
LEMMA CallsBack ==
  ASSUME NEW c, Core(c), Plain(c), Scenes(c), NEW cb \in Callbacks, NEW ret, NEW ans \in Answers
  PROVE  LET d == Connected(c, cb, ret, ans) IN
         /\ Plain(d) /\ Scenes(d) /\ d.sock = c.sock /\ d.logined = c.logined
         /\ d.pluse = c.pluse
<1> DEFINE d == Connected(c, cb, ret, ans)
           Ok(e) == /\ Plain(e) /\ Scenes(e) /\ e.sock = c.sock /\ e.logined = c.logined
                    /\ e.pluse = c.pluse
<1>0. ans.record \in Seq(Nat) /\ c.frameQueue \in Seq(Nat) /\ DOMAIN c = Fields
  BY DEF Answers, Scenes, Core, Typed
<1>1. CASE cb = "menu"
  <2> DEFINE e == MenuConnected(c, ret, ans)
  <2>1. /\ e.queue = c.queue /\ e.scene = c.scene /\ e.goTo = c.goTo
        /\ e.frameQueue = c.frameQueue /\ e.frameNO = c.frameNO /\ e.sock = c.sock
    BY <1>0 DEF MenuConnected, Fields
  <2>2. e.playing = c.playing /\ e.pluse = c.pluse /\ e.logined = c.logined
    BY <1>0 DEF MenuConnected, Fields
  <2> HIDE DEF e
  <2>3. Ok(e)
    BY <2>1, <2>2 DEF Plain, Scenes
  <2> QED BY <1>1, <2>3 DEF Connected, e
<1>2. CASE cb = "game"
  <2> DEFINE e == GameConnected(c, ret, ans)
             f == [c EXCEPT !.frameQueue = ans.record, !.dxxw = TRUE]
             g == [c EXCEPT !.goTo = "menu"]
  <2>1. e = f \/ e = g \/ e = c
    BY DEF GameConnected
  <2>2. Ok(f)
    <3>1. /\ f.queue = c.queue /\ f.scene = c.scene /\ f.goTo = c.goTo
          /\ f.frameQueue = ans.record /\ f.frameNO = c.frameNO /\ f.sock = c.sock
      BY <1>0 DEF Fields
    <3>2. f.playing = c.playing /\ f.pluse = c.pluse /\ f.logined = c.logined
      BY <1>0 DEF Fields
    <3> HIDE DEF f
    <3> QED BY <1>0, <3>1, <3>2 DEF Plain, Scenes
  <2>3. Ok(g)
    <3>1. /\ g.queue = c.queue /\ g.scene = c.scene /\ g.goTo = "menu"
          /\ g.frameQueue = c.frameQueue /\ g.frameNO = c.frameNO /\ g.sock = c.sock
      BY <1>0 DEF Fields
    <3>2. g.playing = c.playing /\ g.pluse = c.pluse /\ g.logined = c.logined
      BY <1>0 DEF Fields
    <3> HIDE DEF g
    <3> QED BY <3>1, <3>2 DEF Plain, Scenes
  <2>4. Ok(c)
    OBVIOUS
  <2> HIDE DEF e, f, g
  <2>5. Ok(e)
    BY <2>1, <2>2, <2>3, <2>4
  <2> QED BY <1>2, <2>5 DEF Connected, e
<1>3. CASE cb \notin {"menu", "game"}
  <2> DEFINE r == Request(cb)
             e == sendRequest(c, r)
  <2>1. r \in Requests /\ ~Flagged(r)
    BY <1>3 DEF Request, Requests, Callbacks, Flagged
  <2>2. d = IF ret \in {0, 3} THEN e ELSE c
    BY <1>3 DEF Connected
  <2> HIDE DEF r
  <2>3. Plain(e) /\ Seen(c, e)
    BY <2>1, SendPlain, SendCases
  <2> HIDE DEF e
  <2>4. Ok(e)
    BY <2>3 DEF Seen, Scenes
  <2> HIDE DEF d
  <2>5. Ok(d)
    BY <2>2, <2>4
  <2> QED BY <2>5 DEF d
<1> QED BY <1>1, <1>2, <1>3

\* A login that is granted brings the frames the client lacks.
LEMMA GrantedIn ==
  ASSUME NEW c, NEW e, NEW t \in Seq(Messages), NEW a, NEW s, NEW rd, NEW n,
         Asks(c, c.handler), Granted(c, t, a, s, n), c.handler.cb \in Callbacks,
         e.scene = c.scene, e.frameNO = c.frameNO, e.frameQueue = Head(t).ans.record,
         s # "none" => e.goTo = c.goTo,
         resume(e) => resume(c) \/ c.handler.cb = "menu",
         c.handler.cb = "menu" /\ s # "none" => resume(e),
         e.dxxw => c.dxxw \/ c.handler.cb = "game",
         c.handler.cb = "Leave" => Under(e, "Leave"),
         ~Under(e, "Login"), ~e.wait, e.handler = NoRequest, Scenes(c)
  PROVE  LoggedIn(FALSE, e, Tail(t), a, s, rd, n)
<1>1. Alone(e, s)
  BY DEF Alone, NoRequest
<1>2. s # "none" => Chooses(e)
  <2> SUFFICES ASSUME s # "none", e.scene = "menu", e.goTo = "none"
               PROVE  e.frameQueue # <<>> /\ (e.dxxw => resume(e) \/ Under(e, "Leave"))
    BY DEF Chooses
  <2>1. e.frameQueue # <<>>
    BY DEF Granted
  <2>2. e.dxxw => resume(e) \/ Under(e, "Leave")
    BY DEF Asks, Awaits, Callbacks
  <2> QED BY <2>1, <2>2
<1>3. s = "game" => Playing(e, Tail(t), rd, n)
  <2> SUFFICES ASSUME s = "game" PROVE Playing(e, Tail(t), rd, n)
    OBVIOUS
  <2>1. Line(e.frameQueue, Tail(t), c.handler.sync, n) /\ t # <<>>
    BY DEF Granted
  <2>2. \A i \in DOMAIN Tail(t) : Tail(t)[i].kind = "frame"
    BY <2>1 DEF Line
  <2>3. ~Told(Tail(t))
    <3>1. Tail(t) # <<>> => 1 \in DOMAIN Tail(t) /\ Head(Tail(t)) = Tail(t)[1]
      BY <2>1, HeadTailProperties
    <3> QED BY <2>2, <3>1 DEF Told
  <2>4. e.scene = "game" => c.handler.sync = e.frameNO
    BY DEF Asks
  <2>5. e.scene = "menu" => e.goTo = "none" /\ (resume(e) => c.handler.sync = 0)
    BY DEF Asks, Awaits
  <2> QED BY <2>1, <2>2, <2>3, <2>4, <2>5 DEF Playing
<1> QED BY <1>1, <1>2, <1>3 DEF LoggedIn, Granted

\* The request that was waited for is over, and the queue goes on.
LEMMA AnswerEnds ==
  ASSUME NEW d, Core(d), d.sock = "open", ~d.logining, Plain(d), Scenes(d),
         NEW t, NEW a, NEW s, NEW rd, NEW n, s = "room" => a # "none",
         d.logined => LoggedIn(FALSE, [d EXCEPT !.wait = FALSE, !.handler = NoRequest], t, a, s, rd, n)
  PROVE  Agree(sendRequestInQueue([d EXCEPT !.wait = FALSE, !.handler = NoRequest]), t, a, s, rd, n)
<1> DEFINE e == [d EXCEPT !.wait = FALSE, !.handler = NoRequest]
<1>1. /\ e.scene = d.scene /\ e.goTo = d.goTo /\ e.frameNO = d.frameNO
      /\ e.frameQueue = d.frameQueue /\ e.handler = NoRequest /\ e.queue = d.queue
      /\ e.sock = "open"
  BY DEF Core, Typed, Fields
<1>2. /\ e.playing = d.playing /\ ~e.wait /\ ~e.logining /\ e.logined = d.logined
  BY DEF Core, Typed, Fields
<1>3. Core(e)
  BY DEF Core, Typed, Flags, NoRequest, Requests, Fields
<1> HIDE DEF e
<1>4. Unflagged(e) /\ Scenes(e) /\ isConnected(e)
  BY <1>1, <1>2 DEF Unflagged, Plain, Flagged, NoRequest, Scenes, isConnected
<1>5. e.logined => LoggedIn(FALSE, e, t, a, s, rd, n)
  BY <1>2 DEF e
<1>6. Agree(sendRequestInQueue(e), t, a, s, rd, n)
  BY <1>2, <1>3, <1>4, <1>5, QueueAgree
<1> QED BY <1>6 DEF e

\* The answer to a login ends it, and lets the client play if it was granted.
LEMMA LoginAnswered ==
  ASSUME IInv, FInv, onMessage, NEW ans \in Answers,
         Head(toClient).kind = "answer", Head(toClient).ans = ans,
         client.handler.id = "Login",
         NEW c, c = [client EXCEPT !.timer = FALSE]
  PROVE  LET d == OnLoginAnswer(c, c.handler, ans)
         IN  /\ Plain(d) /\ Scenes(d)
             /\ d.logined /\ ~Throws(ans) =>
                   LoggedIn(FALSE, [d EXCEPT !.wait = FALSE, !.handler = NoRequest],
                            Tail(toClient), account, seat, ready, logLen)
<1> DEFINE u == Tail(toClient)
           h == client.handler
           d0 == IF ans.ok THEN onLoginInSuccess(c, ans) ELSE c
           d1 == IF h.flags THEN [d0 EXCEPT !.logining = FALSE, !.logined = ans.ok] ELSE d0
           ret == IF ans.ok THEN 0 ELSE 2
           d == Connected(d1, h.cb, ret, ans)
           e == [d EXCEPT !.wait = FALSE, !.handler = NoRequest]
<1>1. /\ Core(client) /\ DOMAIN client = Fields /\ h \in Requests /\ toClient \in Seq(Messages)
      /\ Agree(client, toClient, account, seat, ready, logLen) /\ ans.record \in Seq(Nat)
      /\ h.cb \in Callbacks /\ h.flags \in BOOLEAN
  BY DEF IInv, Core, Typed, FInv, World, Requests, Answers
<1>2. /\ DOMAIN c = Fields /\ c.handler = h
      /\ c.scene = client.scene /\ c.goTo = client.goTo /\ c.frameNO = client.frameNO
      /\ c.frameQueue = client.frameQueue /\ (resume(c) <=> resume(client))
      /\ c.queue = client.queue /\ c.out = client.out /\ c.sock = client.sock
      /\ c.conHandler = client.conHandler
  BY <1>1 DEF Fields, resume
<1>3. /\ c.dxxw = client.dxxw /\ c.playing = client.playing /\ c.wait = client.wait
      /\ c.logining = client.logining /\ c.logined = client.logined
  BY <1>1 DEF Fields
<1>4. ~client.logined
  BY <1>1 DEF Agree, AgreeBut, LoggedIn, Alone
<1>5. h.flags <=> client.logining
  BY <1>1 DEF Agree, AgreeBut, Quiet, Unflagged, Flagged, Core, Flags
<1>6. OnLoginAnswer(c, c.handler, ans) = d
  BY <1>2 DEF OnLoginAnswer
<1> HIDE DEF h
<1>7. /\ DOMAIN d0 = Fields /\ d0.handler = h
      /\ d0.scene = client.scene /\ d0.goTo = client.goTo /\ d0.frameNO = client.frameNO
      /\ d0.frameQueue = (IF ans.ok THEN ans.record ELSE client.frameQueue)
      /\ (resume(d0) <=> resume(client))
      /\ d0.queue = client.queue /\ d0.out = client.out /\ d0.sock = client.sock
      /\ d0.conHandler = client.conHandler
  BY <1>1, <1>2 DEF onLoginInSuccess, Fields, resume
<1>8. /\ d0.dxxw = client.dxxw /\ d0.playing = client.playing /\ d0.wait = client.wait
      /\ d0.logining = client.logining /\ d0.logined = client.logined
  BY <1>1, <1>2, <1>3 DEF onLoginInSuccess, Fields
<1> HIDE DEF d0
<1>9. /\ DOMAIN d1 = Fields /\ d1.handler = h
      /\ d1.scene = client.scene /\ d1.goTo = client.goTo /\ d1.frameNO = client.frameNO
      /\ d1.frameQueue = (IF ans.ok THEN ans.record ELSE client.frameQueue)
      /\ (resume(d1) <=> resume(client))
      /\ d1.queue = client.queue /\ d1.out = client.out /\ d1.sock = client.sock
      /\ d1.conHandler = client.conHandler
  BY <1>7 DEF Fields, resume
<1>10. /\ d1.dxxw = client.dxxw /\ d1.playing = client.playing /\ d1.wait = client.wait
       /\ ~d1.logining
  BY <1>5, <1>7, <1>8 DEF Fields
<1>11. d1.logined <=> h.flags /\ ans.ok
  <2>1. CASE h.flags
    <3>1. d1 = [d0 EXCEPT !.logining = FALSE, !.logined = ans.ok]
      BY <2>1
    <3>2. (d1.logined) = (ans.ok)
      BY <1>7, <3>1 DEF Fields
    <3> HIDE DEF d1
    <3> QED BY <2>1, <3>2
  <2>2. CASE ~h.flags
    <3>1. d1 = d0
      BY <2>2
    <3> QED BY <1>4, <1>8, <2>2, <3>1
  <2> QED BY <2>1, <2>2
<1> HIDE DEF d1, ret
<1>12. client.sock = "open" /\ Quiet(client) /\ Scenes(client)
  BY <1>1 DEF Agree, AgreeBut, IInv, World, onMessage
<1>13. Core(d1)
  BY <1>1, <1>9, <1>10, <1>11, <1>12 DEF Core, Typed, Flags
<1>14. Plain(d1) /\ Scenes(d1)
  BY <1>1, <1>9, <1>10, <1>12 DEF Quiet, Unflagged, Plain, Scenes
<1>15. Plain(d) /\ Scenes(d) /\ (d.logined = d1.logined)
  BY <1>1, <1>13, <1>14, CallsBack
<1>16. ASSUME d.logined, ~Throws(ans)
       PROVE  LoggedIn(FALSE, e, u, account, seat, ready, logLen)
  <2>1. client.logining /\ ans.ok
    BY <1>5, <1>11, <1>15, <1>16
  <2>2. /\ LoggingIn(client, toClient, account, seat, logLen)
        /\ Granted(client, toClient, account, seat, logLen) /\ Asks(client, client.handler)
    BY <1>1, <2>1 DEF Agree, AgreeBut, LoggingIn, Asked, Refused, onMessage
  <2>3. /\ client.out = <<>> /\ ~Has(client.queue, "Login")
        /\ (seat # "none" => ans.inGame) /\ d1.wait
    BY <1>1, <1>10, <2>1, <2>2 DEF LoggingIn, Granted, Core, Flags
  <2>4. ret = 0
    BY <2>1 DEF ret
  <2>5. h.cb = "game" /\ ans.inGame => ans.record # <<>>
    BY <1>16, <2>1 DEF Throws, h
  <2> DEFINE Ok(y) ==
        /\ DOMAIN y = Fields
        /\ y.scene = client.scene /\ y.frameNO = client.frameNO /\ y.frameQueue = ans.record
        /\ (seat # "none" => y.goTo = client.goTo)
        /\ (resume(y) => resume(client) \/ h.cb = "menu")
        /\ (h.cb = "menu" /\ seat # "none" => resume(y))
        /\ (y.dxxw => client.dxxw \/ h.cb = "game")
        /\ (h.cb = "Leave" => Under(y, "Leave"))
        /\ ~Under(y, "Login")
  <2>6. ~Under(d1, "Login")
    BY <1>9, <2>3 DEF Under, Has
  <2>7. Ok(d)
    <3>1. CASE h.cb = "menu"
      <4>1. d = MenuConnected(d1, 0, ans)
        BY <2>4, <3>1 DEF Connected
      <4>2. /\ DOMAIN d = Fields /\ d.scene = d1.scene /\ d.frameNO = d1.frameNO /\ d.goTo = d1.goTo
            /\ d.frameQueue = d1.frameQueue /\ d.queue = d1.queue /\ d.out = d1.out
            /\ (resume(d) <=> resume(d1) \/ ans.inGame)
        BY <1>9, <4>1 DEF MenuConnected, Fields, resume
      <4>3. d.dxxw = d1.dxxw
        BY <1>9, <4>1 DEF MenuConnected, Fields
      <4> HIDE DEF d
      <4> QED BY <1>9, <1>10, <2>1, <2>3, <2>6, <3>1, <4>2, <4>3 DEF Under
    <3>2. CASE h.cb = "game"
      <4>1. d = IF ans.inGame THEN [d1 EXCEPT !.frameQueue = ans.record, !.dxxw = TRUE]
                ELSE [d1 EXCEPT !.goTo = "menu"]
        BY <2>4, <3>2 DEF Connected, GameConnected
      <4>2. /\ DOMAIN d = Fields /\ d.scene = d1.scene /\ d.frameNO = d1.frameNO
            /\ (ans.inGame => d.goTo = d1.goTo) /\ d.frameQueue = ans.record
            /\ d.queue = d1.queue /\ d.out = d1.out /\ (resume(d) <=> resume(d1))
        BY <1>9, <2>1, <4>1 DEF Fields, resume
      <4> HIDE DEF d
      <4> QED BY <1>9, <2>3, <2>6, <3>2, <4>2 DEF Under
    <3>3. CASE h.cb \in {"Leave", "Frame"}
      <4> DEFINE r == Request(h.cb)
      <4>1. d = sendRequest(d1, r)
        BY <2>4, <3>3 DEF Connected
      <4>2. r \in Requests /\ r.id = h.cb
        BY <3>3 DEF Request, Requests
      <4> HIDE DEF r, d
      <4>3. Seen(d1, d) /\ \A id : Under(d, id) <=> Under(d1, id) \/ r.id = id
        BY <1>13, <4>1, <4>2, SendCases, SendUnder
      <4>4. DOMAIN d = Fields
        BY <1>13, <4>1, <4>2, SendSound DEF Sound, Core, Typed
      <4> QED BY <1>9, <1>10, <2>1, <2>6, <3>3, <4>2, <4>3, <4>4 DEF Seen
    <3> QED BY <1>1, <3>1, <3>2, <3>3 DEF Callbacks
  <2> HIDE DEF d
  <2>8. /\ e.scene = d.scene /\ e.frameNO = d.frameNO /\ e.frameQueue = d.frameQueue
        /\ e.goTo = d.goTo /\ (resume(e) <=> resume(d)) /\ e.queue = d.queue /\ e.out = d.out
        /\ e.handler = NoRequest
    BY <2>7 DEF Fields, resume
  <2>9. e.dxxw = d.dxxw /\ ~e.wait
    BY <2>7 DEF Fields
  <2> HIDE DEF e
  <2>10. /\ e.scene = client.scene /\ e.frameNO = client.frameNO
         /\ e.frameQueue = Head(toClient).ans.record
         /\ (seat # "none" => e.goTo = client.goTo)
         /\ (resume(e) => resume(client) \/ client.handler.cb = "menu")
         /\ (client.handler.cb = "menu" /\ seat # "none" => resume(e))
         /\ (e.dxxw => client.dxxw \/ client.handler.cb = "game")
         /\ (client.handler.cb = "Leave" => Under(e, "Leave"))
         /\ ~Under(e, "Login")
    BY <2>7, <2>8, <2>9 DEF Under, h
  <2>11. client.handler.cb \in Callbacks
    BY <1>1 DEF h
  <2> QED BY <1>1, <1>12, <2>2, <2>8, <2>9, <2>10, <2>11, GrantedIn
<1> HIDE DEF d, e
<1> QED BY <1>6, <1>15, <1>16 DEF e, u

\* The answer to the request to leave, or to one that is not waited for.
LEMMA LeaveAnswered ==
  ASSUME IInv, FInv, onMessage, NEW ans \in Answers,
         Head(toClient).kind = "answer", client.handler.id # "Login",
         NEW c, c = [client EXCEPT !.timer = FALSE]
  PROVE  LET d == OnLeaveAnswer(c, ans)
         IN  /\ Plain(d) /\ Scenes(d)
             /\ d.logined =>
                   LoggedIn(FALSE, [d EXCEPT !.wait = FALSE, !.handler = NoRequest],
                            Tail(toClient), account, seat, ready, logLen)
<1> DEFINE d == OnLeaveAnswer(c, ans)
           e == [d EXCEPT !.wait = FALSE, !.handler = NoRequest]
<1>1. /\ Core(client) /\ DOMAIN client = Fields /\ toClient \in Seq(Messages) /\ toClient # <<>>
      /\ Agree(client, toClient, account, seat, ready, logLen)
  BY DEF IInv, Core, Typed, FInv, World, onMessage
<1>2. /\ DOMAIN c = Fields
      /\ c.scene = client.scene /\ c.goTo = client.goTo /\ c.frameNO = client.frameNO
      /\ c.frameQueue = client.frameQueue /\ (resume(c) <=> resume(client))
      /\ c.queue = client.queue /\ c.out = client.out
  BY <1>1 DEF Fields, resume
<1>3. /\ c.dxxw = client.dxxw /\ c.playing = client.playing /\ c.logined = client.logined
  BY <1>1 DEF Fields
<1>4. /\ DOMAIN d = Fields /\ d.scene = client.scene /\ d.frameNO = client.frameNO
      /\ (d.goTo = client.goTo \/ d.goTo = "menu")
      /\ (client.scene = "menu" => d.goTo = client.goTo)
      /\ d.frameQueue = client.frameQueue /\ (resume(d) <=> resume(client))
      /\ d.queue = client.queue /\ d.out = client.out
  BY <1>1, <1>2 DEF OnLeaveAnswer, Fields, resume
<1>5. /\ d.dxxw = client.dxxw /\ d.playing = client.playing /\ d.logined = client.logined
  BY <1>1, <1>2, <1>3 DEF OnLeaveAnswer, Fields
<1> HIDE DEF d
<1>6. Quiet(client) /\ Scenes(client)
  BY <1>1 DEF Agree, AgreeBut
<1>7. Plain(d) /\ Scenes(d)
  BY <1>4, <1>5, <1>6 DEF Quiet, Unflagged, Plain, Scenes
<1>8. ASSUME d.logined
      PROVE  LoggedIn(FALSE, e, Tail(toClient), account, seat, ready, logLen)
  <2>1. LoggedIn(FALSE, client, toClient, account, seat, ready, logLen)
    BY <1>1, <1>5, <1>8 DEF Agree, AgreeBut
  <2>2. seat # "game"
    <3>1. 1 \in DOMAIN toClient /\ Head(toClient) = toClient[1]
      BY <1>1, HeadTailProperties
    <3> QED BY <2>1, <3>1 DEF LoggedIn, Playing, Told
  <2>3. /\ e.scene = d.scene /\ e.goTo = d.goTo /\ e.frameQueue = d.frameQueue
        /\ (resume(e) <=> resume(d)) /\ e.queue = d.queue /\ e.out = d.out
        /\ e.handler = NoRequest
    BY <1>4 DEF Fields, resume
  <2>4. e.dxxw = d.dxxw /\ ~e.wait
    BY <1>4 DEF Fields
  <2> HIDE DEF e
  <2>5. Alone(e, seat)
    BY <1>4, <2>1, <2>3, <2>4 DEF LoggedIn, Alone, Under, NoRequest
  <2>6. seat # "none" => Chooses(e)
    BY <1>4, <1>5, <2>1, <2>3, <2>4 DEF LoggedIn, Chooses, Under
  <2> QED BY <2>1, <2>2, <2>5, <2>6 DEF LoggedIn
<1> QED BY <1>7, <1>8 DEF d

\* An answer that arrives.
LEMMA AnswerComes ==
  ASSUME IInv, FInv, Patient, onMessage, Head(toClient).kind = "answer"
  PROVE  FInv'
<1> DEFINE ans == Head(toClient).ans
           c == [client EXCEPT !.timer = FALSE]
           d == IF client.handler.id = "Login" THEN OnLoginAnswer(c, c.handler, ans)
                ELSE OnLeaveAnswer(c, ans)
           e == [d EXCEPT !.wait = FALSE, !.handler = NoRequest]
           u == Tail(toClient)
<1>1. /\ Core(client) /\ client.sock = "open" /\ DOMAIN client = Fields
      /\ (seat = "room" => account # "none")
  BY DEF IInv, World, onMessage, Core, Typed, FInv, Agree, AgreeBut
<1>2. Head(toClient) \in Messages
  BY HeadTailProperties DEF IInv, World, onMessage
<1>3. ans \in Answers
  BY <1>2 DEF Messages
<1>4. ~Throws(ans)
  BY <1>3 DEF Throws, Answers, Patient
<1>5. Core(c) /\ c.sock = "open" /\ c.handler = client.handler
  BY <1>1 DEF Core, Typed, Flags, Fields
<1>6. client' = sendRequestInQueue(e)
  <2>1. client' = onResponse(ans)
    BY DEF onMessage
  <2>2. onResponse(ans) = sendRequestInQueue(e)
    BY <1>4, <1>5 DEF onResponse
  <2> QED BY <2>1, <2>2
<1>7. /\ Plain(d) /\ Scenes(d)
      /\ (d.logined => LoggedIn(FALSE, e, u, account, seat, ready, logLen))
  <2>1. CASE client.handler.id = "Login"
    BY <1>3, <1>4, <2>1, LoginAnswered
  <2>2. CASE client.handler.id # "Login"
    BY <1>3, <2>2, LeaveAnswered
  <2> QED BY <2>1, <2>2
<1>8. Core(d) /\ ~d.logining /\ d.sock = "open"
  BY <1>3, <1>5, AnswerCore
<1> HIDE DEF ans, c, d, u
<1>9. Agree(sendRequestInQueue(e), u, account, seat, ready, logLen)
  BY <1>1, <1>7, <1>8, AnswerEnds
<1> QED BY <1>6, <1>9 DEF FInv, onMessage, server, u

-----------------------------------------------------------------------------
(* The server *)

Seats == {"none", "room", "game"}

\* A message is the only one when none was under way.
LEMMA AppendEmpty ==
  ASSUME NEW t, NEW m, t = <<>>
  PROVE  Append(t, m) = <<m>>
OBVIOUS

\* The server handles a login: it grants it to a user without a session, with
\* the frames the client asked for.
LEMMA ServeLoginAgree ==
  ASSUME IInv, FInv, seat \in Seats, Patient, Serve, Head(client.out).id = "Login"
  PROVE  FInv'
<1> DEFINE r == Head(client.out)
           o == Tail(client.out)
           f == IF seat = "game" THEN Frames(r.sync, logLen - 1) ELSE <<>>
           yes == Answer(TRUE, seat = "game", f)
           no == Answer(FALSE, FALSE, <<>>)
<1>1. /\ Core(client) /\ DOMAIN client = Fields /\ client.out \in Seq(Requests) /\ client.out # <<>>
      /\ toClient \in Seq(Messages) /\ logLen \in Nat /\ client.sock = "open"
      /\ Agree(client, toClient, account, seat, ready, logLen)
  BY DEF IInv, Core, Typed, Flags, FInv, World, Serve
<1>2. ServeLogin(r) /\ client' = [client EXCEPT !.out = o] /\ logLen' = logLen
  BY DEF Serve
<1>3. r \in Requests /\ o \in Seq(Requests) /\ r.sync \in Nat /\ Has(client.out, "Login")
  <2>1. r \in Requests /\ o \in Seq(Requests)
    BY <1>1, HeadTailProperties
  <2>2. r.sync \in Nat
    BY <2>1 DEF Requests
  <2>3. Has(client.out, "Login")
    BY <1>1, HasHeadTail
  <2> QED BY <2>1, <2>2, <2>3
<1>4. ~client.logined
  BY <1>1, <1>3 DEF Agree, AgreeBut, LoggedIn, Alone, Under
<1>5. /\ client'.scene = client.scene /\ client'.goTo = client.goTo
      /\ client'.frameNO = client.frameNO /\ client'.frameQueue = client.frameQueue
      /\ (resume(client') <=> resume(client)) /\ client'.out = o
      /\ client'.queue = client.queue /\ client'.handler = client.handler
      /\ client'.sock = client.sock
  BY <1>1, <1>2 DEF Fields, resume
<1>6. /\ client'.dxxw = client.dxxw /\ client'.playing = client.playing
      /\ client'.wait = client.wait /\ client'.pluse = client.pluse
      /\ client'.logining = client.logining /\ client'.logined = client.logined
  BY <1>1, <1>2 DEF Fields
<1>7. Quiet(client') /\ Scenes(client')
  BY <1>1, <1>5, <1>6 DEF Agree, AgreeBut, Quiet, Unflagged, Plain, Scenes
<1>8. seat' = seat /\ ready' = ready /\ (seat' = "room" => account' # "none")
  BY <1>1, <1>2 DEF ServeLogin, Agree, AgreeBut
<1>9. client.logining => LoggingIn(client', toClient', account', seat', logLen')
  <2> SUFFICES ASSUME client.logining PROVE LoggingIn(client', toClient', account', seat', logLen')
    OBVIOUS
  <2>1. /\ Asks(client, client.handler) /\ ~Has(client.queue, "Login")
        /\ Asked(client, toClient, account)
    BY <1>1 DEF Agree, AgreeBut, LoggingIn, Refused, Granted
  <2>2. r = client.handler /\ o = <<>> /\ toClient = <<>>
    BY <2>1 DEF Asked
  <2>3. Asks(client', client'.handler)
    BY <1>5, <1>6, <2>1 DEF Asks, Awaits
  <2>4. CASE account = "none"
    <3>0. /\ account' = "this" /\ toClient' = Append(toClient, yes)
          /\ (seat = "game" => logLen >= r.sync + MissedAtLeast)
      BY <1>2, <2>4 DEF ServeLogin
    <3>1. /\ account' = "this" /\ toClient' = <<yes>>
          /\ (seat = "game" => logLen >= r.sync + MissedAtLeast)
      <4> HIDE DEF yes
      <4> QED BY <2>2, <3>0, AppendEmpty
    <3>2. yes.kind = "answer" /\ yes.ans.ok = TRUE /\ (yes.ans.inGame) = (seat = "game") /\ yes.ans.record = f
      BY DEF Answer
    <3>3. Head(toClient') = yes /\ Tail(toClient') = <<>> /\ toClient' # <<>>
      BY <3>1
    <3>4. seat = "game" => r.sync <= logLen /\ logLen > r.sync
      BY <1>1, <1>3, <3>1, ConnectionAssumption DEF Patient
    <3>5. seat = "game" => f # <<>> /\ Line(f, <<>>, r.sync, logLen)
      BY <1>1, <1>3, <3>4, FramesSeq, LineRecord
    <3>6. seat = "none" \/ seat = "game"
      BY <1>1, <2>4 DEF Agree, AgreeBut, Seats
    <3> HIDE DEF yes, f, r
    <3>7. Granted(client', toClient', account', seat', logLen')
      BY <1>2, <1>5, <1>8, <2>2, <3>1, <3>2, <3>3, <3>5, <3>6 DEF Granted
    <3> QED BY <1>5, <2>1, <2>3, <3>7 DEF LoggingIn
  <2>5. CASE account # "none"
    <3>0. account' = account /\ toClient' = Append(toClient, no)
      BY <1>2, <2>5 DEF ServeLogin
    <3>1. account' = account /\ toClient' = <<no>>
      <4> HIDE DEF no
      <4> QED BY <2>2, <3>0, AppendEmpty
    <3>2. no.kind = "answer" /\ no.ans.ok = FALSE
      BY DEF Answer
    <3>3. Head(toClient') = no /\ Tail(toClient') = <<>> /\ toClient' # <<>>
      BY <3>1
    <3> HIDE DEF no
    <3>4. Refused(client', toClient', account')
      BY <1>5, <2>1, <2>2, <3>1, <3>2, <3>3 DEF Refused, Asked
    <3> QED BY <1>5, <2>1, <2>3, <3>4 DEF LoggingIn
  <2> QED BY <2>4, <2>5
<1>10. Agree(client', toClient', account', seat', ready', logLen')
  BY <1>1, <1>4, <1>5, <1>6, <1>7, <1>8, <1>9 DEF Agree, AgreeBut
<1> QED BY <1>10 DEF FInv

\* The server handles another request.
LEMMA ServeOtherAgree ==
  ASSUME IInv, FInv, Serve, Head(client.out).id # "Login"
  PROVE  FInv'
<1> DEFINE r == Head(client.out)
           o == Tail(client.out)
<1>1. /\ Core(client) /\ DOMAIN client = Fields /\ client.out \in Seq(Requests) /\ client.out # <<>>
      /\ client.sock = "open"
      /\ Agree(client, toClient, account, seat, ready, logLen)
  BY DEF IInv, Core, Typed, Flags, FInv, Serve
<1>2. client' = [client EXCEPT !.out = o] /\ logLen' = logLen
  BY DEF Serve
<1>3. \/ r.id = "Leave" /\ ServeLeave
      \/ r.id = "Frame" /\ ServeFrame
      \/ r.id # "Leave" /\ UNCHANGED <<toClient, account, seat, ready>>
  BY DEF Serve
<1>4. \A id : Has(client.out, id) <=> r.id = id \/ Has(o, id)
  BY <1>1, HasHeadTail
<1>5. /\ client'.scene = client.scene /\ client'.goTo = client.goTo
      /\ client'.frameNO = client.frameNO /\ client'.frameQueue = client.frameQueue
      /\ (resume(client') <=> resume(client)) /\ client'.out = o
      /\ client'.queue = client.queue /\ client'.handler = client.handler
      /\ client'.sock = client.sock
  BY <1>1, <1>2 DEF Fields, resume
<1>6. /\ client'.dxxw = client.dxxw /\ client'.playing = client.playing
      /\ client'.wait = client.wait /\ client'.pluse = client.pluse
      /\ client'.logining = client.logining /\ client'.logined = client.logined
  BY <1>1, <1>2 DEF Fields
<1>7. Quiet(client') /\ Scenes(client')
  BY <1>1, <1>5, <1>6 DEF Agree, AgreeBut, Quiet, Unflagged, Plain, Scenes
<1>8. ~client.logining
  <2> SUFFICES ASSUME client.logining PROVE FALSE
    OBVIOUS
  <2>1. client.out = <<client.handler>> /\ client.handler.id = "Login"
    BY <1>1 DEF Agree, AgreeBut, LoggingIn, Asked, Refused, Granted, Core, Flags
  <2> QED BY <2>1
<1>9. /\ account' = account /\ (r.id = "Leave" /\ account = "this" => seat' = "none")
      /\ (r.id # "Leave" => seat' = seat /\ toClient' = toClient)
      /\ (r.id # "Frame" => ready' = ready)
      /\ (seat' = seat \/ seat' = "none")
  BY <1>3 DEF ServeLeave, ServeFrame
<1> HIDE DEF r, o
<1>10. client.logined => LoggedIn(FALSE, client', toClient', account', seat', ready', logLen')
  <2> SUFFICES ASSUME client.logined
               PROVE  LoggedIn(FALSE, client', toClient', account', seat', ready', logLen')
    OBVIOUS
  <2>1. LoggedIn(FALSE, client, toClient, account, seat, ready, logLen)
    BY <1>1 DEF Agree, AgreeBut
  <2>2. seat' # "none" => r.id # "Leave" /\ seat' = seat /\ toClient' = toClient
    BY <1>9, <2>1 DEF LoggedIn
  <2>3. \A id : Under(client, id) <=> r.id = id \/ Under(client', id)
    BY <1>4, <1>5 DEF Under
  <2>4. Alone(client', seat')
    BY <1>4, <1>5, <1>6, <2>1, <2>2, <2>3 DEF LoggedIn, Alone
  <2>5. seat' # "none" => Chooses(client')
    BY <1>5, <1>6, <2>1, <2>2, <2>3 DEF LoggedIn, Chooses
  <2>6. seat' = "game" => Playing(client', toClient', ready', logLen')
    <3>1. Begins(client, ready, logLen) => Begins(client', ready', logLen')
      BY <1>2, <1>9, <2>3 DEF Begins
    <3>2. seat' = "game" => Playing(client, toClient, ready, logLen) /\ toClient' = toClient
      BY <2>1, <2>2 DEF LoggedIn
    <3> QED BY <1>2, <1>5, <1>6, <3>1, <3>2 DEF Playing
  <2> QED BY <1>9, <2>1, <2>4, <2>5, <2>6 DEF LoggedIn
<1>11. Agree(client', toClient', account', seat', ready', logLen')
  BY <1>1, <1>5, <1>6, <1>7, <1>8, <1>9, <1>10 DEF Agree, AgreeBut
<1> QED BY <1>11 DEF FInv

\* What the server says to the client without being asked.
LEMMA TellAgree ==
  ASSUME IInv, FInv, client' = client,
         account' # "none" \/ seat' # "room",
         client.logining => LoggingIn(client, toClient', account', seat', logLen'),
         client.logined => LoggedIn(FALSE, client, toClient', account', seat', ready', logLen')
  PROVE  FInv'
<1>1. Agree(client, toClient, account, seat, ready, logLen)
  BY DEF FInv
<1>2. Agree(client, toClient', account', seat', ready', logLen')
  BY <1>1 DEF Agree, AgreeBut
<1> QED BY <1>2 DEF FInv

\* A message is appended to those under way.
LEMMA Appended ==
  ASSUME NEW t \in Seq(Messages), NEW m \in Messages
  PROVE  /\ Append(t, m) # <<>>
         /\ t # <<>> => Head(Append(t, m)) = Head(t) /\ Tail(Append(t, m)) = Append(Tail(t), m)
         /\ t = <<>> => Head(Append(t, m)) = m /\ Tail(Append(t, m)) = <<>>
<1>1. Append(t, m) \in Seq(Messages) /\ Len(Append(t, m)) = Len(t) + 1
  BY AppendProperties
<1>2. Append(t, m) # <<>>
  <2>1. Len(Append(t, m)) # 0
    BY <1>1, LenProperties
  <2> QED BY <2>1, EmptySeq
<1>3. t = <<>> => Head(Append(t, m)) = m /\ Tail(Append(t, m)) = <<>>
  OBVIOUS
<1>4. t # <<>> => Head(Append(t, m)) = Head(t) /\ Tail(Append(t, m)) = Append(Tail(t), m)
  OBVIOUS
<1> QED BY <1>2, <1>3, <1>4

\* Each message is the one appended or was under way before.
LEMMA AppendedAt ==
  ASSUME NEW t \in Seq(Messages), NEW m \in Messages
  PROVE  \A i \in DOMAIN Append(t, m) :
             Append(t, m)[i] = m \/ (i \in DOMAIN t /\ Append(t, m)[i] = t[i])
<1> DEFINE u == Append(t, m)
<1>1. /\ u \in Seq(Messages) /\ Len(u) = Len(t) + 1
      /\ \A i \in 1 .. Len(t) : u[i] = t[i]
      /\ u[Len(t) + 1] = m
  BY AppendProperties
<1>2. DOMAIN u = 1 .. Len(u) /\ DOMAIN t = 1 .. Len(t) /\ Len(t) \in Nat
  BY <1>1, LenProperties
<1> HIDE DEF u
<1>3. ASSUME NEW i \in DOMAIN u PROVE u[i] = m \/ (i \in DOMAIN t /\ u[i] = t[i])
  <2> DEFINE n == Len(t)
  <2>1. n \in Nat /\ i \in 1 .. (n + 1) /\ DOMAIN t = 1 .. n
    BY <1>1, <1>2
  <2> HIDE DEF n
  <2>2. i \in 1 .. n \/ i = n + 1
    BY <2>1
  <2>3. CASE i \in 1 .. n
    BY <1>1, <2>1, <2>3 DEF n
  <2>4. CASE i = n + 1
    <3>1. u[n + 1] = m
      BY <1>1 DEF n
    <3> QED BY <2>4, <3>1
  <2> QED BY <2>2, <2>3, <2>4
<1> QED BY <1>3 DEF u

\* The user's place changes on the server's side.
LEMMA RoomAgree ==
  ASSUME IInv, FInv, seat \in Seats, Patient, GameStart \/ GameFrame \/ GameEnd \/ OldSessionClosed
  PROVE  FInv'
<1>1. /\ Core(client) /\ toClient \in Seq(Messages) /\ logLen \in Nat
      /\ Quiet(client) /\ Scenes(client)
      /\ (seat = "room" => account # "none")
      /\ (client.logining => LoggingIn(client, toClient, account, seat, logLen))
      /\ (client.logined => LoggedIn(FALSE, client, toClient, account, seat, ready, logLen))
  BY DEF IInv, World, FInv, Agree, AgreeBut
<1>2. client.logining => ~client.logined
  BY <1>1 DEF LoggedIn, Alone, Core, Flags
<1>3. CASE GameStart
  <2> DEFINE m == [kind |-> "start"]
  <2>1. /\ client' = client /\ account' = account /\ account = "this" /\ seat = "room"
        /\ client.scene = "menu" /\ client.goTo = "none" /\ client.logined
        /\ ~resume(client) /\ toClient = <<>> /\ client.out = <<>>
        /\ seat' = "game" /\ ~ready' /\ logLen' = 0 /\ toClient' = <<m>>
    BY <1>3 DEF GameStart, Notify, resume
  <2>2. Told(toClient') /\ Tail(toClient') = <<>>
    BY <2>1 DEF Told
  <2>3. ~client.wait /\ client.queue = <<>>
    <3>1. ~Has(client.out, "Leave")
      BY <2>1 DEF Has
    <3>2. ~client.wait
      BY <1>1, <2>1, <3>1 DEF LoggedIn, Alone
    <3> QED BY <1>1, <3>2 DEF Quiet
  <2>4. ~Under(client, "Frame") /\ ~Under(client, "Leave")
    BY <2>1, <2>3 DEF Under, Has
  <2>5. ~client.dxxw
    BY <1>1, <2>1, <2>4 DEF LoggedIn, Chooses
  <2>6. Playing(client, toClient', ready', logLen')
    BY <2>1, <2>2, <2>4, <2>5 DEF Playing, Begins
  <2>7. LoggedIn(FALSE, client, toClient', account', seat', ready', logLen')
    BY <1>1, <2>1, <2>3, <2>6 DEF LoggedIn, Alone
  <2> QED BY <1>2, <2>1, <2>7, TellAgree
<1>4. CASE GameFrame
  <2> DEFINE m == [kind |-> "frame", no |-> logLen]
             t == Append(toClient, m)
  <2>1. /\ client' = client /\ account' = account /\ seat = "game" /\ seat' = seat
        /\ ready' = ready /\ logLen' = logLen + 1 /\ (logLen = 0 => ready)
        /\ toClient' = IF account = "this" THEN t ELSE toClient
    BY <1>4 DEF GameFrame, Notify, Patient
  <2>2. m \in Messages /\ m.kind = "frame"
    BY <1>1 DEF Messages
  <2>3. /\ t # <<>>
        /\ toClient # <<>> => Head(t) = Head(toClient) /\ Tail(t) = Append(Tail(toClient), m)
        /\ toClient = <<>> => Head(t) = m /\ Tail(t) = <<>>
    BY <1>1, <2>2, Appended
  <2>4. \A i \in DOMAIN t : t[i] = m \/ (i \in DOMAIN toClient /\ t[i] = toClient[i])
    BY <1>1, <2>2, AppendedAt
  <2>5. client.logining => LoggingIn(client, toClient', account', seat', logLen')
    <3> SUFFICES ASSUME client.logining PROVE LoggingIn(client, toClient', account', seat', logLen')
      OBVIOUS
    <3>1. LoggingIn(client, toClient, account, seat, logLen)
      BY <1>1
    <3>2. CASE account # "this"
      BY <2>1, <3>1, <3>2 DEF LoggingIn, Asked, Refused, Granted
    <3>3. CASE account = "this"
      <4> DEFINE q == Head(toClient).ans.record
                 u == Tail(toClient)
      <4>1. Granted(client, toClient, account, seat, logLen) /\ toClient # <<>>
        BY <3>1, <3>3 DEF LoggingIn, Asked, Refused, Granted
      <4>2. Line(q, u, client.handler.sync, logLen)
        BY <2>1, <4>1 DEF Granted
      <4>3. q \in Seq(Nat) /\ u \in Seq(Messages) /\ client.handler.sync \in Nat
        <5>1. Head(toClient) \in Messages /\ Tail(toClient) \in Seq(Messages)
          BY <1>1, <4>1, HeadTailProperties
        <5>2. Head(toClient).kind = "answer"
          BY <4>1 DEF Granted
        <5>3. Head(toClient).ans.record \in Seq(Nat)
          BY <5>1, <5>2 DEF Messages, Answers
        <5>4. client.handler.sync \in Nat
          BY <1>1 DEF Core, Typed, Flags, Requests
        <5> QED BY <5>1, <5>3, <5>4
      <4> HIDE DEF q, u
      <4>4. Line(q, Append(u, m), client.handler.sync, logLen + 1)
        BY <1>1, <4>2, <4>3, LineIssue
      <4> HIDE DEF t, m
      <4>5. Granted(client, t, account, seat, logLen + 1)
        BY <2>3, <4>1, <4>4 DEF Granted, q, u
      <4> QED BY <2>1, <3>1, <3>3, <4>5 DEF LoggingIn
    <3> QED BY <3>2, <3>3
  <2>6. client.logined => LoggedIn(FALSE, client, toClient', account', seat', ready', logLen')
    <3> SUFFICES ASSUME client.logined
                 PROVE  LoggedIn(FALSE, client, toClient', account', seat', ready', logLen')
      OBVIOUS
    <3>1. /\ LoggedIn(FALSE, client, toClient, account, seat, ready, logLen) /\ toClient' = t
          /\ Playing(client, toClient, ready, logLen)
      BY <1>1, <2>1 DEF LoggedIn
    <3>2. ~Begins(client, ready, logLen)
      BY <2>1 DEF Begins
    <3>3. ~Told(toClient) /\ \A i \in DOMAIN toClient : toClient[i].kind = "frame"
      BY <3>1, <3>2 DEF Playing
    <3>4. ~Told(t) /\ \A i \in DOMAIN t : t[i].kind = "frame"
      BY <2>2, <2>3, <2>4, <3>3 DEF Told
    <3>5. client.frameQueue \in Seq(Nat) /\ client.frameNO \in Nat /\ 0 \in Nat
      BY <1>1 DEF Scenes, Core, Typed
    <3>6. Line(client.frameQueue, toClient, 0, logLen) => Line(client.frameQueue, t, 0, logLen + 1)
      BY <1>1, <3>5, LineIssue
    <3>7. Line(client.frameQueue, toClient, client.frameNO, logLen)
            => Line(client.frameQueue, t, client.frameNO, logLen + 1)
      BY <1>1, <3>5, LineIssue
    <3> HIDE DEF t, m
    <3>8. Playing(client, t, ready, logLen + 1)
      BY <3>1, <3>2, <3>4, <3>6, <3>7 DEF Playing
    <3> QED BY <2>1, <3>1, <3>8 DEF LoggedIn
  <2> QED BY <2>1, <2>5, <2>6, TellAgree
<1>5. CASE GameEnd
  <2> DEFINE m == [kind |-> "end"]
             t == Append(toClient, m)
  <2>1. /\ client' = client /\ account' = account /\ seat = "game"
        /\ seat' = (IF account = "none" THEN "none" ELSE "room")
        /\ ready' = ready /\ logLen' = logLen
        /\ toClient' = IF account = "this" THEN t ELSE toClient
    BY <1>5 DEF GameEnd, Notify
  <2>2. m \in Messages
    BY DEF Messages
  <2>3. t # <<>> /\ (toClient # <<>> => Head(t) = Head(toClient))
    BY <1>1, <2>2, Appended
  <2> HIDE DEF t, m
  <2>4. client.logining => LoggingIn(client, toClient', account', seat', logLen')
    BY <1>1, <2>1, <2>3 DEF LoggingIn, Asked, Refused, Granted
  <2>5. client.logined => LoggedIn(FALSE, client, toClient', account', seat', ready', logLen')
    BY <1>1, <2>1 DEF LoggedIn, Alone
  <2> QED BY <2>1, <2>4, <2>5, TellAgree
<1>6. CASE OldSessionClosed
  <2>1. /\ client' = client /\ toClient' = toClient /\ account = "old" /\ account' = "none"
        /\ seat' = (IF seat = "room" THEN "none" ELSE seat)
        /\ ready' = ready /\ logLen' = logLen
    BY <1>6 DEF OldSessionClosed, Bind
  <2>2. client.logining => LoggingIn(client, toClient', account', seat', logLen')
    BY <1>1, <2>1 DEF LoggingIn, Asked, Refused, Granted
  <2>3. ~client.logined
    BY <1>1, <2>1 DEF LoggedIn
  <2> QED BY <2>1, <2>2, <2>3, TellAgree
<1> QED BY <1>3, <1>4, <1>5, <1>6

-----------------------------------------------------------------------------
(* The frames on the way *)

\* The client starts in the menu, without a connection.
LEMMA InitFrames == Init => FInv /\ seat \in Seats
<1> SUFFICES ASSUME Init PROVE FInv /\ seat \in Seats
  OBVIOUS
<1>1. client = InitClient /\ seat = "game"
  BY DEF Init
<1>2. /\ InitClient.queue = <<>> /\ InitClient.handler = NoRequest
      /\ InitClient.scene = "menu" /\ InitClient.goTo = "none" /\ InitClient.frameNO = 0
      /\ InitClient.frameQueue = <<>> /\ InitClient.sock = "none"
      /\ ~InitClient.playing /\ ~InitClient.pluse /\ ~InitClient.logining /\ ~InitClient.logined
  BY DEF InitClient
<1>3. Quiet(client)
  BY <1>1, <1>2 DEF Quiet, Unflagged, Plain, Flagged, NoRequest
<1>4. Scenes(client)
  BY <1>1, <1>2 DEF Scenes
<1>5. Agree(client, toClient, account, seat, ready, logLen)
  BY <1>1, <1>2, <1>3, <1>4, IdleAgree
<1> QED BY <1>1, <1>5 DEF FInv, Seats

\* Every step keeps the client and the server in agreement.
LEMMA NextFrames ==
  ASSUME Patient
  PROVE  IInv /\ FInv /\ seat \in Seats /\ [Next]_vars => FInv' /\ seat' \in Seats
<1> SUFFICES ASSUME IInv, FInv, seat \in Seats, [Next]_vars PROVE FInv' /\ seat' \in Seats
  OBVIOUS
<1>1. FInv'
  <2>1. CASE onopen \/ onConnectFailed \/ onclose \/ onRequestTimeOut
    BY <2>1, OpenAgree, RefusedAgree, LossAgree
  <2>2. CASE ChooseOnline \/ Resume \/ RefuseResume \/ CloseMenuError
    BY <2>2, MenuAgree
  <2>3. CASE Reconnect \/ LeaveGame \/ CaughtUp \/ sendPluse
    BY <2>3, GameAgree
  <2>4. CASE onGameFrame
    BY <2>4, FrameAgree
  <2>5. CASE SceneLoaded
    <3>1. client.goTo \in {"menu", "game"}
      BY <2>5 DEF SceneLoaded, FInv, Agree, AgreeBut, Scenes
    <3> QED BY <2>5, <3>1, StartAgree, ExitAgree
  <2>6. CASE onMessage
    <3>1. Head(toClient) \in Messages
      BY <2>6, HeadTailProperties DEF onMessage, IInv, World
    <3>2. Head(toClient).kind \in {"answer", "frame", "start", "end"}
      BY <3>1 DEF Messages
    <3> QED BY <2>6, <3>2, AnswerComes, FrameComes, NoticeComes
  <2>7. CASE Serve
    BY <2>7, ServeLoginAgree, ServeOtherAgree
  <2>8. CASE GameStart \/ GameFrame \/ GameEnd \/ OldSessionClosed
    BY <2>8, RoomAgree
  <2>9. CASE UNCHANGED vars
    BY <2>9 DEF vars, server, FInv
  <2> QED BY <2>1, <2>2, <2>3, <2>4, <2>5, <2>6, <2>7, <2>8, <2>9 DEF Next
<1>2. seat' \in Seats
  <2>1. CASE UNCHANGED vars
    BY <2>1 DEF vars, server
  <2>2. CASE UNCHANGED server
    BY <2>2 DEF server
  <2>3. CASE onclose \/ onRequestTimeOut \/ OldSessionClosed
    BY <2>3 DEF onclose, onRequestTimeOut, OldSessionClosed, Lose, Bind, Seats
  <2>4. CASE Serve
    BY <2>4 DEF Serve, ServeLogin, ServeLeave, ServeFrame, Seats
  <2>5. CASE GameStart \/ GameFrame \/ GameEnd
    BY <2>5 DEF GameStart, GameFrame, GameEnd, Seats
  <2> QED
    BY <2>1, <2>2, <2>3, <2>4, <2>5
    DEF Next, onopen, onConnectFailed, sendPluse, onMessage, ChooseOnline, Resume,
        RefuseResume, CloseMenuError, Reconnect, LeaveGame, SceneLoaded, onGameFrame, CaughtUp
<1> QED BY <1>1, <1>2

(* A client that is logged in and plays lacks nothing: only frames are under *)
(* way to it, and with those it has queued they are the frames after the     *)
(* last one it played.  For a user who reconnects when all received frames   *)
(* are played, a game that starts when all are ready, and a login that       *)
(* always finds a frame missed; for any numbers of frames and requests.      *)
THEOREM FramesOnTheWayThm ==
  ASSUME PatientUser, ~StartTimeout, MissedAtLeast > 0
  PROVE  Spec => []FramesOnTheWay
<1>1. FInv => FramesOnTheWay
  <2> SUFFICES ASSUME FInv, client.logined, client.scene = "game", client.goTo = "none", seat = "game"
               PROVE  /\ \A i \in DOMAIN toClient : toClient[i].kind = "frame"
                      /\ client.frameQueue \o [i \in DOMAIN toClient |-> toClient[i].no]
                           = Frames(client.frameNO, logLen - 1)
    BY DEF FramesOnTheWay
  <2>1. Playing(client, toClient, ready, logLen)
    BY DEF FInv, Agree, AgreeBut, LoggedIn
  <2>2. Line(client.frameQueue, toClient, client.frameNO, logLen)
    BY <2>1 DEF Playing
  <2> QED BY <2>2 DEF Line, Nos
<1>2. Init => FInv /\ seat \in Seats
  BY InitFrames
<1>3. IInv /\ FInv /\ seat \in Seats /\ [Next]_vars => FInv' /\ seat' \in Seats
  BY NextFrames DEF Patient
<1>4. Spec => []IInv
  BY Invariance, PTL
<1> DEFINE Ok == FInv /\ seat \in Seats
<1>5. Init => Ok
  BY <1>2
<1>6. IInv /\ Ok /\ [Next]_vars => Ok'
  BY <1>3
<1>7. Ok => FramesOnTheWay
  BY <1>1
<1> HIDE DEF Ok
<1> QED BY <1>4, <1>5, <1>6, <1>7, PTL DEF Spec
=============================================================================
