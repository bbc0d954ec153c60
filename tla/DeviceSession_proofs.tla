------------------------ MODULE DeviceSession_proofs ------------------------
(***************************************************************************)
(* Proofs about DeviceSession, for every number of connecting threads,     *)
(* every number of pairing attempts and every budget.                      *)
(***************************************************************************)
EXTENDS DeviceSession, TLAPS

-----------------------------------------------------------------------------
(* The inductive invariant, one part for each piece of the state.          *)

ConnectorPcs == {"idle", "abort", "ticket", "create", "check", "install", "activate", "spawn", "register"}
CallPcs == {"none", "check", "checkout", "asked", "answered", "done", "negotiate", "replied"}
SweepPcs == {"idle", "checkout", "ask", "apply", "refresh", "get", "install"}
DevStates == {"none", "pending", "allowed", "delivered", "rejected", "expired", "cancelled"}
Replies == {"none", "pending", "token", "malformed", "rejected", "expired", "error", "stale", "ok",
            "unauthorized"}

Sessions == [attempt : Attempts \cup {0}, epoch : Nat]
Connecting == [pc : ConnectorPcs, attempt : Attempts \cup {0}, origin : Nat]
Calls == [pc : CallPcs, on : Attempts \cup {0}, epoch : Nat, reply : Replies]
Sweeps == [pc : SweepPcs, client : Sessions, held : Sessions, reply : Replies]

(* The actor: a connection has an epoch of its own, the one of its session. *)
ActorInv ==
  /\ session \in Sessions /\ epochs \in Nat
  /\ conn.epoch \in 0 .. epochs
  /\ conn.state = "connected" => conn.epoch # 0
  /\ conn.state = "pairing" => conn.attempt \in Attempts
  /\ SessionMatchesConnection

(* A session a legacy device has opened has its token delivered: the device *)
(* hands a token out once.                                                  *)
Delivered(s) ==
  Legacy /\ s # NoSession => s.attempt \in Attempts /\ dev[s.attempt] = "delivered"

(* Whoever names an attempt names one the device can create. *)
ConnectorInv ==
  /\ cn \in [Connectors -> Connecting]
  /\ \A c \in Connectors :
       cn[c].pc \in {"check", "install", "activate", "spawn", "register"} => cn[c].attempt \in Attempts

(* A token in a reply is one the device has delivered. *)
CallInv ==
  /\ call \in [Attempts -> Calls]
  /\ \A a \in Attempts :
       /\ call[a].pc \in {"asked", "answered"} => call[a].on \in Attempts
       /\ Legacy /\ call[a].pc = "answered" /\ call[a].reply = "token"
            => dev[call[a].on] = "delivered"

(* The heartbeat loop: what it holds is the present session or of an earlier *)
(* epoch, and a 401 it has not yet applied is still true.                    *)
SweepInv ==
  /\ sw \in Sweeps
  /\ sw.held.epoch \in 0 .. epochs
  /\ sw.held # NoSession => sw.held.epoch # 0
  /\ sw.held.epoch = session.epoch => sw.held = session \/ session = NoSession
  /\ Delivered(sw.held)
  /\ sw.pc \in {"ask", "apply"} => sw.held # NoSession
  /\ sw.pc = "apply" /\ sw.reply = "unauthorized" => Legacy /\ sw.held.attempt \notin valid

SessionInv ==
  /\ ActorInv /\ Delivered(session) /\ ConnectorInv /\ CallInv /\ SweepInv
  /\ dev \in [Attempts -> DevStates] /\ origin \in Nat

-----------------------------------------------------------------------------
(* What the steps of the actor and of the device have in common.           *)

(* A session stays, is given up, or is opened for the attempt being paired. *)
SessionStep ==
  \/ UNCHANGED <<session, epochs>>
  \/ session' = NoSession /\ UNCHANGED epochs
  \/ /\ conn.state = "pairing" /\ epochs' = epochs + 1
     /\ session' = [attempt |-> conn.attempt, epoch |-> epochs + 1]

(* A delivered token is not handed out again, so no dropped one comes back. *)
DeviceStep ==
  /\ dev' \in [Attempts -> DevStates] /\ UNCHANGED profile
  /\ \A x \in Attempts : dev[x] = "delivered" => dev'[x] = "delivered"
  /\ Legacy => \A x \in valid' \ valid : dev[x] = "allowed"

(* An operation of the actor that ends a connection, or starts a pairing. *)
LEMMA EndOfSession ==
  ASSUME ActorInv, Delivered(session), session' = NoSession, info' = 0, UNCHANGED epochs,
         conn'.epoch = 0, conn'.state # "connected",
         conn'.state = "pairing" => conn'.attempt \in Attempts
  PROVE  ActorInv' /\ SessionStep /\ Delivered(session)'
<1>1. NoSession \in Sessions
  BY DEF NoSession, Sessions
<1>2. SessionMatchesConnection'
  BY DEF SessionMatchesConnection, NoSession
<1> QED
  BY <1>1, <1>2 DEF ActorInv, SessionStep, Delivered, NoSession

(* clear_connection_state, and a refused or expired pairing. *)
LEMMA RefuseKeepsActor ==
  ASSUME ActorInv, Delivered(session), NEW state \in {"disconnected", "expired"},
         Refuse(state) \/ Clear
  PROVE  ActorInv' /\ SessionStep /\ Delivered(session)'
BY EndOfSession DEF Refuse, Clear, Off

(* apply_pairing_status with anything but a token. *)
LEMMA StatusKeepsActor ==
  ASSUME ActorInv, Delivered(session), DeviceStep,
         NEW a, NEW reply, reply # "token", ApplyStatus(a, reply)
  PROVE  ActorInv' /\ SessionStep /\ Delivered(session)'
<1>1. CASE UNCHANGED actor
  BY <1>1 DEF actor, ActorInv, SessionMatchesConnection, Connected, SessionStep, Delivered, Legacy,
          DeviceStep
<1>2. CASE Refuse("disconnected") \/ Refuse("expired")
  BY <1>2, RefuseKeepsActor
<1> QED
  BY <1>1, <1>2 DEF ApplyStatus

(* apply_pairing_status with the token of the attempt being paired. *)
LEMMA AllowKeepsActor ==
  ASSUME ActorInv, DeviceStep, NEW a, Pairing(a), Allow(a),
         Legacy => dev[a] = "delivered"
  PROVE  ActorInv' /\ SessionStep /\ Delivered(session)'
<1>1. conn.state = "pairing" /\ conn.attempt = a /\ a \in Attempts /\ info = 0
  BY DEF ActorInv, Pairing, SessionMatchesConnection, Connected
<1>2. session' \in Sessions
  BY <1>1 DEF Allow, Sessions, ActorInv
<1>3. SessionMatchesConnection'
  BY <1>1 DEF Allow, SessionMatchesConnection, Connected
<1> QED
  BY <1>1, <1>2, <1>3 DEF Allow, ActorInv, SessionStep, Delivered, Legacy, DeviceStep

(* apply_device_info. *)
LEMMA InfoKeepsActor ==
  ASSUME ActorInv, Delivered(session), DeviceStep, NEW e, ApplyDeviceInfo(e)
  PROVE  ActorInv' /\ SessionStep /\ Delivered(session)'
BY DEF ApplyDeviceInfo, actor, ActorInv, SessionMatchesConnection, Connected, SessionStep, Delivered,
       Legacy, DeviceStep

(* The parts that a step leaves alone. *)
LEMMA ActorFrame ==
  ASSUME ActorInv, Delivered(session), DeviceStep, UNCHANGED actor
  PROVE  ActorInv' /\ SessionStep /\ Delivered(session)'
BY DEF actor, ActorInv, SessionMatchesConnection, Connected, SessionStep, Delivered, Legacy, DeviceStep

(* A step that leaves the calls alone keeps what is known of them. *)
LEMMA CallFrame ==
  ASSUME CallInv, DeviceStep, UNCHANGED call
  PROVE  CallInv'
BY DEF CallInv, DeviceStep, Legacy, Calls

(* So it is with the connectors. *)
LEMMA ConnectorFrame ==
  ASSUME ConnectorInv, UNCHANGED cn
  PROVE  ConnectorInv'
BY DEF ConnectorInv

(* A step that leaves the device alone is a legal step of the device. *)
LEMMA DeviceFrame ==
  ASSUME dev \in [Attempts -> DevStates], UNCHANGED device
  PROVE  DeviceStep /\ UNCHANGED <<dev, valid, profile>>
BY DEF DeviceStep, device

(* Whatever the others do, the heartbeat loop holds what it held, of an     *)
(* epoch that is not given out again, and its 401 stays true.               *)
LEMMA SweepFrame ==
  ASSUME SweepInv, ActorInv, SessionStep, DeviceStep, UNCHANGED sw
  PROVE  SweepInv'
<1>1. epochs \in Nat /\ epochs' \in Nat /\ epochs' >= epochs
  BY DEF ActorInv, SessionStep
<1>2. sw.held.epoch \in 0 .. epochs'
  BY <1>1 DEF SweepInv
<1>3. sw.held.epoch = session'.epoch => sw.held = session' \/ session' = NoSession
  BY <1>1 DEF SweepInv, SessionStep, NoSession
<1>4. Delivered(sw.held)'
  BY DEF SweepInv, Delivered, DeviceStep, Legacy
<1>5. sw.pc = "apply" /\ sw.reply = "unauthorized" => Legacy' /\ sw.held.attempt \notin valid'
  <2> SUFFICES ASSUME sw.pc = "apply", sw.reply = "unauthorized"
               PROVE  Legacy' /\ sw.held.attempt \notin valid'
    OBVIOUS
  <2>1. Legacy /\ sw.held # NoSession /\ sw.held.attempt \notin valid
    BY DEF SweepInv
  <2>2. dev[sw.held.attempt] = "delivered"
    BY <2>1 DEF SweepInv, Delivered
  <2> QED
    BY <2>1, <2>2 DEF DeviceStep, Legacy
<1> QED
  BY <1>2, <1>3, <1>4, <1>5 DEF SweepInv

(* A step that leaves the heartbeat loop alone keeps the invariant if it     *)
(* keeps the parts it writes.                                                *)
LEMMA Assemble ==
  ASSUME SessionInv, ActorInv' /\ SessionStep /\ Delivered(session)', ConnectorInv', CallInv',
         DeviceStep, UNCHANGED sw, origin' \in Nat
  PROVE  SessionInv'
<1>1. SweepInv'
  BY SweepFrame DEF SessionInv
<1> QED
  BY <1>1 DEF SessionInv, DeviceStep

(* The same for a step that also leaves the actor and the device alone. *)
LEMMA LocalStep ==
  ASSUME SessionInv, UNCHANGED <<actor, device, sw>>, ConnectorInv', CallInv', origin' \in Nat
  PROVE  SessionInv'
<1>1. DeviceStep
  BY DeviceFrame DEF SessionInv
<1> QED
  BY <1>1, ActorFrame, Assemble DEF SessionInv

(* Stopping a pairing task leaves no call that was not there. *)
LEMMA AbortKeepsCalls ==
  ASSUME CallInv, AbortTask, UNCHANGED <<dev, profile>>
  PROVE  CallInv'
BY DEF CallInv, AbortTask, NoCall, Calls, CallPcs, Replies, Legacy

-----------------------------------------------------------------------------
(* connect_device.                                                         *)

(* A connector, from its check to its registration, keeps the invariant. *)
LEMMA ConnectKeepsSession ==
  ASSUME SessionInv, NEW c \in Connectors, Connect(c) \/ ConnectStep(c)
  PROVE  SessionInv'
<1> USE DEF SessionInv, ConnectorPcs, Connecting
<1> DEFINE Pcs == {"check", "install", "activate", "spawn", "register"}
<1>0. ASSUME NEW r \in Connecting,
             r.pc \in Pcs => r.attempt \in Attempts, cn' = [cn EXCEPT ![c] = r]
      PROVE  ConnectorInv'
  BY <1>0 DEF ConnectorInv
<1>a. ASSUME NEW pc \in ConnectorPcs, pc \in Pcs => cn[c].attempt \in Attempts, Go(c, pc)
      PROVE  ConnectorInv'
  BY <1>a DEF ConnectorInv, Go
<1>b. Return(c) => ConnectorInv'
  BY <1>0 DEF Return, IdleConnector
<1>1. CASE Connect(c)
  <2>1. ConnectorInv'
    BY <1>1, <1>0 DEF Connect
  <2> QED
    BY <1>1, <2>1, LocalStep, DeviceFrame, CallFrame DEF Connect, pairings, bound
<1>2. CASE AbortPrevious(c)
  <2>1. ConnectorInv'
    BY <1>2, <1>a DEF AbortPrevious
  <2>2. CallInv'
    BY <1>2, AbortKeepsCalls DEF AbortPrevious, device
  <2> QED
    BY <1>2, <2>1, <2>2, LocalStep DEF AbortPrevious, bound
<1>3. CASE TakeTicket(c)
  <2>1. ConnectorInv'
    BY <1>3, <1>a DEF TakeTicket
  <2> QED
    BY <1>3, <2>1, LocalStep, DeviceFrame, CallFrame DEF TakeTicket, pairings, bound
<1>4. CASE Create(c)
  <2>1. ConnectorInv'
    <3>1. CASE Return(c)
      BY <3>1, <1>b
    <3>2. CASE \E a \in Attempts : cn' = [cn EXCEPT ![c].pc = "check", ![c].attempt = a]
      <4>1. PICK a \in Attempts : cn' = [cn EXCEPT ![c].pc = "check", ![c].attempt = a]
        BY <3>2
      <4> DEFINE r == [cn[c] EXCEPT !.pc = "check", !.attempt = a]
      <4>2. cn' = [cn EXCEPT ![c] = r]
        BY <4>1 DEF ConnectorInv
      <4>3. r \in Connecting /\ r.attempt = a
        BY DEF ConnectorInv
      <4> QED
        BY <4>2, <4>3, <1>0
    <3> QED
      BY <1>4, <3>1, <3>2 DEF Create
  <2>2. DeviceStep
    BY <1>4 DEF Create, DeviceStep, DevStates
  <2>3. CallInv'
    BY <1>4, <2>2, CallFrame DEF Create
  <2> QED
    BY <1>4, <2>1, <2>2, <2>3, ActorFrame, Assemble DEF Create, bound
<1>5. CASE CheckTicket(c)
  <2>1. ConnectorInv'
    BY <1>5, <1>a, <1>b DEF CheckTicket, ConnectorInv
  <2> QED
    BY <1>5, <2>1, LocalStep, DeviceFrame, CallFrame DEF CheckTicket, pairings, bound
<1>6. CASE Install(c)
  <2>1. cn[c].attempt \in Attempts
    BY <1>6 DEF Install, ConnectorInv
  <2>2. ConnectorInv'
    BY <1>6, <2>1, <1>a DEF Install
  <2>3. ActorInv' /\ SessionStep /\ Delivered(session)'
    BY <1>6, <2>1, EndOfSession DEF Install, ApplyCreated
  <2> QED
    BY <1>6, <2>2, <2>3, Assemble, DeviceFrame, CallFrame DEF Install, pairings, bound
<1>7. CASE Activate(c)
  <2>1. ConnectorInv'
    BY <1>7, <1>a, <1>b DEF Activate, ConnectorInv
  <2>2. DeviceStep
    BY <1>7 DEF Activate, DeviceStep, DevStates
  <2>3. ActorInv' /\ SessionStep /\ Delivered(session)'
    <3>1. CASE UNCHANGED actor
      BY <3>1, <2>2, ActorFrame
    <3>2. CASE ApplyStatus(cn[c].attempt, "expired")
      BY <3>2, <2>2, StatusKeepsActor
    <3> QED
      BY <1>7, <3>1, <3>2 DEF Activate
  <2> QED
    BY <1>7, <2>1, <2>2, <2>3, Assemble, CallFrame DEF Activate, bound
<1>8. CASE Spawn(c)
  <2>1. ConnectorInv'
    BY <1>8, <1>a DEF Spawn, ConnectorInv
  <2> QED
    BY <1>8, <2>1, LocalStep, DeviceFrame, CallFrame DEF Spawn, bound
<1>9. CASE Register(c)
  BY <1>9, <1>b, LocalStep, DeviceFrame, CallFrame DEF Register, bound
<1> QED
  BY <1>1, <1>2, <1>3, <1>4, <1>5, <1>6, <1>7, <1>8, <1>9 DEF ConnectStep

-----------------------------------------------------------------------------
(* run_pairing and the calls it starts.                                    *)

(* Replacing the call of one attempt. *)
LEMMA CallSet ==
  ASSUME CallInv, DeviceStep, NEW a \in Attempts, NEW r \in Calls, call' = [call EXCEPT ![a] = r],
         r.pc \in {"asked", "answered"} => r.on \in Attempts,
         Legacy /\ r.pc = "answered" /\ r.reply = "token" => dev'[r.on] = "delivered"
  PROVE  CallInv'
<1>1. call' \in [Attempts -> Calls] /\ Legacy' = Legacy
  BY DEF CallInv, DeviceStep, Legacy
<1>2. ASSUME NEW b \in Attempts, b # a
      PROVE  call'[b] = call[b] /\ (call[b].on \in Attempts /\ dev[call[b].on] = "delivered"
                                      => dev'[call[b].on] = "delivered")
  BY <1>2 DEF DeviceStep, CallInv
<1>3. call'[a] = r
  BY DEF CallInv
<1> QED
  BY <1>1, <1>2, <1>3 DEF CallInv

(* A call that is dropped has nothing to be known of. *)
LEMMA NoCallSet ==
  ASSUME CallInv, DeviceStep, NEW a \in Attempts, call' = [call EXCEPT ![a] = NoCall]
  PROVE  CallInv'
<1>1. NoCall \in Calls /\ NoCall.pc = "none"
  BY DEF NoCall, Calls, CallPcs, Replies
<1> QED
  BY <1>1, CallSet

(* Ending a task drops its call. *)
LEMMA EndTaskKeepsCalls ==
  ASSUME CallInv, DeviceStep, NEW a \in Attempts, EndTask(a)
  PROVE  CallInv'
BY NoCallSet DEF EndTask

(* A call that is answered carries a reply the device gave. *)
LEMMA ReplyKeepsCalls ==
  ASSUME CallInv, DeviceStep, NEW a \in Attempts, NEW pc \in CallPcs, NEW reply \in Replies,
         Reply(a, pc, reply),
         pc \in {"asked", "answered"} => call[a].on \in Attempts,
         Legacy /\ pc = "answered" /\ reply = "token" => dev'[call[a].on] = "delivered"
  PROVE  CallInv'
<1> DEFINE r == [call[a] EXCEPT !.pc = pc, !.reply = reply]
<1>1. call[a] \in Calls
  BY DEF CallInv
<1>2. r \in Calls /\ r.pc = pc /\ r.reply = reply /\ r.on = call[a].on
  BY <1>1 DEF Calls
<1>3. call' = [call EXCEPT ![a] = r]
  BY DEF Reply, CallInv
<1> QED
  BY <1>2, <1>3, CallSet

(* A finished task carries the epoch given out for its token. *)
LEMMA DoneKeepsCalls ==
  ASSUME CallInv, DeviceStep, NEW a \in Attempts, NEW reply \in Replies, epochs' \in Nat,
         Done(a, reply)
  PROVE  CallInv'
<1> DEFINE r == [NoCall EXCEPT !.pc = "done", !.reply = reply,
                               !.epoch = IF reply = "token" THEN epochs' ELSE 0]
<1>1. r \in Calls /\ r.pc = "done"
  BY DEF NoCall, Calls, CallPcs, Replies
<1>2. CASE call' = [call EXCEPT ![a] = r]
  BY <1>1, <1>2, CallSet
<1>3. CASE call' = [call EXCEPT ![a] = NoCall]
  BY <1>3, NoCallSet
<1> QED
  BY <1>2, <1>3 DEF Done

(* Every step of a pairing task keeps the invariant. *)
LEMMA TaskKeepsSession ==
  ASSUME SessionInv, NEW a \in Attempts, TaskStep(a)
  PROVE  SessionInv'
<1> USE DEF SessionInv, CallPcs, Replies
<1>0. epochs \in Nat /\ call[a] \in Calls
  BY DEF ActorInv, CallInv
<1>a. UNCHANGED device => DeviceStep
  BY DeviceFrame
<1>b. DeviceStep /\ UNCHANGED actor => ActorInv' /\ SessionStep /\ Delivered(session)'
  BY ActorFrame
<1>c. (ActorInv' /\ SessionStep /\ Delivered(session)') /\ UNCHANGED <<cn, sw, bound>> /\ CallInv'
      /\ DeviceStep => SessionInv'
  BY Assemble, ConnectorFrame DEF bound
<1>1. CASE Deadline(a)
  BY <1>1, <1>a, <1>b, <1>c, CallFrame DEF Deadline
<1>2. CASE Head(a)
  <2>1. DeviceStep
    BY <1>2, <1>a DEF Head
  <2>2. CallInv'
    <3>1. CASE EndTask(a)
      BY <2>1, <3>1, EndTaskKeepsCalls
    <3>2. CASE call' = [call EXCEPT ![a] = [NoCall EXCEPT !.pc = "check"]]
      <4>1. [NoCall EXCEPT !.pc = "check"] \in Calls /\ [NoCall EXCEPT !.pc = "check"].pc = "check"
        BY DEF NoCall, Calls
      <4> QED
        BY <2>1, <3>2, <4>1, CallSet
    <3> QED
      BY <1>2, <3>1, <3>2 DEF Head
  <2>3. ActorInv' /\ SessionStep /\ Delivered(session)'
    <3>1. CASE UNCHANGED actor
      BY <3>1, <2>1, <1>b
    <3>2. CASE ApplyStatus(a, "expired")
      BY <3>2, <2>1, StatusKeepsActor
    <3> QED
      BY <1>2, <3>1, <3>2 DEF Head
  <2> QED
    BY <1>2, <2>1, <2>2, <2>3, <1>c DEF Head
<1>3. CASE PollCheck(a)
  <2>1. DeviceStep /\ epochs' \in Nat
    BY <1>3, <1>0, <1>a DEF PollCheck, actor
  <2>2. CallInv'
    BY <1>3, <2>1, ReplyKeepsCalls, DoneKeepsCalls DEF PollCheck
  <2> QED
    BY <1>3, <2>1, <2>2, <1>b, <1>c DEF PollCheck
<1>4. CASE PollCheckout(a)
  <2>1. DeviceStep /\ epochs' \in Nat
    BY <1>4, <1>0, <1>a DEF PollCheckout, actor
  <2>2. CallInv'
    <3>1. CASE Done(a, "stale")
      BY <3>1, <2>1, DoneKeepsCalls
    <3>2. CASE conn.state = "pairing" /\ call' = [call EXCEPT ![a].pc = "asked", ![a].on = conn.attempt]
      <4> DEFINE r == [call[a] EXCEPT !.pc = "asked", !.on = conn.attempt]
      <4>1. conn.attempt \in Attempts
        BY <3>2 DEF ActorInv
      <4>2. call' = [call EXCEPT ![a] = r]
        BY <3>2 DEF CallInv
      <4>3. r \in Calls /\ r.pc = "asked" /\ r.on = conn.attempt
        BY <1>0, <4>1 DEF Calls
      <4> QED
        BY <4>1, <4>2, <4>3, <2>1, CallSet
    <3> QED
      BY <1>4, <3>1, <3>2 DEF PollCheckout
  <2> QED
    BY <1>4, <2>1, <2>2, <1>b, <1>c DEF PollCheckout
<1>5. CASE PollAnswer(a)
  <2> DEFINE d == dev[call[a].on]
  <2>1. call[a].on \in Attempts /\ d \in DevStates
    BY <1>5 DEF PollAnswer, CallInv
  <2>2. DeviceStep
    BY <1>5, <2>1 DEF PollAnswer, DeviceStep, DevStates
  <2>3. StatusOf(d) \in Replies /\ (StatusOf(d) = "token" => d = "allowed")
    BY <2>1 DEF StatusOf, DevStates
  <2>4. Legacy /\ d = "allowed" => dev'[call[a].on] = "delivered"
    BY <1>5, <2>1 DEF PollAnswer
  <2>5. CallInv'
    <3>1. CASE Reply(a, "answered", StatusOf(d))
      BY <3>1, <2>1, <2>2, <2>3, <2>4, ReplyKeepsCalls
    <3>2. CASE Reply(a, "answered", "error")
      BY <3>2, <2>1, <2>2, ReplyKeepsCalls
    <3> QED
      BY <1>5, <3>1, <3>2 DEF PollAnswer
  <2> QED
    BY <1>5, <2>2, <2>5, <1>b, <1>c DEF PollAnswer
<1>6. CASE PollApply(a)
  <2>1. DeviceStep
    BY <1>6, <1>a DEF PollApply
  <2>2. call[a].on \in Attempts /\ call[a].reply \in Replies
        /\ (Legacy /\ call[a].reply = "token" => dev[call[a].on] = "delivered")
    BY <1>6, <1>0 DEF PollApply, CallInv, Calls
  <2>3. ActorInv' /\ SessionStep /\ Delivered(session)'
    <3>1. CASE call[a].reply = "token" /\ Pairing(call[a].on)
      <4>1. Allow(call[a].on)
        BY <1>6, <3>1 DEF PollApply, ApplyStatus
      <4> QED
        BY <4>1, <3>1, <2>1, <2>2, AllowKeepsActor
    <3>2. CASE ~Pairing(call[a].on)
      BY <1>6, <3>2, <2>1, <1>b DEF PollApply, ApplyStatus
    <3>3. CASE call[a].reply # "token"
      BY <1>6, <3>3, <2>1, StatusKeepsActor DEF PollApply
    <3> QED
      BY <3>1, <3>2, <3>3
  <2>4. CallInv'
    <3>1. epochs' \in Nat
      BY <2>3 DEF ActorInv
    <3> QED
      BY <1>6, <2>1, <2>2, <3>1, DoneKeepsCalls DEF PollApply
  <2> QED
    BY <1>6, <2>1, <2>3, <2>4, <1>c DEF PollApply
<1>7. CASE Polled(a)
  <2>1. DeviceStep
    BY <1>7, <1>a DEF Polled
  <2>2. CallInv'
    <3>1. CASE UNCHANGED call
      BY <2>1, <3>1, CallFrame
    <3>2. CASE Reply(a, "negotiate", "none")
      BY <2>1, <3>2, ReplyKeepsCalls
    <3>3. CASE EndTask(a)
      BY <2>1, <3>3, EndTaskKeepsCalls
    <3> QED
      BY <1>7, <3>1, <3>2, <3>3 DEF Polled
  <2> QED
    BY <1>7, <2>1, <2>2, <1>b, <1>c DEF Polled
<1>8. CASE NegotiateAsk(a)
  <2>1. DeviceStep /\ epochs' \in Nat
    BY <1>8, <1>0, <1>a DEF NegotiateAsk, actor
  <2>2. CallInv'
    BY <1>8, <2>1, ReplyKeepsCalls, DoneKeepsCalls DEF NegotiateAsk
  <2> QED
    BY <1>8, <2>1, <2>2, <1>b, <1>c DEF NegotiateAsk
<1>9. CASE NegotiateApply(a)
  <2>1. DeviceStep
    BY <1>9, <1>a DEF NegotiateApply
  <2>2. ActorInv' /\ SessionStep /\ Delivered(session)'
    <3>1. CASE UNCHANGED actor
      BY <3>1, <2>1, <1>b
    <3>2. CASE ApplyDeviceInfo(call[a].epoch)
      BY <3>2, <2>1, InfoKeepsActor
    <3>3. CASE Clear
      BY <3>3, RefuseKeepsActor
    <3> QED
      BY <1>9, <3>1, <3>2, <3>3 DEF NegotiateApply, DisconnectIfEpoch
  <2>3. CallInv'
    <3>1. epochs' \in Nat /\ call[a].reply \in Replies
      BY <1>0, <2>2 DEF ActorInv, Calls
    <3> QED
      BY <1>9, <2>1, <3>1, DoneKeepsCalls DEF NegotiateApply
  <2> QED
    BY <1>9, <2>1, <2>2, <2>3, <1>c DEF NegotiateApply
<1>10. CASE Negotiated(a)
  BY <1>10, <1>a, <1>b, <1>c, EndTaskKeepsCalls DEF Negotiated
<1> QED
  BY <1>1, <1>2, <1>3, <1>4, <1>5, <1>6, <1>7, <1>8, <1>9, <1>10 DEF TaskStep

-----------------------------------------------------------------------------
(* The other callers, the heartbeat loop and the device.                   *)

(* So do cancellations, disconnections and a changed endpoint. *)
LEMMA OthersKeepSession ==
  ASSUME SessionInv, CancelStep \/ Disconnect \/ DisconnectStep \/ RebindBump \/ RebindClear
  PROVE  SessionInv'
<1> USE DEF SessionInv
<1>1. CASE DeleteAnswer
  <2>1. DeviceStep
    BY <1>1 DEF DeleteAnswer, DeviceStep, DevStates
  <2> QED
    BY <1>1, <2>1, ActorFrame, CallFrame, ConnectorFrame, Assemble DEF DeleteAnswer, pairings, bound
<1>2. CASE CancelClear
  BY <1>2, DeviceFrame, CallFrame, ConnectorFrame, LocalStep DEF CancelClear, bound
<1>3. CASE CancelAbort \/ DisconnectAbort
  <2>1. CallInv'
    BY <1>3, AbortKeepsCalls DEF CancelAbort, DisconnectAbort, device
  <2> QED
    BY <1>3, <2>1, ConnectorFrame, LocalStep DEF CancelAbort, DisconnectAbort, bound
<1>4. CASE CancelApply
  <2>1. DeviceStep
    BY <1>4, DeviceFrame DEF CancelApply
  <2>2. ActorInv' /\ SessionStep /\ Delivered(session)'
    BY <1>4, <2>1, StatusKeepsActor DEF CancelApply
  <2> QED
    BY <1>4, <2>1, <2>2, CallFrame, ConnectorFrame, Assemble DEF CancelApply, pairings, bound
<1>5. CASE Disconnect \/ DisconnectBind \/ DisconnectBump \/ DisconnectCheckout \/ RebindBump
  BY <1>5, DeviceFrame, CallFrame, ConnectorFrame, LocalStep
     DEF Disconnect, DisconnectBind, DisconnectBump, DisconnectCheckout, RebindBump, pairings, bound
<1>6. CASE DisconnectClear \/ RebindClear
  <2>1. ActorInv' /\ SessionStep /\ Delivered(session)'
    BY <1>6, RefuseKeepsActor DEF DisconnectClear, RebindClear
  <2> QED
    BY <1>6, <2>1, DeviceFrame, CallFrame, ConnectorFrame, Assemble
       DEF DisconnectClear, RebindClear, pairings, bound
<1>7. CASE DisconnectRevoke
  <2>1. DeviceStep
    BY <1>7 DEF DisconnectRevoke, DeviceStep
  <2> QED
    BY <1>7, <2>1, ActorFrame, CallFrame, ConnectorFrame, Assemble DEF DisconnectRevoke, pairings, bound
<1> QED
  BY <1>1, <1>2, <1>3, <1>4, <1>5, <1>6, <1>7 DEF CancelStep, DisconnectStep

(* The client answers 401 only for the session it holds. *)
LEMMA AnswerIsOurs ==
  ASSUME SweepInv, NEW held, Answer(held) = "unauthorized"
  PROVE  Legacy /\ held = sw.client /\ held.attempt \notin valid
BY DEF Answer

(* So does the heartbeat loop: it writes only under the epoch it checked *)
(* out.                                                                  *)
LEMMA SweepKeepsSession ==
  ASSUME SessionInv, SweepStep
  PROVE  SessionInv'
<1> USE DEF SessionInv, SweepPcs, Replies
<1>0. DeviceStep /\ UNCHANGED <<dev, valid, profile>>
  BY DeviceFrame
     DEF SweepStep, SweepSnapshot, SweepCheckout, SweepAsk, SweepApply, SweepRefresh, SweepGet,
         SweepInstall, device
<1>a. CallInv' /\ ConnectorInv' /\ origin' \in Nat
  BY <1>0, CallFrame, ConnectorFrame
     DEF SweepStep, SweepSnapshot, SweepCheckout, SweepAsk, SweepApply, SweepRefresh, SweepGet,
         SweepInstall, pairings, bound
<1>b. Idle \in Sweeps /\ Idle.pc = "idle" /\ Idle.held = NoSession
  BY DEF Idle, Sweeps, Sessions, NoSession
<1>c. session.epoch = conn.epoch \/ session = NoSession
  BY DEF ActorInv, SessionMatchesConnection
<1>d. session # NoSession => session.epoch # 0 /\ session.epoch \in 0 .. epochs
  BY <1>c DEF ActorInv, SessionMatchesConnection
<1>e. ASSUME UNCHANGED actor, SweepInv' PROVE SessionInv'
  BY <1>0, <1>a, <1>e, ActorFrame
<1>f. ASSUME sw' = Idle, ActorInv' PROVE SweepInv'
  <2>1. epochs' \in Nat /\ (session' = NoSession \/ session'.epoch # 0)
    BY <1>f DEF ActorInv, SessionMatchesConnection
  <2> QED
    BY <1>b, <1>f, <2>1 DEF SweepInv, Delivered, NoSession
<1>h. UNCHANGED actor => ActorInv'
  BY <1>0, ActorFrame
<1>g. epochs \in Nat /\ session \in Sessions
  BY DEF ActorInv
<1>1. CASE SweepSnapshot
  BY <1>1, <1>0, <1>e DEF SweepSnapshot, At, SweepInv, Sweeps, actor, Delivered, Legacy
<1>2. CASE SweepCheckout
  <2>1. SweepInv'
    <3>1. CASE session = NoSession
      BY <1>2, <3>1, <1>f, <1>h DEF SweepCheckout
    <3>2. CASE session # NoSession
      BY <1>2, <3>2, <1>0, <1>d, <1>g
         DEF SweepCheckout, SweepInv, Sweeps, actor, Delivered, Legacy
    <3> QED
      BY <3>1, <3>2
  <2> QED
    BY <1>2, <2>1, <1>e DEF SweepCheckout
<1>3. CASE SweepAsk
  <2>1. PICK reply \in {Answer(sw.held), "error"} : sw' = [sw EXCEPT !.pc = "apply", !.reply = reply]
    BY <1>3 DEF SweepAsk
  <2>2. reply \in Replies
    BY <2>1 DEF Answer
  <2>3. reply = "unauthorized" => Legacy /\ sw.held.attempt \notin valid
    BY <2>1, AnswerIsOurs
  <2>4. sw.pc = "ask" /\ UNCHANGED actor
    BY <1>3 DEF SweepAsk
  <2>5. SweepInv'
    BY <2>1, <2>2, <2>3, <2>4, <1>0 DEF SweepInv, Sweeps, actor, Delivered, Legacy
  <2> QED
    BY <2>4, <2>5, <1>e
<1>4. CASE SweepApply
  <2>1. ActorInv' /\ SessionStep /\ Delivered(session)'
    <3>1. CASE UNCHANGED actor
      BY <3>1, <1>0, ActorFrame
    <3>2. CASE Refuse("expired")
      BY <3>2, RefuseKeepsActor
    <3> QED
      BY <1>4, <3>1, <3>2 DEF SweepApply, ApplyHeartbeat
  <2>2. SweepInv'
    <3>1. CASE sw' = Idle
      BY <3>1, <2>1, <1>f
    <3>2. CASE sw' = [sw EXCEPT !.pc = "refresh"]
      <4>1. sw.held.epoch = session'.epoch => sw.held = session' \/ session' = NoSession
        BY <2>1, <1>g DEF SessionStep, SweepInv, NoSession
      <4>2. sw.held.epoch \in 0 .. epochs'
        BY <2>1, <1>g DEF SessionStep, SweepInv
      <4> QED
        BY <3>2, <4>1, <4>2, <1>0 DEF SweepInv, Sweeps, Delivered, Legacy
    <3> QED
      BY <1>4, <3>1, <3>2 DEF SweepApply
  <2> QED
    BY <2>1, <2>2, <1>0, <1>a
<1>5. CASE SweepRefresh
  <2>1. SweepInv'
    <3>1. CASE session = NoSession
      BY <1>5, <3>1, <1>f, <1>h DEF SweepRefresh
    <3>2. CASE session # NoSession
      BY <1>5, <3>2, <1>0, <1>d, <1>g
         DEF SweepRefresh, SweepInv, Sweeps, actor, Delivered, Legacy
    <3> QED
      BY <3>1, <3>2
  <2> QED
    BY <1>5, <2>1, <1>e DEF SweepRefresh
<1>6. CASE SweepGet
  <2>1. SweepInv'
    <3>1. CASE sw' = Idle
      BY <1>6, <3>1, <1>f, <1>h DEF SweepGet
    <3>2. CASE At("install")
      BY <1>6, <3>2, <1>0 DEF SweepGet, At, SweepInv, Sweeps, actor, Delivered, Legacy
    <3> QED
      BY <1>6, <3>1, <3>2 DEF SweepGet
  <2> QED
    BY <1>6, <2>1, <1>e DEF SweepGet
<1>7. CASE SweepInstall
  <2>1. ActorInv' /\ SessionStep /\ Delivered(session)'
    BY <1>7, <1>0, InfoKeepsActor DEF SweepInstall
  <2>2. SweepInv'
    BY <1>7, <2>1, <1>f DEF SweepInstall
  <2> QED
    BY <2>1, <2>2, <1>0, <1>a
<1> QED
  BY <1>1, <1>2, <1>3, <1>4, <1>5, <1>6, <1>7 DEF SweepStep

(* So do the device's own decisions. *)
LEMMA DeviceKeepsSession ==
  ASSUME SessionInv, NEW a \in Attempts, Cancel(a) \/ Resolve(a) \/ Lapse(a)
  PROVE  SessionInv'
<1> USE DEF SessionInv
<1>1. CASE Cancel(a)
  BY <1>1, DeviceFrame, CallFrame, ConnectorFrame, LocalStep DEF Cancel, pairings, bound
<1>2. CASE Resolve(a)
  <2>1. DeviceStep
    BY <1>2 DEF Resolve, DeviceStep, DevStates
  <2> QED
    BY <1>2, <2>1, ActorFrame, CallFrame, ConnectorFrame, Assemble DEF Resolve, pairings, bound
<1>3. CASE Lapse(a)
  <2>1. DeviceStep
    BY <1>3 DEF Lapse, DeviceStep
  <2> QED
    BY <1>3, <2>1, ActorFrame, CallFrame, ConnectorFrame, Assemble DEF Lapse, pairings, bound
<1> QED
  BY <1>1, <1>2, <1>3

-----------------------------------------------------------------------------
(* The theorems.                                                           *)

(* The invariant holds at the start. *)
LEMMA InitSession == Init => SessionInv
<1> SUFFICES ASSUME Init PROVE SessionInv
  OBVIOUS
<1> USE DEF Init, NoSession, Sessions
<1>1. ActorInv
  BY DEF ActorInv, SessionMatchesConnection, Off
<1>2. ConnectorInv
  BY DEF ConnectorInv, Connecting, ConnectorPcs, IdleConnector
<1>3. CallInv
  BY DEF CallInv, Calls, CallPcs, Replies, NoCall
<1>4. SweepInv
  BY DEF SweepInv, Sweeps, SweepPcs, Replies, Idle, Delivered
<1>5. dev \in [Attempts -> DevStates] /\ origin \in Nat
  BY DEF DevStates
<1> QED
  BY <1>1, <1>2, <1>3, <1>4, <1>5 DEF SessionInv, Delivered

(* The invariant holds in every reachable state. *)
LEMMA SessionInvariant == Spec => []SessionInv
<1>1. SessionInv /\ [Next]_vars => SessionInv'
  <2> SUFFICES ASSUME SessionInv, [Next]_vars PROVE SessionInv'
    OBVIOUS
  <2>1. CASE UNCHANGED vars
    BY <2>1, DeviceFrame, CallFrame, ConnectorFrame, LocalStep DEF SessionInv, vars, pairings, bound
  <2> QED
    BY <2>1, ConnectKeepsSession, TaskKeepsSession, OthersKeepSession, SweepKeepsSession,
       DeviceKeepsSession DEF Next
<1> QED
  BY <1>1, InitSession, PTL DEF Spec

(* actor.rs: whichever replies come back late, and whoever disconnects,     *)
(* rebinds or pairs meanwhile, the session, the connection and the          *)
(* description of the device belong to one epoch.                           *)
THEOREM SessionConsistent == Spec => []SessionMatchesConnection
<1>1. SessionInv => SessionMatchesConnection
  BY DEF SessionInv, ActorInv
<1> QED
  BY <1>1, SessionInvariant, PTL

(* The steps behind the action property: only the heartbeat loop expires a  *)
(* live connection, and only the reply about an attempt connects it.        *)
LEMMA StatusMoves ==
  ASSUME NEW a, NEW reply, ApplyStatus(a, reply)
  PROVE  /\ conn.state = "connected" => conn' = conn
         /\ conn.state = "pairing" /\ conn'.state = "connected" => conn'.attempt = conn.attempt
<1>1. CASE UNCHANGED actor
  BY <1>1 DEF actor
<1>2. CASE Pairing(a) /\ Allow(a)
  BY <1>2 DEF Pairing, Allow
<1>3. CASE Pairing(a) /\ (Refuse("disconnected") \/ Refuse("expired"))
  BY <1>3 DEF Pairing, Refuse, Off
<1> QED
  BY <1>1, <1>2, <1>3 DEF ApplyStatus

(* apply_heartbeat_result, apply_pairing_status: a 401 that comes back after *)
(* the user has connected again does not end the new connection, and a       *)
(* reply about an earlier attempt does not connect the present one.          *)
THEOREM RepliesFenced == Spec => RepliesKeepToTheirConnection
<1> DEFINE Fenced ==
      /\ conn.state = "connected" /\ conn'.state = "expired" => conn.attempt \notin valid
      /\ conn.state = "pairing" /\ conn'.state = "connected" => conn'.attempt = conn.attempt
<1>1. SessionInv /\ [Next]_vars => [Fenced]_vars
  <2> SUFFICES ASSUME SessionInv, Next PROVE Fenced
    OBVIOUS
  <2>1. ASSUME NEW a, NEW reply, ApplyStatus(a, reply) PROVE Fenced
    BY <2>1, StatusMoves
  <2>2. ASSUME UNCHANGED conn PROVE Fenced
    BY <2>2
  <2>3. ASSUME NEW c \in Connectors, Connect(c) \/ ConnectStep(c) PROVE Fenced
    BY <2>1, <2>2, <2>3
       DEF ConnectStep, Connect, AbortPrevious, TakeTicket, Create, CheckTicket, Install, Activate,
           Spawn, Register, ApplyCreated, actor
  <2>4. ASSUME NEW a \in Attempts, TaskStep(a) PROVE Fenced
    <3>1. ASSUME NEW e, ApplyDeviceInfo(e) \/ DisconnectIfEpoch(e) PROVE Fenced
      BY <3>1 DEF ApplyDeviceInfo, DisconnectIfEpoch, Clear, Off, actor
    <3> QED
      BY <2>1, <2>2, <2>4, <3>1
         DEF TaskStep, Deadline, Head, PollCheck, PollCheckout, PollAnswer, PollApply, Polled,
             NegotiateAsk, NegotiateApply, Negotiated, actor
  <2>5. ASSUME NEW a \in Attempts, Cancel(a) \/ Resolve(a) \/ Lapse(a) PROVE Fenced
    BY <2>2, <2>5 DEF Cancel, Resolve, Lapse, actor
  <2>6. CASE CancelStep
    BY <2>1, <2>2, <2>6 DEF CancelStep, DeleteAnswer, CancelClear, CancelAbort, CancelApply, actor
  <2>7. CASE Disconnect \/ DisconnectStep \/ RebindBump \/ RebindClear
    BY <2>7 DEF Disconnect, DisconnectStep, DisconnectAbort, DisconnectBind, DisconnectBump,
                DisconnectCheckout, DisconnectClear, DisconnectRevoke, RebindBump, RebindClear,
                Clear, Off, actor
  <2>8. CASE SweepStep
    <3>1. CASE SweepApply
      <4>1. ASSUME Connected(sw.held.epoch), sw.reply = "unauthorized" PROVE conn.attempt \notin valid
        <5>1. sw.held.attempt \notin valid /\ sw.held # NoSession
          BY <3>1, <4>1 DEF SweepApply, SessionInv, SweepInv
        <5>2. session = [attempt |-> conn.attempt, epoch |-> conn.epoch] /\ conn.epoch # 0
          BY <4>1 DEF Connected, SessionInv, ActorInv, SessionMatchesConnection
        <5>3. sw.held = session
          BY <4>1, <5>2 DEF Connected, SessionInv, SweepInv, NoSession
        <5> QED
          BY <5>1, <5>2, <5>3
      <4> QED
        BY <3>1, <4>1 DEF SweepApply, ApplyHeartbeat, Connected, Refuse, Off, actor
    <3>2. CASE SweepInstall
      BY <3>2 DEF SweepInstall, ApplyDeviceInfo, actor
    <3> QED
      BY <2>2, <2>8, <3>1, <3>2
         DEF SweepStep, SweepSnapshot, SweepCheckout, SweepAsk, SweepRefresh, SweepGet, actor
  <2> QED
    BY <2>3, <2>4, <2>5, <2>6, <2>7, <2>8 DEF Next
<1> QED
  BY <1>1, SessionInvariant, PTL DEF Spec, RepliesKeepToTheirConnection
=============================================================================
