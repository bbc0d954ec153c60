---------------------------- MODULE DeviceSession ----------------------------
(* The connection of one device: the actor behind its handle, the threads    *)
(* that pair, cancel, disconnect, sweep heartbeats and rebind the endpoint,  *)
(* and the device that answers them. No lock is held while a request is out, *)
(* so every reply may come back to another connection than it was meant for. *)
(* Devices share no state: one stands for all.                               *)
EXTENDS Integers, FiniteSets

CONSTANTS
    Connectors,     \* threads that run connect_device
    MaxAttempts,    \* pairing attempts the device can create
    Profiles,       \* API profiles of the device: "v4", "legacy"
    Budgets         \* bounds: commands, failing calls, sessions the device forgets

ASSUME DeviceAssumption ==
    /\ "nobody" \notin Connectors
    /\ MaxAttempts \in Nat
    /\ Profiles \subseteq {"v4", "legacy"}
    /\ Budgets \subseteq [connects : Nat, cancels : Nat, disconnects : Nat,
                          rebinds : Nat, faults : Nat, lapses : Nat]

Attempts == 1 .. MaxAttempts
Epochs == 0 .. MaxAttempts

VARIABLES
    conn,       \* the actor's connection: state, attempt, epoch
    session,    \* its authenticated session: the attempt that got the token, epoch
    info,       \* epoch whose negotiated device info is installed, 0 for none
    epochs,     \* connections made so far (next_epoch)
    ticket,     \* connector with the latest pairing generation, or nobody
    active,     \* the entry of active_pairings, 0 for none
    task,       \* the entry of pairing_tasks, 0 for none
    stage,      \* attempt -> where its run_pairing task awaits
    call,       \* attempt -> the blocking call its task started
    late,       \* attempts whose deadline has passed
    from,       \* attempt -> generation of the endpoint its client talks to
    cn,         \* connector -> where it is
    ca, di, sw, \* cancel_pairing, disconnect_device, the one heartbeat loop
    rebinding,  \* register_endpoint is between its two steps
    origin,     \* generation of the endpoint that is bound
    dev,        \* attempt -> its state at the device
    valid,      \* attempts whose token the device accepts
    profile,    \* the API profile
    budget      \* what is left of the bounds

actor == <<conn, session, info, epochs>>
pairings == <<active, task, stage, call, late, from>>
bound == <<rebinding, origin>>
device == <<dev, valid, profile>>
vars == <<actor, ticket, pairings, cn, ca, di, sw, bound, device, budget>>

Off(state) == [state |-> state, attempt |-> 0, epoch |-> 0]
NoSession == [attempt |-> 0, epoch |-> 0]
NoCall == [pc |-> "none", on |-> 0, epoch |-> 0, reply |-> "none"]
IdleConnector == [pc |-> "idle", attempt |-> 0, origin |-> 0]
Idle == [pc |-> "idle", client |-> NoSession, held |-> NoSession, reply |-> "none"]

TypeOK ==
    /\ conn \in [state : {"disconnected", "pairing", "connected", "expired"},
                 attempt : 0 .. MaxAttempts, epoch : Epochs]
    /\ session \in [attempt : 0 .. MaxAttempts, epoch : Epochs]
    /\ info \in Epochs /\ epochs \in Epochs
    /\ ticket \in Connectors \cup {"nobody"}
    /\ active \in 0 .. MaxAttempts /\ task \in 0 .. MaxAttempts
    /\ stage \in [Attempts -> {"off", "head", "polling", "negotiating"}]
    /\ \A a \in Attempts : call[a].pc \in {"none", "check", "checkout", "asked", "answered",
                                           "done", "negotiate", "replied"}
    /\ late \subseteq Attempts /\ from \in [Attempts -> Nat]
    /\ \A c \in Connectors :
          /\ cn[c].pc \in {"idle", "abort", "ticket", "create", "check", "install",
                           "activate", "spawn", "register"}
          /\ cn[c].attempt \in 0 .. MaxAttempts
    /\ ca.pc \in {"idle", "delete", "clear", "abort", "apply"} /\ ca.attempt \in 0 .. MaxAttempts
    /\ di.pc \in {"idle", "abort", "bind", "bump", "checkout", "clear", "revoke"}
    /\ sw.pc \in {"idle", "checkout", "ask", "apply", "refresh", "get", "install"}
    /\ rebinding \in BOOLEAN /\ origin \in Nat
    /\ dev \in [Attempts -> {"none", "pending", "allowed", "delivered",
                             "rejected", "expired", "cancelled"}]
    /\ valid \subseteq Attempts /\ profile \in Profiles

Init ==
    /\ conn = Off("disconnected") /\ session = NoSession /\ info = 0 /\ epochs = 0
    /\ ticket = "nobody"
    /\ active = 0 /\ task = 0 /\ late = {}
    /\ stage = [a \in Attempts |-> "off"] /\ call = [a \in Attempts |-> NoCall]
    /\ from = [a \in Attempts |-> 0]
    /\ cn = [c \in Connectors |-> IdleConnector]
    /\ ca = [pc |-> "idle", attempt |-> 0]
    /\ di = Idle /\ sw = Idle
    /\ rebinding = FALSE /\ origin = 0
    /\ dev = [a \in Attempts |-> "none"] /\ valid = {}
    /\ profile \in Profiles /\ budget \in Budgets

Spend(what) == budget[what] > 0 /\ budget' = [budget EXCEPT ![what] = @ - 1]
Fault == Spend("faults")
Legacy == profile = "legacy"

Pairing(a) == conn.state = "pairing" /\ conn.attempt = a
Connected(e) == conn.state = "connected" /\ conn.epoch = e

-----------------------------------------------------------------------------
(* The actor, under the lock of its handle.                                  *)

(* clear_connection_state. *)
Clear == conn' = Off("disconnected") /\ session' = NoSession /\ info' = 0 /\ UNCHANGED epochs

(* apply_pairing_created. *)
ApplyCreated(a) ==
    /\ conn' = [state |-> "pairing", attempt |-> a, epoch |-> 0]
    /\ session' = NoSession /\ info' = 0 /\ UNCHANGED epochs

(* What the actor does with a pairing status, by its phase. *)
Allow(a) ==
    /\ epochs' = epochs + 1
    /\ conn' = [state |-> "connected", attempt |-> a, epoch |-> epochs + 1]
    /\ session' = [attempt |-> a, epoch |-> epochs + 1]
    /\ UNCHANGED info
Refuse(state) == conn' = Off(state) /\ session' = NoSession /\ info' = 0 /\ UNCHANGED epochs

(* apply_pairing_status: a reply about another attempt is dropped. *)
ApplyStatus(a, reply) ==
    IF ~Pairing(a) THEN UNCHANGED actor
    ELSE CASE reply = "token" -> Allow(a)
           [] reply \in {"malformed", "rejected"} -> Refuse("disconnected")
           [] reply = "expired" -> Refuse("expired")
           [] OTHER -> UNCHANGED actor

(* Mutant: the reply is applied to any connection. *)
ApplyHeartbeatAnyEpoch(e, reply) ==
    IF conn.state = "connected" /\ reply = "unauthorized"
    THEN Refuse("expired") ELSE UNCHANGED actor

(* apply_heartbeat, apply_heartbeat_result: only an explicit 401 ends the    *)
(* connection the heartbeat was sent for. The attempt number of the ticket   *)
(* separates nothing here: the one loop waits for its own reply.             *)
ApplyHeartbeat(e, reply) ==
    IF Connected(e) /\ reply = "unauthorized"
    THEN Refuse("expired") ELSE UNCHANGED actor

(* Mutant: no fence. *)
ApplyDeviceInfoAnyEpoch(e) == info' = e /\ UNCHANGED <<conn, session, epochs>>

(* apply_device_info, fenced by the epoch of the request. *)
ApplyDeviceInfo(e) ==
    IF Connected(e) THEN info' = e /\ UNCHANGED <<conn, session, epochs>>
    ELSE UNCHANGED actor

(* disconnect_local_if_epoch, which also moves the pairing generation on. *)
DisconnectIfEpoch(e) ==
    IF Connected(e) THEN Clear /\ ticket' = "nobody" ELSE UNCHANGED <<actor, ticket>>

-----------------------------------------------------------------------------
(* connect_device.                                                           *)
Go(c, pc) == cn' = [cn EXCEPT ![c].pc = pc]
Return(c) == cn' = [cn EXCEPT ![c] = IdleConnector]

(* The binding is resolved; a connected device is left alone. *)
Connect(c) ==
    /\ cn[c].pc = "idle" /\ conn.state # "connected" /\ ~rebinding
    /\ Spend("connects")
    /\ cn' = [cn EXCEPT ![c] = [pc |-> "abort", attempt |-> 0, origin |-> origin]]
    /\ UNCHANGED <<actor, ticket, pairings, ca, di, sw, bound, device>>

(* An aborted task stops where it awaits; the blocking call it waits for     *)
(* goes on and is applied. *)
AbortTask ==
    /\ task' = 0
    /\ stage' = [a \in Attempts |-> IF a = task THEN "off" ELSE stage[a]]
    /\ call' = [a \in Attempts |-> IF a = task /\ call[a].pc = "done" THEN NoCall ELSE call[a]]
    /\ late' = late \ {task}
    /\ UNCHANGED <<active, from>>

AbortPrevious(c) ==
    /\ cn[c].pc = "abort" /\ AbortTask /\ Go(c, "ticket")
    /\ UNCHANGED <<actor, ticket, ca, di, sw, bound, device, budget>>

TakeTicket(c) ==
    /\ cn[c].pc = "ticket" /\ ticket' = c /\ Go(c, "create")
    /\ UNCHANGED <<actor, pairings, ca, di, sw, bound, device, budget>>

(* A v4 device takes no part in pairing: its client allows every attempt.    *)
Create(c) ==
    /\ cn[c].pc = "create"
    /\ \/ \E a \in Attempts :
             /\ dev[a] = "none" /\ \A b \in 1 .. (a - 1) : dev[b] # "none"
             /\ dev' = [dev EXCEPT ![a] = IF Legacy THEN "pending" ELSE "allowed"]
             /\ from' = [from EXCEPT ![a] = cn[c].origin]
             /\ cn' = [cn EXCEPT ![c].pc = "check", ![c].attempt = a]
             /\ UNCHANGED budget
       \/ Legacy /\ Fault /\ Return(c) /\ UNCHANGED <<dev, from>>
    /\ UNCHANGED <<actor, ticket, active, task, stage, call, late, ca, di, sw, bound, valid,
                   profile>>

CheckTicket(c) ==
    /\ cn[c].pc = "check"
    /\ IF ticket = c THEN Go(c, "install") ELSE Return(c)
    /\ UNCHANGED <<actor, ticket, pairings, ca, di, sw, bound, device, budget>>

Install(c) ==
    /\ cn[c].pc = "install" /\ ApplyCreated(cn[c].attempt) /\ Go(c, "activate")
    /\ UNCHANGED <<ticket, pairings, ca, di, sw, bound, device, budget>>

(* An attempt without a usable deadline is given up at the device and here.  *)
Activate(c) ==
    LET a == cn[c].attempt IN
    /\ cn[c].pc = "activate"
    /\ \/ active' = a /\ Go(c, "spawn") /\ UNCHANGED <<actor, dev, budget>>
       \/ /\ Legacy /\ Fault /\ ApplyStatus(a, "expired") /\ Return(c)
          /\ dev' = [dev EXCEPT ![a] = IF @ = "pending" THEN "cancelled" ELSE @]
          /\ UNCHANGED active
    /\ UNCHANGED <<ticket, task, stage, call, late, from, ca, di, sw, bound, valid, profile>>

Spawn(c) ==
    /\ cn[c].pc = "spawn" /\ Go(c, "register")
    /\ stage' = [stage EXCEPT ![cn[c].attempt] = "head"]
    /\ UNCHANGED <<actor, ticket, active, task, call, late, from, ca, di, sw, bound, device,
                   budget>>

(* The earlier entry, if there is one, is dropped and its task runs on. *)
Register(c) ==
    /\ cn[c].pc = "register" /\ task' = cn[c].attempt /\ Return(c)
    /\ UNCHANGED <<actor, ticket, active, stage, call, late, from, ca, di, sw, bound, device,
                   budget>>

-----------------------------------------------------------------------------
(* run_pairing: one step from an await to the next.                          *)
Await(a, where) == stage' = [stage EXCEPT ![a] = where]

(* The task ends, and with it the entry that names it. *)
EndTask(a) ==
    /\ Await(a, "off") /\ call' = [call EXCEPT ![a] = NoCall] /\ late' = late \ {a}
    /\ active' = IF active = a THEN 0 ELSE active

(* The deadline is absolute and passes; that of a v4 attempt is out of reach. *)
Deadline(a) ==
    /\ Legacy /\ stage[a] # "off" /\ a \notin late /\ late' = late \cup {a}
    /\ UNCHANGED <<actor, ticket, active, task, stage, call, from, cn, ca, di, sw, bound,
                   device, budget>>

(* Mutant: past the deadline the task goes on polling. *)
HeadWaits(a) ==
    /\ stage[a] = "head" /\ ~rebinding
    /\ LET live == active = a /\ conn.state = "pairing" IN
       \/ ~live /\ EndTask(a)
       \/ /\ live /\ Await(a, "polling")
          /\ call' = [call EXCEPT ![a] = [NoCall EXCEPT !.pc = "check"]]
          /\ UNCHANGED <<active, late>>
    /\ UNCHANGED <<actor, ticket, task, from, cn, ca, di, sw, bound, device, budget>>

Head(a) ==
    /\ stage[a] = "head" /\ ~rebinding
    /\ LET live == active = a /\ conn.state = "pairing" IN
       \/ ~live /\ EndTask(a) /\ UNCHANGED actor
       \/ live /\ a \in late /\ EndTask(a) /\ ApplyStatus(a, "expired")
       \/ /\ live /\ a \notin late /\ Await(a, "polling")
          /\ call' = [call EXCEPT ![a] = [NoCall EXCEPT !.pc = "check"]]
          /\ UNCHANGED <<actor, active, late>>
    /\ UNCHANGED <<ticket, task, from, cn, ca, di, sw, bound, device, budget>>

(* The blocking poll: look, check out what is being paired now, ask, apply.  *)
Reply(a, pc, reply) == call' = [call EXCEPT ![a].pc = pc, ![a].reply = reply]

(* The result, with the epoch of a connection, for the task if it still waits. *)
Done(a, reply) ==
    call' = [call EXCEPT ![a] =
        IF stage[a] = "off" THEN NoCall
        ELSE [NoCall EXCEPT !.pc = "done", !.reply = reply,
                            !.epoch = IF reply = "token" THEN epochs' ELSE 0]]

PollCheck(a) ==
    /\ call[a].pc = "check"
    /\ IF Pairing(a) THEN Reply(a, "checkout", "none") ELSE Done(a, "stale")
    /\ UNCHANGED <<actor, ticket, active, task, stage, late, from, cn, ca, di, sw, bound,
                   device, budget>>

PollCheckout(a) ==
    /\ call[a].pc = "checkout"
    /\ IF conn.state = "pairing"
       THEN call' = [call EXCEPT ![a].pc = "asked", ![a].on = conn.attempt]
       ELSE Done(a, "stale")
    /\ UNCHANGED <<actor, ticket, active, task, stage, late, from, cn, ca, di, sw, bound,
                   device, budget>>

(* A legacy device hands a token out once, whether or not the answer arrives. *)
StatusOf(d) ==
    CASE d = "allowed" -> "token" [] d = "delivered" -> "malformed"
      [] d = "cancelled" -> "rejected" [] OTHER -> d

PollAnswer(a) ==
    /\ call[a].pc = "asked"
    /\ LET d == dev[call[a].on] IN
       /\ dev' = [dev EXCEPT ![call[a].on] =
                     IF d = "allowed" /\ Legacy THEN "delivered" ELSE d]
       /\ valid' = IF d = "allowed" THEN valid \cup {call[a].on} ELSE valid
       /\ \/ Reply(a, "answered", StatusOf(d)) /\ UNCHANGED budget
          \/ Legacy /\ Fault /\ Reply(a, "answered", "error")
    /\ UNCHANGED <<actor, ticket, active, task, stage, late, from, cn, ca, di, sw, bound, profile>>

PollApply(a) ==
    /\ call[a].pc = "answered"
    /\ ApplyStatus(call[a].on, call[a].reply)
    /\ Done(a, IF ~Pairing(call[a].on) THEN "stale"
               ELSE IF call[a].reply = "malformed" THEN "error" ELSE call[a].reply)
    /\ UNCHANGED <<ticket, active, task, stage, late, from, cn, ca, di, sw, bound, device, budget>>

(* A connection over an endpoint that is no longer bound is reported as      *)
(* failed; one of a v4 device is negotiated before it is reported.           *)
Polled(a) ==
    /\ stage[a] = "polling" /\ call[a].pc = "done" /\ ~rebinding
    /\ LET got == call[a].reply
           again == active = a /\ got \in {"pending", "error"}
           negotiate == active = a /\ got = "token" /\ origin = from[a] /\ ~Legacy
       IN  \/ again /\ Await(a, "head") /\ UNCHANGED <<active, call, late>>
           \/ negotiate /\ Await(a, "negotiating") /\ Reply(a, "negotiate", "none")
              /\ UNCHANGED <<active, late>>
           \/ ~again /\ ~negotiate /\ EndTask(a)
    /\ UNCHANGED <<actor, ticket, task, from, cn, ca, di, sw, bound, device, budget>>

(* negotiate_lab_v4_connection_once: a request of an earlier epoch is not    *)
(* sent; a failing one takes down the epoch it was sent for.                 *)
NegotiateAsk(a) ==
    /\ call[a].pc = "negotiate"
    /\ \/ session.epoch # call[a].epoch /\ Done(a, "stale") /\ UNCHANGED budget
       \/ session.epoch = call[a].epoch /\ Reply(a, "replied", "ok") /\ UNCHANGED budget
       \/ session.epoch = call[a].epoch /\ Fault /\ Reply(a, "replied", "error")
    /\ UNCHANGED <<actor, ticket, active, task, stage, late, from, cn, ca, di, sw, bound, device>>

NegotiateApply(a) ==
    /\ call[a].pc = "replied" /\ Done(a, call[a].reply)
    /\ IF call[a].reply = "ok" THEN ApplyDeviceInfo(call[a].epoch) /\ UNCHANGED ticket
       ELSE DisconnectIfEpoch(call[a].epoch)
    /\ UNCHANGED <<active, task, stage, late, from, cn, ca, di, sw, bound, device, budget>>

(* Whatever the negotiation gave, the attempt is over. *)
Negotiated(a) ==
    /\ stage[a] = "negotiating" /\ call[a].pc = "done" /\ EndTask(a)
    /\ UNCHANGED <<actor, ticket, task, from, cn, ca, di, sw, bound, device, budget>>

-----------------------------------------------------------------------------
(* cancel_pairing.                                                           *)
Cancel(a) ==
    /\ ca.pc = "idle" /\ active = a /\ ~rebinding /\ Spend("cancels")
    /\ ca' = [pc |-> "delete", attempt |-> a]
    /\ UNCHANGED <<actor, ticket, pairings, cn, di, sw, bound, device>>

(* A legacy device refuses to cancel an attempt that is resolved. *)
DeleteAnswer ==
    /\ ca.pc = "delete"
    /\ LET open == dev[ca.attempt] = "pending" IN
       \/ /\ open \/ ~Legacy
          /\ dev' = [dev EXCEPT ![ca.attempt] = IF open THEN "cancelled" ELSE @]
          /\ ca' = [ca EXCEPT !.pc = "clear"] /\ UNCHANGED budget
       \/ ~open /\ Legacy /\ ca' = [ca EXCEPT !.pc = "idle"] /\ UNCHANGED <<dev, budget>>
       \/ Legacy /\ Fault /\ ca' = [ca EXCEPT !.pc = "idle"] /\ UNCHANGED dev
    /\ UNCHANGED <<actor, ticket, pairings, cn, di, sw, bound, valid, profile>>

CancelClear ==
    /\ ca.pc = "clear" /\ ca' = [ca EXCEPT !.pc = "abort"]
    /\ active' = IF active = ca.attempt THEN 0 ELSE active
    /\ UNCHANGED <<actor, ticket, task, stage, call, late, from, cn, di, sw, bound, device, budget>>

(* The task of the device is aborted, whichever attempt it polls. *)
CancelAbort ==
    /\ ca.pc = "abort" /\ AbortTask /\ ca' = [ca EXCEPT !.pc = "apply"]
    /\ UNCHANGED <<actor, ticket, cn, di, sw, bound, device, budget>>

CancelApply ==
    /\ ca.pc = "apply" /\ ApplyStatus(ca.attempt, "rejected") /\ ca' = [ca EXCEPT !.pc = "idle"]
    /\ UNCHANGED <<ticket, pairings, cn, di, sw, bound, device, budget>>

-----------------------------------------------------------------------------
(* disconnect_device: with a session it is checked out, cleared and revoked; *)
(* without one the local half is all there is.                               *)
Disconnect ==
    /\ di.pc = "idle" /\ ~rebinding /\ Spend("disconnects") /\ di' = [di EXCEPT !.pc = "abort"]
    /\ UNCHANGED <<actor, ticket, pairings, cn, ca, sw, bound, device>>

DisconnectAbort ==
    /\ di.pc = "abort" /\ AbortTask /\ di' = [di EXCEPT !.pc = "bind"]
    /\ UNCHANGED <<actor, ticket, cn, ca, sw, bound, device, budget>>

DisconnectBind ==
    /\ di.pc = "bind" /\ di' = [di EXCEPT !.pc = "bump", !.client = session]
    /\ UNCHANGED <<actor, ticket, pairings, cn, ca, sw, bound, device, budget>>

DisconnectBump ==
    /\ di.pc = "bump" /\ ticket' = "nobody"
    /\ di' = [di EXCEPT !.pc = IF di.client = NoSession THEN "clear" ELSE "checkout"]
    /\ UNCHANGED <<actor, pairings, cn, ca, sw, bound, device, budget>>

DisconnectCheckout ==
    /\ di.pc = "checkout" /\ di' = [di EXCEPT !.pc = "clear", !.held = session]
    /\ UNCHANGED <<actor, ticket, pairings, cn, ca, sw, bound, device, budget>>

DisconnectClear ==
    /\ di.pc = "clear" /\ Clear
    /\ di' = IF di.held = NoSession THEN Idle ELSE [di EXCEPT !.pc = "revoke"]
    /\ UNCHANGED <<ticket, pairings, cn, ca, sw, bound, device, budget>>

(* Best effort: the client sends only its own session, and a v4 device keeps *)
(* none.                                                                     *)
DisconnectRevoke ==
    /\ di.pc = "revoke" /\ di' = Idle
    /\ \/ /\ valid' = IF Legacy /\ di.held = di.client THEN valid \ {di.held.attempt} ELSE valid
          /\ UNCHANGED budget
       \/ Legacy /\ Fault /\ UNCHANGED valid
    /\ UNCHANGED <<actor, ticket, pairings, cn, ca, sw, bound, dev, profile>>

-----------------------------------------------------------------------------
(* The heartbeat loop, over devices without an active pairing.               *)
At(pc) == sw' = [sw EXCEPT !.pc = pc]

SweepSnapshot ==
    /\ sw.pc = "idle" /\ active = 0 /\ ~rebinding /\ At("checkout")
    /\ UNCHANGED <<actor, ticket, pairings, cn, ca, di, bound, device, budget>>

(* The client is bound to the session and the session checked out in one     *)
(* step: had it changed in between, the client would refuse it unsent.       *)
SweepCheckout ==
    /\ sw.pc = "checkout"
    /\ sw' = IF session = NoSession THEN Idle
             ELSE [sw EXCEPT !.pc = "ask", !.client = session, !.held = session]
    /\ UNCHANGED <<actor, ticket, pairings, cn, ca, di, bound, device, budget>>

(* The client refuses another session than its own before it is sent. *)
Answer(held) ==
    CASE held # sw.client -> "error"
      [] held = sw.client /\ Legacy /\ held.attempt \notin valid -> "unauthorized"
      [] OTHER -> "ok"

SweepAsk ==
    /\ sw.pc = "ask"
    /\ \/ sw' = [sw EXCEPT !.pc = "apply", !.reply = Answer(sw.held)] /\ UNCHANGED budget
       \/ Fault /\ sw' = [sw EXCEPT !.pc = "apply", !.reply = "error"]
    /\ UNCHANGED <<actor, ticket, pairings, cn, ca, di, bound, device>>

SweepApply ==
    /\ sw.pc = "apply" /\ ApplyHeartbeat(sw.held.epoch, sw.reply)
    /\ sw' = IF Legacy THEN [sw EXCEPT !.pc = "refresh"] ELSE Idle
    /\ UNCHANGED <<ticket, pairings, cn, ca, di, bound, device, budget>>

(* A legacy device is also asked for its description. *)
SweepRefresh ==
    /\ sw.pc = "refresh"
    /\ sw' = IF session = NoSession THEN Idle ELSE [sw EXCEPT !.pc = "get", !.held = session]
    /\ UNCHANGED <<actor, ticket, pairings, cn, ca, di, bound, device, budget>>

SweepGet ==
    /\ sw.pc = "get"
    /\ \/ Answer(sw.held) = "ok" /\ At("install") /\ UNCHANGED budget
       \/ Answer(sw.held) # "ok" /\ sw' = Idle /\ UNCHANGED budget
       \/ Fault /\ sw' = Idle
    /\ UNCHANGED <<actor, ticket, pairings, cn, ca, di, bound, device>>

SweepInstall ==
    /\ sw.pc = "install" /\ ApplyDeviceInfo(sw.held.epoch) /\ sw' = Idle
    /\ UNCHANGED <<ticket, pairings, cn, ca, di, bound, device, budget>>

-----------------------------------------------------------------------------
(* register_endpoint with another origin: disconnect_local, then the new     *)
(* binding, under the lock of the registry.                                  *)
RebindBump ==
    /\ ~rebinding /\ Spend("rebinds") /\ rebinding' = TRUE /\ ticket' = "nobody"
    /\ UNCHANGED <<actor, pairings, cn, ca, di, sw, origin, device>>

RebindClear ==
    /\ rebinding /\ Clear /\ rebinding' = FALSE /\ origin' = origin + 1
    /\ UNCHANGED <<ticket, pairings, cn, ca, di, sw, device, budget>>

(* The device: its operator has resolved an attempt by the time a request    *)
(* asks for it (nothing else sees when), a session lapses.                   *)
Resolve(a) ==
    /\ dev[a] = "pending"
    /\ \/ \E b \in Attempts : call[b].pc = "asked" /\ call[b].on = a
       \/ ca.pc = "delete" /\ ca.attempt = a
    /\ \E how \in {"allowed", "rejected", "expired"} : dev' = [dev EXCEPT ![a] = how]
    /\ UNCHANGED <<actor, ticket, pairings, cn, ca, di, sw, bound, valid, profile, budget>>

Lapse(a) ==
    /\ Legacy /\ a \in valid /\ Spend("lapses") /\ valid' = valid \ {a}
    /\ UNCHANGED <<actor, ticket, pairings, cn, ca, di, sw, bound, dev, profile>>

-----------------------------------------------------------------------------
ConnectStep(c) ==
    \/ AbortPrevious(c) \/ TakeTicket(c) \/ Create(c) \/ CheckTicket(c) \/ Install(c)
    \/ Activate(c) \/ Spawn(c) \/ Register(c)
TaskStep(a) ==
    \/ Deadline(a) \/ Head(a) \/ PollCheck(a) \/ PollCheckout(a) \/ PollAnswer(a) \/ PollApply(a)
    \/ Polled(a) \/ NegotiateAsk(a) \/ NegotiateApply(a) \/ Negotiated(a)
CancelStep == DeleteAnswer \/ CancelClear \/ CancelAbort \/ CancelApply
DisconnectStep ==
    \/ DisconnectAbort \/ DisconnectBind \/ DisconnectBump \/ DisconnectCheckout
    \/ DisconnectClear \/ DisconnectRevoke
SweepStep ==
    \/ SweepSnapshot \/ SweepCheckout \/ SweepAsk \/ SweepApply
    \/ SweepRefresh \/ SweepGet \/ SweepInstall

Next ==
    \/ \E c \in Connectors : Connect(c) \/ ConnectStep(c)
    \/ \E a \in Attempts : TaskStep(a) \/ Cancel(a) \/ Resolve(a) \/ Lapse(a)
    \/ CancelStep \/ Disconnect \/ DisconnectStep \/ SweepStep
    \/ RebindBump \/ RebindClear

Spec == Init /\ [][Next]_vars

(* Threads run, the runtime schedules tasks, every request has a timeout and *)
(* time passes. Nothing is assumed of the user or of the device's operator.  *)
FairSpec ==
    /\ Spec
    /\ \A c \in Connectors : WF_vars(ConnectStep(c))
    /\ \A a \in Attempts :
          /\ WF_vars(Deadline(a))
          /\ WF_vars(Head(a) \/ Polled(a) \/ Negotiated(a))
          /\ WF_vars(PollCheck(a) \/ PollCheckout(a) \/ PollAnswer(a) \/ PollApply(a)
                      \/ NegotiateAsk(a) \/ NegotiateApply(a))
    /\ WF_vars(CancelStep) /\ WF_vars(DisconnectStep) /\ WF_vars(RebindClear)

-----------------------------------------------------------------------------
(* The session, the connection and the negotiated description always belong  *)
(* together: a session is held exactly while the device counts as connected, *)
(* of the same attempt and epoch, and no description outlives its epoch      *)
(* (actor.rs, fleet.rs: every reply is fenced when it comes back).           *)
SessionMatchesConnection ==
    /\ IF conn.state = "connected"
       THEN session = [attempt |-> conn.attempt, epoch |-> conn.epoch]
       ELSE session = NoSession
    /\ info # 0 => Connected(info)

(* A reply changes only the connection it was asked for: a live connection   *)
(* is declared expired only when the device has dropped its own token, and   *)
(* an attempt turns into a connection only with the token of that attempt    *)
(* (apply_heartbeat_result, apply_pairing_status).                           *)
RepliesKeepToTheirConnection ==
    [][/\ conn.state = "connected" /\ conn'.state = "expired" => conn.attempt \notin valid
       /\ conn.state = "pairing" /\ conn'.state = "connected" => conn'.attempt = conn.attempt]_vars

(* Whatever the device and its operator do, a pairing attempt does not stay  *)
(* pending: it connects, is refused, expires or is given up (run_pairing's   *)
(* deadline, cancel_pairing, disconnect_device).  So it is where a second    *)
(* attempt has neither a cancellation nor a failing call beside it, as in    *)
(* the budgets of MCBudgets; with either the code leaves an attempt pending  *)
(* for ever (MCLateCancel.cfg, MCFailedRetry.cfg).                           *)
PairingEnds == conn.state = "pairing" ~> conn.state # "pairing"
=============================================================================
