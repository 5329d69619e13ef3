---------------------------- MODULE Connections ----------------------------
(***************************************************************************)
(* What the backend keeps for the sockets of one user: the presence key and *)
(* the heartbeats that renew it (PresenceService, LocationGateway), and the *)
(* owners the user has stopped viewing, in Redis with a copy in every pod   *)
(* (StopViewingService).  Both live from handleConnection to                *)
(* handleDisconnect, whose awaits overlap: a user has several tabs, on any  *)
(* of several pods, and a tab may close while its connection is still being *)
(* accepted.  Keys carry the user's id, so users do not meet here.          *)
(***************************************************************************)
EXTENDS Naturals, Sequences, FiniteSets

CONSTANTS
  Sockets,                      \* connections, each used once
  Pods,                         \* backend processes
  Owners,                       \* friends whose location can be stopped
  NoOne,                        \* in a command or question that names nobody
  MaxCalls,                     \* bound: viewing:stop and viewing:start events
  MaxFaults                     \* bound: pods that die and commands that fail

ASSUME ConnectionsAssumption ==
  /\ NoOne \notin Owners \cup Sockets \cup Pods
  /\ MaxCalls \in Nat /\ MaxFaults \in Nat

VARIABLES
  home,                         \* [Sockets -> the pod it is balanced to]
  link,                         \* [Sockets -> the connection itself]
  accept,                       \* [Sockets -> where handleConnection is]
  leave,                        \* [Sockets -> where handleDisconnect is]
  interval,                     \* sockets whose heartbeat timer runs
  due,                          \* timers that fire before time goes on
  beat,                         \* [Sockets -> where its heartbeat() is]
  pipe,                         \* [Pods -> commands sent to Redis, in order]
  presence,                     \* Redis: intervals left to the key, 0 = no key
  stops,                        \* Redis: the set of stopped owners
  local,                        \* [Pods -> its copy of that set]
  ask,                          \* one isViewingStopped of some broadcast
  calls, faults,                \* counters for the bounds
  wiped,                        \* history: a markOffline, or a failure, since the
                                \* timers fired
  overtaken,                    \* history: sockets closed before their
                                \* handleConnection had ended
  promise,                      \* history: the owners stopped, by the calls and
                                \* disconnects in the order the backend got them
  blurred                       \* history: two pods' commands crossed, or one
                                \* was lost, so that this order means little

presenceVars == <<link, accept, leave, interval, due, beat, presence, wiped, overtaken>>
stopVars == <<stops, local, ask, promise, blurred>>
countVars == <<calls, faults>>
connVars == <<home, presenceVars, pipe, stopVars, countVars>>

\* PRESENCE_TTL_SECONDS in units of PRESENCE_HEARTBEAT_INTERVAL_MS.
PresenceTtl == 2

Command(op, s, o) == [op |-> op, sock |-> s, owner |-> o]
SetOps == {"sadd", "srem", "clear"}
KeyOps == {"online", "revive", "offline", "get", "expire"}
Ops == SetOps \cup KeyOps \cup {"sismember"}

IdleAsk == [pc |-> "idle", pod |-> NoOne, owner |-> NoOne,
            promised |-> FALSE, alone |-> FALSE, value |-> FALSE]

ConnTypeOK ==
  /\ home \in [Sockets -> Pods]
  /\ link \in [Sockets -> {"new", "up", "down"}]
  /\ accept \in [Sockets -> {"idle", "authenticate", "online", "marked", "done"}]
  /\ leave \in [Sockets -> {"idle", "clear", "cleared", "done"}]
  /\ interval \subseteq Sockets /\ due \subseteq interval
  /\ beat \in [Sockets -> {"idle", "get", "found", "none"}]
  /\ pipe \in [Pods -> Seq([op : Ops, sock : Sockets \cup {NoOne}, owner : Owners \cup {NoOne}])]
  /\ presence \in 0..PresenceTtl
  /\ stops \subseteq Owners /\ local \in [Pods -> SUBSET Owners]
  /\ ask \in [pc : {"idle", "asked", "answered"}, pod : Pods \cup {NoOne},
              owner : Owners \cup {NoOne}, promised : BOOLEAN, alone : BOOLEAN,
              value : BOOLEAN]
  /\ calls \in 0..MaxCalls /\ faults \in 0..MaxFaults
  /\ wiped \in BOOLEAN /\ overtaken \subseteq Sockets
  /\ promise \subseteq Owners /\ blurred \in BOOLEAN

ConnInit ==
  /\ home \in [Sockets -> Pods]
  /\ link = [s \in Sockets |-> "new"]
  /\ accept = [s \in Sockets |-> "idle"] /\ leave = [s \in Sockets |-> "idle"]
  /\ interval = {} /\ due = {} /\ beat = [s \in Sockets |-> "idle"]
  /\ pipe = [p \in Pods |-> <<>>]
  /\ presence = 0 /\ stops = {} /\ local = [p \in Pods |-> {}]
  /\ ask = IdleAsk
  /\ calls = 0 /\ faults = 0
  /\ wiped = FALSE /\ overtaken = {} /\ promise = {} /\ blurred = FALSE

-----------------------------------------------------------------------------
(* Commands.  Every pod has one connection to Redis, which answers its      *)
(* commands in the order they were sent.                                    *)

Send(s, op, o) == pipe' = [pipe EXCEPT ![home[s]] = Append(@, Command(op, s, o))]

Carries(p, ops) == \E i \in DOMAIN pipe[p] : pipe[p][i].op \in ops
Settled == \A p \in Pods : ~Carries(p, SetOps)
\* A change of the set sent through pod p, while another pod's is on its way.
Crosses(p) == \E q \in Pods \ {p} : Carries(q, SetOps)

\* A question that meets a change of the set may be answered either way.
Disturb == ask' = IF ask.pc = "asked" THEN [ask EXCEPT !.alone = FALSE] ELSE ask

At(f, s, where) == [f EXCEPT ![s] = where]
UserKnown(s) == accept[s] \in {"online", "marked", "done"}

-----------------------------------------------------------------------------
(* handleConnection.                                                        *)

\* extractToken finds a token.
handleConnection(s) ==
  /\ link[s] = "new"
  /\ link' = At(link, s, "up") /\ accept' = At(accept, s, "authenticate")
  /\ UNCHANGED <<home, leave, interval, due, beat, presence, wiped, overtaken, pipe,
                 stopVars, countVars>>

\* It finds none, or authenticate throws: socket.data has no user, so that
\* handleDisconnect has nothing to clean up.
refuseConnection(s) ==
  /\ link[s] = "new" \/ accept[s] = "authenticate"
  /\ link' = At(link, s, "down") /\ accept' = At(accept, s, "done")
  /\ leave' = At(leave, s, "done")
  /\ UNCHANGED <<home, interval, due, beat, presence, wiped, overtaken, pipe,
                 stopVars, countVars>>

\* authenticate returns, also to a socket that has gone: nothing looks.
authenticate(s) ==
  /\ accept[s] = "authenticate"
  /\ accept' = At(accept, s, "online")
  /\ Send(s, "online", NoOne)
  /\ UNCHANGED <<home, link, leave, interval, due, beat, presence, wiped, overtaken,
                 stopVars, countVars>>

startHeartbeat(s) ==
  /\ accept[s] = "marked"
  /\ accept' = At(accept, s, "done")
  /\ interval' = interval \cup {s}
  /\ UNCHANGED <<home, link, leave, due, beat, presence, wiped, overtaken, pipe,
                 stopVars, countVars>>

-----------------------------------------------------------------------------
(* handleDisconnect.                                                        *)

\* clearAllForSession clears what any socket of the user has stopped.
clearAllForSession(s) ==
  /\ local' = [local EXCEPT ![home[s]] = {}]
  /\ promise' = {}
  /\ blurred' = (blurred \/ Crosses(home[s])) /\ Disturb
  /\ Send(s, "clear", NoOne)

\* Mutant: the timer is left in the map.
keepHeartbeat(s) == UNCHANGED <<interval, due>>
\* Mutant: a timer that has come due fires all the same.
stopHeartbeatLate(s) == interval' = interval \ {s} /\ UNCHANGED due
stopHeartbeat(s) == interval' = interval \ {s} /\ due' = due \ {s}

handleDisconnect(s) ==
  /\ link' = At(link, s, "down")
  /\ stopHeartbeat(s)
  /\ IF UserKnown(s)
     THEN leave' = At(leave, s, "clear") /\ clearAllForSession(s)
     ELSE leave' = At(leave, s, "done") /\ UNCHANGED <<local, promise, blurred, ask, pipe>>

close(s) ==
  /\ link[s] = "up"
  /\ handleDisconnect(s)
  /\ overtaken' = IF accept[s] = "done" THEN overtaken ELSE overtaken \cup {s}
  /\ UNCHANGED <<home, accept, beat, presence, wiped, stops, countVars>>

markOffline(s) ==
  /\ leave[s] = "cleared"
  /\ leave' = At(leave, s, "done")
  /\ Send(s, "offline", NoOne)
  /\ UNCHANGED <<home, link, accept, interval, due, beat, presence, wiped, overtaken,
                 stopVars, countVars>>

-----------------------------------------------------------------------------
(* Heartbeats.                                                              *)

\* The key's time to live runs down and every timer comes due.  Redis and the
\* handlers are taken to answer within an interval of 30 seconds.
Quiet ==
  /\ due = {}
  /\ \A p \in Pods : ~Carries(p, KeyOps)
  /\ \A s \in Sockets : /\ accept[s] # "marked" /\ leave[s] # "cleared"
                        /\ beat[s] = "idle"

tick ==
  /\ Quiet
  /\ presence > 0 \/ interval # {}
  /\ presence' = IF presence > 0 THEN presence - 1 ELSE 0
  /\ due' = interval
  /\ wiped' = FALSE
  /\ UNCHANGED <<home, link, accept, leave, interval, beat, overtaken, pipe,
                 stopVars, countVars>>

heartbeat(s) ==
  /\ s \in due
  /\ due' = due \ {s}
  /\ beat' = At(beat, s, "get")
  /\ Send(s, "get", NoOne)
  /\ UNCHANGED <<home, link, accept, leave, interval, presence, wiped, overtaken,
                 stopVars, countVars>>

\* Mutant: a key that is gone is not set again.
renewFound(s) ==
  /\ beat[s] \in {"found", "none"}
  /\ beat' = At(beat, s, "idle")
  /\ Send(s, "expire", NoOne)
  /\ UNCHANGED <<home, link, accept, leave, interval, due, presence, wiped, overtaken,
                 stopVars, countVars>>

\* The answer to GET: renew the key, or set it again.
renew(s) ==
  /\ beat[s] \in {"found", "none"}
  /\ beat' = At(beat, s, "idle")
  /\ Send(s, IF beat[s] = "found" THEN "expire" ELSE "revive", NoOne)
  /\ UNCHANGED <<home, link, accept, leave, interval, due, presence, wiped, overtaken,
                 stopVars, countVars>>

-----------------------------------------------------------------------------
(* viewing:stop and viewing:start, and the question of a broadcast.          *)

HeardFrom(s) == link[s] = "up" /\ UserKnown(s) /\ calls < MaxCalls /\ calls' = calls + 1

\* Mutant: only the local copy remembers the stop.
stopViewingLocally(s, o) ==
  /\ HeardFrom(s)
  /\ local' = [local EXCEPT ![home[s]] = @ \cup {o}]
  /\ promise' = promise \cup {o}
  /\ blurred' = (blurred \/ Crosses(home[s])) /\ Disturb
  /\ UNCHANGED <<home, presenceVars, pipe, stops, faults>>

stopViewing(s, o) ==
  /\ HeardFrom(s)
  /\ local' = [local EXCEPT ![home[s]] = @ \cup {o}]
  /\ promise' = promise \cup {o}
  /\ blurred' = (blurred \/ Crosses(home[s])) /\ Disturb
  /\ Send(s, "sadd", o)
  /\ UNCHANGED <<home, presenceVars, stops, faults>>

\* Mutant: the local copy keeps the owner that is viewed again.
startViewingRemote(s, o) ==
  /\ HeardFrom(s)
  /\ promise' = promise \ {o}
  /\ blurred' = (blurred \/ Crosses(home[s])) /\ Disturb
  /\ Send(s, "srem", o)
  /\ UNCHANGED <<home, presenceVars, stops, local, faults>>

startViewing(s, o) ==
  /\ HeardFrom(s)
  /\ local' = [local EXCEPT ![home[s]] = @ \ {o}]
  /\ promise' = promise \ {o}
  /\ blurred' = (blurred \/ Crosses(home[s])) /\ Disturb
  /\ Send(s, "srem", o)
  /\ UNCHANGED <<home, presenceVars, stops, faults>>

\* A broadcast of owner o that pod p handles: the local copy first, then Redis.
isViewingStopped(p, o) ==
  /\ ask.pc # "asked"
  /\ LET known == o \in local[p] IN
     /\ ask' = [pc |-> IF known THEN "answered" ELSE "asked", pod |-> p, owner |-> o,
                promised |-> o \in promise, alone |-> Settled, value |-> known]
     /\ pipe' = IF known THEN pipe
                ELSE [pipe EXCEPT ![p] =
                        Append(@, Command("sismember", NoOne, o))]
  /\ UNCHANGED <<home, presenceVars, stops, local, promise, blurred, countVars>>

-----------------------------------------------------------------------------
(* Redis.                                                                   *)

SetsKey(op) == op \in {"online", "revive"}
RenewsKey(op) == SetsKey(op) \/ (op = "expire" /\ presence > 0)

Execute(p) ==
  /\ pipe[p] # <<>>
  /\ LET c == Head(pipe[p])
         s == c.sock IN
     /\ presence' = CASE RenewsKey(c.op) -> PresenceTtl
                      [] c.op = "offline" -> 0
                      [] OTHER -> presence
     /\ wiped' = (wiped \/ c.op = "offline")
     /\ stops' = CASE c.op = "sadd" -> stops \cup {c.owner}
                   [] c.op = "srem" -> stops \ {c.owner}
                   [] c.op = "clear" -> {}
                   [] OTHER -> stops
     /\ ask' = IF c.op = "sismember"
               THEN [ask EXCEPT !.pc = "answered", !.value = c.owner \in stops] ELSE ask
     /\ accept' = IF c.op = "online" THEN At(accept, s, "marked") ELSE accept
     /\ leave' = IF c.op = "clear" THEN At(leave, s, "cleared") ELSE leave
     /\ beat' = IF c.op = "get"
                THEN At(beat, s, IF presence > 0 THEN "found" ELSE "none") ELSE beat
  /\ pipe' = [pipe EXCEPT ![p] = Tail(@)]
  /\ UNCHANGED <<home, link, interval, due, overtaken, local, promise, blurred, countVars>>

\* A command is rejected.  A connection that cannot be marked online is closed
\* by the server; after a clear that failed markOffline is not tried.
Reject(p) ==
  /\ pipe[p] # <<>> /\ faults < MaxFaults
  /\ faults' = faults + 1
  /\ LET c == Head(pipe[p])
         s == c.sock
         rest == [pipe EXCEPT ![p] = Tail(@)]
         shut == c.op = "online" /\ link[s] = "up" IN
     /\ accept' = IF c.op = "online" THEN At(accept, s, "done") ELSE accept
     /\ link' = IF shut THEN At(link, s, "down") ELSE link
     /\ leave' = CASE shut -> At(leave, s, "clear")
                   [] c.op = "clear" -> At(leave, s, "done")
                   [] OTHER -> leave
     /\ local' = IF shut THEN [local EXCEPT ![p] = {}] ELSE local
     /\ pipe' = IF shut THEN [rest EXCEPT ![p] = Append(@, Command("clear", s, NoOne))]
                ELSE rest
     /\ promise' = IF shut THEN {} ELSE promise
     /\ blurred' = (blurred \/ c.op \in SetOps \/ (shut /\ Crosses(p)))
     /\ wiped' = (wiped \/ c.op \in KeyOps)
     /\ beat' = IF c.op = "get" THEN At(beat, s, "idle") ELSE beat
     /\ IF c.op = "sismember" THEN ask' = IdleAsk
        ELSE IF shut THEN Disturb ELSE UNCHANGED ask
  /\ UNCHANGED <<home, interval, due, presence, overtaken, stops, calls>>

\* A pod dies: its sockets close without a handler, its timers, its copy and
\* the commands it had not sent are gone.
crash(p) ==
  LET mine == {s \in Sockets : home[s] = p} IN
  /\ faults < MaxFaults /\ faults' = faults + 1
  /\ link' = [s \in Sockets |-> IF s \in mine /\ link[s] = "up" THEN "down" ELSE link[s]]
  /\ accept' = [s \in Sockets |->
       IF s \in mine /\ accept[s] # "idle" THEN "done" ELSE accept[s]]
  /\ leave' = [s \in Sockets |->
       IF s \in mine /\ link[s] # "new" THEN "done" ELSE leave[s]]
  /\ interval' = interval \ mine /\ due' = due \ mine
  /\ beat' = [s \in Sockets |-> IF s \in mine THEN "idle" ELSE beat[s]]
  /\ pipe' = [pipe EXCEPT ![p] = <<>>]
  /\ local' = [local EXCEPT ![p] = {}]
  /\ ask' = IF ask.pod = p THEN IdleAsk ELSE ask
  /\ blurred' = (blurred \/ Carries(p, SetOps))
  /\ UNCHANGED <<home, presence, wiped, overtaken, stops, promise, calls>>

ConnNext ==
  \/ \E s \in Sockets : \/ handleConnection(s) \/ refuseConnection(s) \/ authenticate(s)
                        \/ startHeartbeat(s) \/ close(s) \/ markOffline(s)
                        \/ heartbeat(s) \/ renew(s)
                        \/ \E o \in Owners : stopViewing(s, o) \/ startViewing(s, o)
  \/ \E p \in Pods : \/ Execute(p) \/ Reject(p) \/ crash(p)
                     \/ \E o \in Owners : isViewingStopped(p, o)
  \/ tick

ConnSpec == ConnInit /\ [][ConnNext]_connVars

-----------------------------------------------------------------------------
(* Properties.                                                              *)

Registered(s) == link[s] = "up" /\ accept[s] = "done"
SeveralPods == \E s, t \in Sockets : /\ link[s] # "new" /\ link[t] # "new"
                                     /\ home[s] # home[t]

\* A timer outlives its socket, and keeps the user online for ever, only if the
\* socket closed before its handleConnection had ended: handleDisconnect then
\* found no timer to stop (location.gateway.ts:147, 162).
LeakNeedsOverlap ==
  \A s \in interval : link[s] = "down" => s \in overtaken

\* The user of an open socket is offline only between the handleDisconnect of
\* another tab, which deletes the key they share (presence.service.ts:33), and
\* the next heartbeat, whatever the two do to each other's commands: the key
\* never expires under a running timer, and no interval ends without it.
OfflineExplained ==
  Quiet /\ presence = 0 /\ (\E s \in Sockets : Registered(s)) => wiped

\* No broadcast that asks after a stop has reached Redis is let through, on
\* whichever pod, until the user views the owner again or closes some tab: the
\* copies and the crossing commands of several pods cannot lose it.
StopHolds ==
  ask.pc = "answered" /\ ask.promised /\ ask.alone /\ ~blurred => ask.value

\* A broadcast is held back without a stop in force only by a stale copy: the
\* user has used another pod to view the owner again or to close a tab
\* (stop-viewing.service.ts:31).  With one pod the answer is always right.
ResumeHolds ==
  ask.pc = "answered" /\ ask.value /\ ~ask.promised /\ ask.alone /\ ~blurred
    => SeveralPods
=============================================================================
