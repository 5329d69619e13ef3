-------------------------- MODULE ConnectionsProofs --------------------------
(***************************************************************************)
(* Connections for any sockets, pods, owners and bounds: its types, the     *)
(* life of a socket and of its timer, why the presence key does not expire  *)
(* under a running timer, and what a stop is worth on several pods.         *)
(***************************************************************************)
EXTENDS Connections, SequenceTheorems, TLAPS

(* The commands that are ever sent: an SADD names an owner.                 *)
CommandRecords == [op : Ops, sock : Sockets \cup {NoOne}, owner : Owners \cup {NoOne}]
Commands == {c \in CommandRecords : c.op = "sadd" => c.owner \in Owners}
Pipes == [Pods -> Seq(Commands)]

ConnTypeInv == ConnTypeOK /\ pipe \in Pipes

-----------------------------------------------------------------------------
(* What sending and executing a command does to the pipes.                  *)

LEMMA HeadIsFirst ==
  ASSUME NEW S, NEW s \in Seq(S), Len(s) \in Nat \ {0}
  PROVE  Head(s) = s[1]
OBVIOUS

Appended(old, new, p, c) ==
  /\ \A q \in Pods \ {p} : new[q] = old[q]
  /\ \A i \in DOMAIN old[p] : new[p][i] = old[p][i]
  /\ \E n \in DOMAIN new[p] : /\ new[p][n] = c
                              /\ DOMAIN new[p] = DOMAIN old[p] \cup {n}
                              /\ n \in Nat /\ \A i \in DOMAIN old[p] : i \in Nat /\ i < n

LEMMA AppendedToPipe ==
  ASSUME NEW old \in Pipes, NEW p \in Pods, NEW c \in Commands, NEW new,
         new = [old EXCEPT ![p] = Append(@, c)]
  PROVE  new \in Pipes /\ Appended(old, new, p, c)
<1> DEFINE s == old[p]
<1>1. s \in Seq(Commands) /\ Len(s) \in Nat /\ DOMAIN s = 1..Len(s)
  <2>1. s \in Seq(Commands)
    BY DEF Pipes
  <2> QED BY <2>1, LenProperties
<1>2. /\ Append(s, c) \in Seq(Commands) /\ Len(Append(s, c)) = Len(s) + 1
      /\ \A i \in 1..Len(s) : Append(s, c)[i] = s[i]
      /\ Append(s, c)[Len(s) + 1] = c
  BY <1>1, AppendProperties
<1>3. DOMAIN Append(s, c) = 1..(Len(s) + 1)
  BY <1>2, LenProperties
<1>4. /\ new \in Pipes /\ new[p] = Append(s, c)
      /\ \A q \in Pods \ {p} : new[q] = old[q]
  BY <1>2 DEF Pipes
<1>5. Len(s) + 1 \in DOMAIN new[p] /\ DOMAIN new[p] = DOMAIN s \cup {Len(s) + 1}
  BY <1>1, <1>3, <1>4
<1>6. \A i \in DOMAIN s : i \in Nat /\ i < Len(s) + 1 /\ Append(s, c)[i] = s[i]
  BY <1>1, <1>2
<1> HIDE DEF s
<1>7. \A i \in DOMAIN s : new[p][i] = s[i]
  BY <1>4, <1>6
<1>8. new[p][Len(s) + 1] = c /\ Len(s) + 1 \in Nat
  BY <1>1, <1>2, <1>4
<1> QED BY <1>4, <1>5, <1>6, <1>7, <1>8 DEF Appended, s

Taken(old, new, p, c) ==
  /\ \A q \in Pods \ {p} : new[q] = old[q]
  /\ c \in Commands /\ 1 \in DOMAIN old[p] /\ old[p][1] = c
  /\ \A i \in DOMAIN new[p] : /\ i \in Nat \ {0} /\ i + 1 \in DOMAIN old[p]
                              /\ new[p][i] = old[p][i + 1]
  /\ \A i \in DOMAIN old[p] : i \in Nat \ {0} /\ (i = 1 \/ i - 1 \in DOMAIN new[p])

LEMMA TakenFromPipe ==
  ASSUME NEW old \in Pipes, NEW p \in Pods, old[p] # <<>>, NEW new,
         new = [old EXCEPT ![p] = Tail(@)]
  PROVE  new \in Pipes /\ Taken(old, new, p, Head(old[p]))
<1> DEFINE s == old[p]
<1>1. s \in Seq(Commands) /\ s # <<>>
  BY DEF Pipes
<1>2. Len(s) \in Nat \ {0} /\ DOMAIN s = 1..Len(s)
  BY <1>1, LenProperties, EmptySeq
<1>3. /\ Head(s) \in Commands /\ Tail(s) \in Seq(Commands)
      /\ Len(Tail(s)) = Len(s) - 1
      /\ \A i \in 1..Len(Tail(s)) : Tail(s)[i] = s[i + 1]
  BY <1>1, HeadTailProperties
<1>4. DOMAIN Tail(s) = 1..(Len(s) - 1) /\ Head(s) = s[1]
  <2>1. DOMAIN Tail(s) = 1..(Len(s) - 1)
    BY <1>3, LenProperties
  <2>2. Head(s) = s[1]
    BY <1>1, <1>2, HeadIsFirst
  <2> QED BY <2>1, <2>2
<1>5. /\ new \in Pipes /\ new[p] = Tail(s)
      /\ \A q \in Pods \ {p} : new[q] = old[q]
  BY <1>3 DEF Pipes
<1>6. \A i \in DOMAIN Tail(s) : /\ i \in Nat \ {0} /\ i + 1 \in DOMAIN s
                                /\ Tail(s)[i] = s[i + 1]
  BY <1>2, <1>3, <1>4
<1>7. \A i \in DOMAIN s : i \in Nat \ {0} /\ (i = 1 \/ i - 1 \in DOMAIN Tail(s))
  BY <1>2, <1>4
<1>8. 1 \in DOMAIN s /\ s[1] = Head(s) /\ Head(s) \in Commands
  BY <1>2, <1>3, <1>4
<1>9. \A i \in DOMAIN new[p] : /\ i \in Nat \ {0} /\ i + 1 \in DOMAIN s
                               /\ new[p][i] = s[i + 1]
  BY <1>5, <1>6
<1> HIDE DEF s
<1> QED BY <1>5, <1>7, <1>8, <1>9 DEF Taken, s

\* A pod's commands of some kinds are among those it had, in the same order.
Inherits(ops) ==
  \A q \in Pods : \E k \in {0, 1} : \A i \in DOMAIN pipe'[q] :
    pipe'[q][i].op \in ops =>
      i \in Nat /\ i + k \in DOMAIN pipe[q] /\ pipe[q][i + k] = pipe'[q][i]

LEMMA PipeIndices ==
  ASSUME NEW pipes \in Pipes, NEW q \in Pods, NEW i \in DOMAIN pipes[q]
  PROVE  i \in Nat \ {0} /\ pipes[q][i] \in Commands
<1>1. pipes[q] \in Seq(Commands)
  BY DEF Pipes
<1>2. DOMAIN pipes[q] = 1..Len(pipes[q]) /\ Len(pipes[q]) \in Nat
  BY <1>1, LenProperties
<1>3. pipes[q][i] \in Commands
  BY <1>1, <1>2, ElementOfSeq
<1> QED BY <1>2, <1>3

LEMMA SendInherits ==
  ASSUME pipe \in Pipes, NEW p \in Pods, NEW c, Appended(pipe, pipe', p, c), NEW ops, c.op \notin ops
  PROVE  Inherits(ops)
<1>1. ASSUME NEW q \in Pods
      PROVE  \A i \in DOMAIN pipe'[q] : pipe'[q][i].op \in ops =>
               i \in Nat /\ i + 0 \in DOMAIN pipe[q] /\ pipe[q][i + 0] = pipe'[q][i]
  <2>1. \A i \in DOMAIN pipe[q] : i \in Nat /\ i + 0 = i
    BY PipeIndices
  <2> QED BY <2>1 DEF Appended
<1> QED BY <1>1 DEF Inherits

LEMMA TakeInherits ==
  ASSUME pipe \in Pipes, NEW p \in Pods, NEW c, Taken(pipe, pipe', p, c), NEW ops
  PROVE  Inherits(ops)
<1>1. \A i \in DOMAIN pipe'[p] : i \in Nat /\ i + 1 \in DOMAIN pipe[p] /\ pipe[p][i + 1] = pipe'[p][i]
  BY DEF Taken
<1>2. ASSUME NEW q \in Pods \ {p}
      PROVE  \A i \in DOMAIN pipe'[q] :
               i \in Nat /\ i + 0 \in DOMAIN pipe[q] /\ pipe[q][i + 0] = pipe'[q][i]
  <2>1. \A i \in DOMAIN pipe[q] : i \in Nat /\ i + 0 = i
    BY PipeIndices
  <2> QED BY <2>1 DEF Taken
<1> QED BY <1>1, <1>2 DEF Inherits

-----------------------------------------------------------------------------
(* Types.                                                                   *)

Asks == [pc : {"idle", "asked", "answered"}, pod : Pods \cup {NoOne},
         owner : Owners \cup {NoOne}, promised : BOOLEAN, alone : BOOLEAN,
         value : BOOLEAN]

LEMMA PipesTyped ==
  ASSUME NEW pipes \in Pipes
  PROVE  pipes \in [Pods -> Seq(CommandRecords)]
<1>1. Commands \subseteq CommandRecords
  BY DEF Commands
<1>2. \A p \in Pods : pipes[p] \in Seq(CommandRecords)
  BY <1>1, SeqMonotonic DEF Pipes
<1> QED BY <1>2 DEF Pipes

LEMMA SendPipe ==
  ASSUME ConnTypeInv, NEW s \in Sockets, NEW op \in Ops, NEW o \in Owners \cup {NoOne},
         op = "sadd" => o \in Owners, Send(s, op, o)
  PROVE  /\ home[s] \in Pods /\ Command(op, s, o) \in Commands /\ pipe' \in Pipes
         /\ Command(op, s, o).op = op
         /\ Appended(pipe, pipe', home[s], Command(op, s, o))
<1>1. home[s] \in Pods /\ pipe \in Pipes
  BY DEF ConnTypeInv, ConnTypeOK
<1>2. Command(op, s, o) \in Commands /\ Command(op, s, o).op = op
  BY DEF Command, Commands, CommandRecords
<1>3. pipe' = [pipe EXCEPT ![home[s]] = Append(@, Command(op, s, o))]
  BY DEF Send
<1> QED BY <1>1, <1>2, <1>3, AppendedToPipe

LEMMA DisturbTyped ==
  ASSUME ConnTypeInv, Disturb
  PROVE  ask' \in Asks
BY DEF ConnTypeInv, ConnTypeOK, Disturb, Asks

LEMMA InitTyped == ConnInit => ConnTypeInv
<1> SUFFICES ASSUME ConnInit
             PROVE  ConnTypeInv
  OBVIOUS
<1>1. pipe \in Pipes
  BY EmptySeq DEF Pipes, ConnInit
<1>2. 0 \in 0..PresenceTtl /\ 0 \in 0..MaxCalls /\ 0 \in 0..MaxFaults
  BY ConnectionsAssumption DEF PresenceTtl
<1>3. ask \in Asks
  BY DEF ConnInit, IdleAsk, Asks
<1> QED
  BY <1>1, <1>2, <1>3, PipesTyped DEF ConnInit, ConnTypeInv, ConnTypeOK, Asks, CommandRecords

LEMMA QuietStepTyped ==
  ASSUME ConnTypeInv,
         \/ \E s \in Sockets : handleConnection(s) \/ refuseConnection(s) \/ startHeartbeat(s)
         \/ tick
  PROVE  ConnTypeInv'
<1> USE DEF stopVars, countVars, ConnTypeInv
<1>1. ASSUME NEW s \in Sockets, handleConnection(s) \/ refuseConnection(s)
      PROVE  ConnTypeInv'
  BY <1>1 DEF handleConnection, refuseConnection, At, ConnTypeOK
<1>2. ASSUME NEW s \in Sockets, startHeartbeat(s)
      PROVE  ConnTypeInv'
  BY <1>2 DEF startHeartbeat, At, ConnTypeOK
<1>3. CASE tick
  <2>1. presence' \in 0..PresenceTtl
    BY <1>3 DEF tick, ConnTypeOK, PresenceTtl
  <2> QED BY <1>3, <2>1 DEF tick, ConnTypeOK
<1> QED BY <1>1, <1>2, <1>3

LEMMA SendStepTyped ==
  ASSUME ConnTypeInv, NEW s \in Sockets,
         authenticate(s) \/ markOffline(s) \/ heartbeat(s) \/ renew(s)
  PROVE  ConnTypeInv'
<1> USE DEF stopVars, countVars
<1>1. PICK op \in KeyOps : Send(s, op, NoOne)
  BY DEF authenticate, markOffline, heartbeat, renew, KeyOps
<1>2. pipe' \in Pipes
  BY <1>1, SendPipe DEF Ops, KeyOps
<1> QED
  BY <1>2, PipesTyped
  DEF authenticate, markOffline, heartbeat, renew, At, ConnTypeInv, ConnTypeOK,
      CommandRecords

LEMMA CloseTyped ==
  ASSUME ConnTypeInv, NEW s \in Sockets, close(s)
  PROVE  ConnTypeInv'
<1> USE DEF countVars
<1>1. home[s] \in Pods /\ ConnTypeOK
  BY DEF ConnTypeInv, ConnTypeOK
<1>2. /\ link' \in [Sockets -> {"new", "up", "down"}]
      /\ leave' \in [Sockets -> {"idle", "clear", "cleared", "done"}]
      /\ interval' \subseteq Sockets /\ due' \subseteq interval'
      /\ overtaken' \subseteq Sockets
  BY <1>1 DEF close, handleDisconnect, stopHeartbeat, At, ConnTypeOK
<1>3. CASE UserKnown(s)
  <2>1. clearAllForSession(s)
    BY <1>3 DEF close, handleDisconnect
  <2>2. pipe' \in Pipes
    <3>1. Send(s, "clear", NoOne) /\ "clear" \in Ops
      BY <2>1 DEF clearAllForSession, Ops, SetOps
    <3> QED BY <3>1, SendPipe
  <2>3. /\ local' \in [Pods -> SUBSET Owners] /\ promise' \subseteq Owners
        /\ blurred' \in BOOLEAN
    BY <1>1, <2>1 DEF clearAllForSession, ConnTypeOK
  <2>4. ask' \in Asks
    BY <2>1, DisturbTyped DEF clearAllForSession
  <2> QED
    BY <1>1, <1>2, <2>2, <2>3, <2>4, PipesTyped
    DEF close, ConnTypeInv, ConnTypeOK, CommandRecords, Asks
<1>4. CASE ~UserKnown(s)
  BY <1>1, <1>2, <1>4 DEF close, handleDisconnect, ConnTypeInv, ConnTypeOK
<1> QED BY <1>3, <1>4

LEMMA CallTyped ==
  ASSUME ConnTypeInv, NEW s \in Sockets, NEW o \in Owners, stopViewing(s, o) \/ startViewing(s, o)
  PROVE  ConnTypeInv'
<1>1. home[s] \in Pods /\ ConnTypeOK
  BY DEF ConnTypeInv, ConnTypeOK
<1>2. pipe' \in Pipes
  <2>1. PICK op \in SetOps : Send(s, op, o)
    BY DEF stopViewing, startViewing, SetOps
  <2> QED BY <2>1, SendPipe DEF Ops
<1>3. ask' \in Asks /\ blurred' \in BOOLEAN
  <2>1. Disturb /\ blurred' = (blurred \/ Crosses(home[s]))
    BY DEF stopViewing, startViewing
  <2> QED BY <2>1, DisturbTyped
<1>4. local' \in [Pods -> SUBSET Owners] /\ promise' \subseteq Owners
  <2>1. CASE stopViewing(s, o)
    BY <1>1, <2>1 DEF stopViewing, ConnTypeOK
  <2>2. CASE startViewing(s, o)
    BY <1>1, <2>2 DEF startViewing, ConnTypeOK
  <2> QED BY <2>1, <2>2
<1>5. calls' \in 0..MaxCalls
  BY <1>1, ConnectionsAssumption DEF stopViewing, startViewing, HeardFrom, ConnTypeOK
<1> QED
  BY <1>1, <1>2, <1>3, <1>4, <1>5, PipesTyped
  DEF stopViewing, startViewing, presenceVars, ConnTypeInv, ConnTypeOK, CommandRecords, Asks

LEMMA AskPipe ==
  ASSUME ConnTypeInv, NEW p \in Pods, NEW o \in Owners, isViewingStopped(p, o), o \notin local[p]
  PROVE  LET c == Command("sismember", NoOne, o) IN
         c \in Commands /\ pipe' \in Pipes /\ Appended(pipe, pipe', p, c)
<1> DEFINE c == Command("sismember", NoOne, o)
<1>1. pipe \in Pipes /\ c \in Commands
  BY DEF ConnTypeInv, Commands, CommandRecords, Command, Ops
<1>2. pipe' = [pipe EXCEPT ![p] = Append(@, c)]
  BY DEF isViewingStopped
<1> QED BY <1>1, <1>2, AppendedToPipe

LEMMA AskTyped ==
  ASSUME ConnTypeInv, NEW p \in Pods, NEW o \in Owners, isViewingStopped(p, o)
  PROVE  ConnTypeInv'
<1>1. pipe' \in Pipes
  <2>1. CASE o \in local[p]
    BY <2>1 DEF isViewingStopped, ConnTypeInv
  <2> QED BY <2>1, AskPipe
<1>2. ask' \in Asks
  BY DEF isViewingStopped, Settled, Asks
<1> QED
  BY <1>1, <1>2, PipesTyped
  DEF isViewingStopped, presenceVars, countVars, ConnTypeInv, ConnTypeOK, CommandRecords, Asks

\* What Redis executes: the head of some pipe.
LEMMA ExecutePipe ==
  ASSUME ConnTypeInv, NEW p \in Pods, Execute(p)
  PROVE  pipe' \in Pipes /\ Taken(pipe, pipe', p, Head(pipe[p]))
<1>1. pipe \in Pipes /\ pipe[p] # <<>> /\ pipe' = [pipe EXCEPT ![p] = Tail(@)]
  BY DEF ConnTypeInv, Execute
<1> QED BY <1>1, TakenFromPipe

\* The effect of a command, one line for each variable and no CASE.
LEMMA ExecuteEffect ==
  ASSUME NEW p \in Pods, Execute(p), NEW c, c = Head(pipe[p])
  PROVE  /\ RenewsKey(c.op) => presence' = PresenceTtl
         /\ c.op = "offline" => presence' = 0
         /\ ~RenewsKey(c.op) /\ c.op # "offline" => presence' = presence
         /\ wiped' = (wiped \/ c.op = "offline")
         /\ stops' = IF c.op = "sadd" THEN stops \cup {c.owner}
                     ELSE IF c.op = "srem" THEN stops \ {c.owner}
                     ELSE IF c.op = "clear" THEN {} ELSE stops
         /\ ask' = IF c.op = "sismember"
                   THEN [ask EXCEPT !.pc = "answered", !.value = c.owner \in stops] ELSE ask
         /\ accept' = IF c.op = "online" THEN [accept EXCEPT ![c.sock] = "marked"] ELSE accept
         /\ leave' = IF c.op = "clear" THEN [leave EXCEPT ![c.sock] = "cleared"] ELSE leave
         /\ beat' = IF c.op = "get"
                    THEN [beat EXCEPT ![c.sock] = IF presence > 0 THEN "found" ELSE "none"]
                    ELSE beat
         /\ UNCHANGED <<home, link, interval, due, overtaken, local, promise, blurred, calls,
                        faults>>
<1>1. ~(RenewsKey(c.op) /\ c.op = "offline")
  BY DEF RenewsKey, SetsKey
<1>2. presence' = CASE RenewsKey(c.op) -> PresenceTtl
                    [] c.op = "offline" -> 0
                    [] OTHER -> presence
  BY DEF Execute
<1>3. stops' = CASE c.op = "sadd" -> stops \cup {c.owner}
                 [] c.op = "srem" -> stops \ {c.owner}
                 [] c.op = "clear" -> {}
                 [] OTHER -> stops
  BY DEF Execute
<1>4. /\ wiped' = (wiped \/ c.op = "offline")
      /\ ask' = IF c.op = "sismember"
                THEN [ask EXCEPT !.pc = "answered", !.value = c.owner \in stops] ELSE ask
      /\ accept' = IF c.op = "online" THEN [accept EXCEPT ![c.sock] = "marked"] ELSE accept
      /\ leave' = IF c.op = "clear" THEN [leave EXCEPT ![c.sock] = "cleared"] ELSE leave
      /\ beat' = IF c.op = "get"
                 THEN [beat EXCEPT ![c.sock] = IF presence > 0 THEN "found" ELSE "none"]
                 ELSE beat
      /\ UNCHANGED <<home, link, interval, due, overtaken, local, promise, blurred, calls,
                     faults>>
  BY DEF Execute, At, countVars
<1>5. /\ RenewsKey(c.op) => presence' = PresenceTtl
      /\ c.op = "offline" => presence' = 0
      /\ ~RenewsKey(c.op) /\ c.op # "offline" => presence' = presence
  BY <1>1, <1>2
<1>6. stops' = IF c.op = "sadd" THEN stops \cup {c.owner}
               ELSE IF c.op = "srem" THEN stops \ {c.owner}
               ELSE IF c.op = "clear" THEN {} ELSE stops
  BY <1>3
<1> QED BY <1>4, <1>5, <1>6

LEMMA ExecuteTyped ==
  ASSUME ConnTypeInv, NEW p \in Pods, Execute(p)
  PROVE  ConnTypeInv'
<1>0. PICK c : c = Head(pipe[p])
  OBVIOUS
<1>1. pipe' \in Pipes /\ c \in Commands
  BY <1>0, ExecutePipe DEF Taken
<1>2. presence' \in {presence, 0, PresenceTtl}
  BY <1>0, ExecuteEffect
<1>3. wiped' \in BOOLEAN
  <2>1. wiped' = (wiped \/ c.op = "offline")
    BY <1>0, ExecuteEffect
  <2> QED BY <2>1
<1>4. stops' \subseteq Owners
  <2>1. c.op = "sadd" => c.owner \in Owners
    BY <1>1 DEF Commands
  <2>2. stops' = IF c.op = "sadd" THEN stops \cup {c.owner}
                 ELSE IF c.op = "srem" THEN stops \ {c.owner}
                 ELSE IF c.op = "clear" THEN {} ELSE stops
    BY <1>0, ExecuteEffect
  <2> QED BY <2>1, <2>2 DEF ConnTypeInv, ConnTypeOK
<1>5. ask' \in Asks
  <2> DEFINE answer == c.owner \in stops
  <2>1. ask' = ask \/ ask' = [ask EXCEPT !.pc = "answered", !.value = answer]
    BY <1>0, ExecuteEffect
  <2>2. ask \in Asks /\ answer \in BOOLEAN
    BY DEF ConnTypeInv, ConnTypeOK, Asks
  <2> HIDE DEF answer
  <2> QED BY <2>1, <2>2 DEF Asks
<1>6. /\ accept' = accept \/ accept' = [accept EXCEPT ![c.sock] = "marked"]
      /\ leave' = leave \/ leave' = [leave EXCEPT ![c.sock] = "cleared"]
      /\ beat' = beat \/ \E answer \in {"found", "none"} : beat' = [beat EXCEPT ![c.sock] = answer]
      /\ UNCHANGED <<home, link, interval, due, overtaken, local, promise, blurred, calls,
                     faults>>
  BY <1>0, ExecuteEffect
<1>7. /\ accept' \in [Sockets -> {"idle", "authenticate", "online", "marked", "done"}]
      /\ leave' \in [Sockets -> {"idle", "clear", "cleared", "done"}]
      /\ beat' \in [Sockets -> {"idle", "get", "found", "none"}]
  <2> USE <1>6 DEF ConnTypeInv, ConnTypeOK
  <2>1. accept' \in [Sockets -> {"idle", "authenticate", "online", "marked", "done"}]
    OBVIOUS
  <2>2. leave' \in [Sockets -> {"idle", "clear", "cleared", "done"}]
    OBVIOUS
  <2>3. beat' \in [Sockets -> {"idle", "get", "found", "none"}]
    OBVIOUS
  <2> QED BY <2>1, <2>2, <2>3
<1>8. presence' \in 0..PresenceTtl
  BY <1>2 DEF PresenceTtl, ConnTypeInv, ConnTypeOK
<1> QED
  BY <1>1, <1>3, <1>4, <1>5, <1>6, <1>7, <1>8, PipesTyped
  DEF ConnTypeInv, ConnTypeOK, CommandRecords, Asks

\* What a rejected command does, when its socket is closed for it and when not.
Shut(c) == c.op = "online" /\ link[c.sock] = "up"

LEMMA RejectEffect ==
  ASSUME NEW p \in Pods, Reject(p), NEW c, c = Head(pipe[p])
  PROVE  /\ Shut(c) =>
              /\ accept' = [accept EXCEPT ![c.sock] = "done"]
              /\ link' = [link EXCEPT ![c.sock] = "down"]
              /\ leave' = [leave EXCEPT ![c.sock] = "clear"]
              /\ local' = [local EXCEPT ![p] = {}] /\ promise' = {} /\ Disturb
              /\ blurred' = (blurred \/ Crosses(p)) /\ beat' = beat
              /\ pipe' = [[pipe EXCEPT ![p] = Tail(@)] EXCEPT
                            ![p] = Append(@, Command("clear", c.sock, NoOne))]
         /\ ~Shut(c) =>
              /\ accept' = IF c.op = "online" THEN [accept EXCEPT ![c.sock] = "done"]
                           ELSE accept
              /\ leave' = IF c.op = "clear" THEN [leave EXCEPT ![c.sock] = "done"] ELSE leave
              /\ ask' = IF c.op = "sismember" THEN IdleAsk ELSE ask
              /\ blurred' = (blurred \/ c.op \in SetOps)
              /\ beat' = IF c.op = "get" THEN [beat EXCEPT ![c.sock] = "idle"] ELSE beat
              /\ pipe' = [pipe EXCEPT ![p] = Tail(@)]
              /\ UNCHANGED <<link, local, promise>>
         /\ wiped' = (wiped \/ c.op \in KeyOps) /\ faults' = faults + 1 /\ faults < MaxFaults
         /\ pipe[p] # <<>>
         /\ UNCHANGED <<home, interval, due, presence, overtaken, stops, calls>>
<1>1. "online" \notin SetOps /\ "online" # "sismember" /\ "online" # "clear" /\ "online" # "get"
  BY DEF SetOps
<1>2. ASSUME Shut(c)
      PROVE  /\ accept' = [accept EXCEPT ![c.sock] = "done"]
             /\ link' = [link EXCEPT ![c.sock] = "down"]
             /\ leave' = [leave EXCEPT ![c.sock] = "clear"]
             /\ local' = [local EXCEPT ![p] = {}] /\ promise' = {} /\ Disturb
             /\ blurred' = (blurred \/ Crosses(p)) /\ beat' = beat
             /\ pipe' = [[pipe EXCEPT ![p] = Tail(@)] EXCEPT
                           ![p] = Append(@, Command("clear", c.sock, NoOne))]
  <2>1. leave' = CASE Shut(c) -> [leave EXCEPT ![c.sock] = "clear"]
                   [] c.op = "clear" -> [leave EXCEPT ![c.sock] = "done"]
                   [] OTHER -> leave
    BY DEF Reject, Shut, At
  <2>2. leave' = [leave EXCEPT ![c.sock] = "clear"]
    BY <1>1, <1>2, <2>1 DEF Shut
  <2> QED BY <1>1, <1>2, <2>2 DEF Reject, Shut, At
<1>3. ASSUME ~Shut(c)
      PROVE  /\ accept' = IF c.op = "online" THEN [accept EXCEPT ![c.sock] = "done"]
                          ELSE accept
             /\ leave' = IF c.op = "clear" THEN [leave EXCEPT ![c.sock] = "done"] ELSE leave
             /\ ask' = IF c.op = "sismember" THEN IdleAsk ELSE ask
             /\ blurred' = (blurred \/ c.op \in SetOps)
             /\ beat' = IF c.op = "get" THEN [beat EXCEPT ![c.sock] = "idle"] ELSE beat
             /\ pipe' = [pipe EXCEPT ![p] = Tail(@)]
             /\ UNCHANGED <<link, local, promise>>
  <2>1. leave' = CASE Shut(c) -> [leave EXCEPT ![c.sock] = "clear"]
                   [] c.op = "clear" -> [leave EXCEPT ![c.sock] = "done"]
                   [] OTHER -> leave
    BY DEF Reject, Shut, At
  <2>2. leave' = IF c.op = "clear" THEN [leave EXCEPT ![c.sock] = "done"] ELSE leave
    BY <1>3, <2>1
  <2> QED BY <1>3, <2>2 DEF Reject, Shut, At
<1>4. /\ wiped' = (wiped \/ c.op \in KeyOps) /\ faults' = faults + 1 /\ faults < MaxFaults
      /\ pipe[p] # <<>>
      /\ UNCHANGED <<home, interval, due, presence, overtaken, stops, calls>>
  BY DEF Reject
<1> QED BY <1>2, <1>3, <1>4

\* The pipe of a rejected "online" whose socket is still open: the head leaves,
\* a clear comes in last.
LEMMA RejectPipe ==
  ASSUME ConnTypeInv, NEW p \in Pods, Reject(p), NEW c, c = Head(pipe[p])
  PROVE  /\ pipe' \in Pipes /\ c \in Commands
         /\ ~Shut(c) => Taken(pipe, pipe', p, c)
         /\ Shut(c) => LET clear == Command("clear", c.sock, NoOne) IN
                       /\ clear \in Commands
                       /\ \E rest \in Pipes : /\ Taken(pipe, rest, p, c)
                                              /\ Appended(rest, pipe', p, clear)
<1> DEFINE rest == [pipe EXCEPT ![p] = Tail(@)]
           clear == Command("clear", c.sock, NoOne)
<1>1. pipe \in Pipes /\ pipe[p] # <<>>
  BY RejectEffect DEF ConnTypeInv
<1>2. rest \in Pipes /\ Taken(pipe, rest, p, c)
  BY <1>1, TakenFromPipe
<1>3. c \in Commands
  BY <1>2 DEF Taken
<1>4. clear \in Commands
  BY <1>3 DEF Command, Commands, CommandRecords, Ops, SetOps
<1>5. ~Shut(c) => pipe' = rest
  BY RejectEffect
<1>6. Shut(c) => pipe' = [rest EXCEPT ![p] = Append(@, clear)]
  BY RejectEffect
<1> HIDE DEF rest, clear
<1>7. Shut(c) => pipe' \in Pipes /\ Appended(rest, pipe', p, clear)
  BY <1>2, <1>4, <1>6, AppendedToPipe
<1>8. CASE Shut(c)
  BY <1>2, <1>3, <1>4, <1>7, <1>8 DEF clear
<1>9. CASE ~Shut(c)
  BY <1>2, <1>3, <1>5, <1>9
<1> QED BY <1>8, <1>9

LEMMA RejectTyped ==
  ASSUME ConnTypeInv, NEW p \in Pods, Reject(p)
  PROVE  ConnTypeInv'
<1>0. PICK c : c = Head(pipe[p])
  OBVIOUS
<1>1. pipe' \in Pipes /\ c \in Commands
  BY <1>0, RejectPipe
<1>2. /\ accept' = accept \/ accept' = [accept EXCEPT ![c.sock] = "done"]
      /\ link' = link \/ link' = [link EXCEPT ![c.sock] = "down"]
      /\ leave' = leave \/ \E to \in {"clear", "done"} : leave' = [leave EXCEPT ![c.sock] = to]
      /\ beat' = beat \/ beat' = [beat EXCEPT ![c.sock] = "idle"]
  BY <1>0, RejectEffect
<1>3. /\ local' = local \/ local' = [local EXCEPT ![p] = {}]
      /\ promise' = promise \/ promise' = {}
      /\ ask' = ask \/ ask' = IdleAsk \/ Disturb
  BY <1>0, RejectEffect
<1>4. /\ wiped' = (wiped \/ c.op \in KeyOps) /\ faults' = faults + 1 /\ faults < MaxFaults
      /\ UNCHANGED <<home, interval, due, presence, overtaken, stops, calls>>
  BY <1>0, RejectEffect
<1>5. blurred' \in BOOLEAN
  <2>1. blurred' = (blurred \/ Crosses(p)) \/ blurred' = (blurred \/ c.op \in SetOps)
    BY <1>0, RejectEffect
  <2> QED BY <2>1
<1>6. wiped' \in BOOLEAN /\ faults' \in 0..MaxFaults
  <2>1. wiped' \in BOOLEAN
    BY <1>4
  <2>2. faults' \in 0..MaxFaults
    BY <1>4, ConnectionsAssumption DEF ConnTypeInv, ConnTypeOK
  <2> QED BY <2>1, <2>2
<1>7. /\ accept' \in [Sockets -> {"idle", "authenticate", "online", "marked", "done"}]
      /\ link' \in [Sockets -> {"new", "up", "down"}]
      /\ leave' \in [Sockets -> {"idle", "clear", "cleared", "done"}]
      /\ beat' \in [Sockets -> {"idle", "get", "found", "none"}]
  <2> USE <1>2 DEF ConnTypeInv, ConnTypeOK
  <2>1. accept' \in [Sockets -> {"idle", "authenticate", "online", "marked", "done"}]
    OBVIOUS
  <2>2. link' \in [Sockets -> {"new", "up", "down"}]
    OBVIOUS
  <2>3. leave' \in [Sockets -> {"idle", "clear", "cleared", "done"}]
    OBVIOUS
  <2>4. beat' \in [Sockets -> {"idle", "get", "found", "none"}]
    OBVIOUS
  <2> QED BY <2>1, <2>2, <2>3, <2>4
<1>8. ask' \in Asks
  <2>1. ask \in Asks /\ IdleAsk \in Asks
    BY DEF ConnTypeInv, ConnTypeOK, Asks, IdleAsk
  <2> QED BY <1>3, <2>1, DisturbTyped
<1>9. local' \in [Pods -> SUBSET Owners] /\ promise' \subseteq Owners
  BY <1>3 DEF ConnTypeInv, ConnTypeOK
<1> QED
  BY <1>1, <1>4, <1>5, <1>6, <1>7, <1>8, <1>9, PipesTyped
  DEF ConnTypeInv, ConnTypeOK, CommandRecords, Asks

LEMMA CrashTyped ==
  ASSUME ConnTypeInv, NEW p \in Pods, crash(p)
  PROVE  ConnTypeInv'
<1>1. pipe' \in Pipes
  BY EmptySeq DEF crash, ConnTypeInv, Pipes
<1>2. /\ accept' \in [Sockets -> {"idle", "authenticate", "online", "marked", "done"}]
      /\ link' \in [Sockets -> {"new", "up", "down"}]
      /\ leave' \in [Sockets -> {"idle", "clear", "cleared", "done"}]
      /\ beat' \in [Sockets -> {"idle", "get", "found", "none"}]
  BY DEF crash, ConnTypeInv, ConnTypeOK
<1>3. /\ interval' \subseteq Sockets /\ due' \subseteq interval'
      /\ local' \in [Pods -> SUBSET Owners]
  BY DEF crash, ConnTypeInv, ConnTypeOK
<1>4. ask' \in Asks /\ blurred' \in BOOLEAN
  <2>1. ask' \in Asks
    BY DEF crash, ConnTypeInv, ConnTypeOK, IdleAsk, Asks
  <2>2. blurred' = (blurred \/ Carries(p, SetOps))
    BY DEF crash
  <2> QED BY <2>1, <2>2
<1>5. faults' \in 0..MaxFaults
  BY ConnectionsAssumption DEF crash, ConnTypeInv, ConnTypeOK
<1> QED
  BY <1>1, <1>2, <1>3, <1>4, <1>5, PipesTyped
  DEF crash, ConnTypeInv, ConnTypeOK, CommandRecords, Asks

LEMMA TypeStep == ConnTypeInv /\ [ConnNext]_connVars => ConnTypeInv'
<1> SUFFICES ASSUME ConnTypeInv, [ConnNext]_connVars
             PROVE  ConnTypeInv'
  OBVIOUS
<1>1. ASSUME NEW s \in Sockets,
             \/ handleConnection(s) \/ refuseConnection(s) \/ startHeartbeat(s)
             \/ authenticate(s) \/ markOffline(s) \/ heartbeat(s) \/ renew(s) \/ close(s)
             \/ \E o \in Owners : stopViewing(s, o) \/ startViewing(s, o)
      PROVE  ConnTypeInv'
  BY <1>1, QuietStepTyped, SendStepTyped, CloseTyped, CallTyped
<1>2. ASSUME NEW p \in Pods,
             Execute(p) \/ Reject(p) \/ crash(p) \/ \E o \in Owners : isViewingStopped(p, o)
      PROVE  ConnTypeInv'
  BY <1>2, ExecuteTyped, RejectTyped, CrashTyped, AskTyped
<1>3. CASE tick
  BY <1>3, QuietStepTyped
<1>4. CASE UNCHANGED connVars
  BY <1>4 DEF connVars, presenceVars, stopVars, countVars, ConnTypeInv, ConnTypeOK
<1> QED BY <1>1, <1>2, <1>3, <1>4 DEF ConnNext

LEMMA TypesHold == ConnSpec => []ConnTypeInv
BY InitTyped, TypeStep, PTL DEF ConnSpec

(* Every variable keeps its type, the commands in flight to Redis included.   *)
THEOREM ConnectionsTypeCorrect == ConnSpec => []ConnTypeOK
<1>1. ConnTypeInv => ConnTypeOK
  BY DEF ConnTypeInv
<1> QED BY <1>1, TypesHold, PTL

-----------------------------------------------------------------------------
(* The life of a socket.  Whoever has a timer has been accepted; a socket    *)
(* that is down while it is being accepted, or that has a timer, was         *)
(* overtaken; an open one that has been accepted has its timer.              *)
LifeInv(s) ==
  /\ s \in interval => accept[s] = "done"
  /\ link[s] = "down" /\ (s \in interval \/ accept[s] \in {"authenticate", "online", "marked"})
       => s \in overtaken
  /\ link[s] = "new" <=> accept[s] = "idle"
  /\ link[s] = "up" /\ accept[s] = "done" => s \in interval

(* An "online" on its way belongs to a socket of that pod that waits for it, *)
(* and for no other.                                                         *)
OnlineInv ==
  \A p \in Pods : \A i \in DOMAIN pipe[p] :
    pipe[p][i].op = "online" =>
      /\ pipe[p][i].sock \in Sockets
      /\ home[pipe[p][i].sock] = p /\ accept[pipe[p][i].sock] = "online"
      /\ \A j \in DOMAIN pipe[p] :
           pipe[p][j].op = "online" /\ pipe[p][j].sock = pipe[p][i].sock => j = i

SocketInv == (\A s \in Sockets : LifeInv(s)) /\ OnlineInv

LEMMA OnlineKept ==
  ASSUME ConnTypeInv, OnlineInv, Inherits({"online"}), UNCHANGED home,
         \A p \in Pods : \A i \in DOMAIN pipe'[p] :
           LET s == pipe'[p][i].sock IN
           pipe'[p][i].op = "online" /\ s \in Sockets /\ home[s] = p /\ accept[s] = "online"
             => accept'[s] = "online"
  PROVE  OnlineInv'
<1> SUFFICES ASSUME NEW p \in Pods, NEW i \in DOMAIN pipe'[p], pipe'[p][i].op = "online"
             PROVE  /\ pipe'[p][i].sock \in Sockets
                    /\ home[pipe'[p][i].sock] = p /\ accept'[pipe'[p][i].sock] = "online"
                    /\ \A j \in DOMAIN pipe'[p] :
                         pipe'[p][j].op = "online" /\ pipe'[p][j].sock = pipe'[p][i].sock
                           => j = i
  BY DEF OnlineInv
<1>1. PICK k \in {0, 1} : \A j \in DOMAIN pipe'[p] : pipe'[p][j].op = "online" =>
        j \in Nat /\ j + k \in DOMAIN pipe[p] /\ pipe[p][j + k] = pipe'[p][j]
  BY DEF Inherits
<1>2. i \in Nat /\ i + k \in DOMAIN pipe[p] /\ pipe[p][i + k] = pipe'[p][i]
  BY <1>1
<1>3. /\ pipe'[p][i].sock \in Sockets /\ home[pipe'[p][i].sock] = p
      /\ accept[pipe'[p][i].sock] = "online"
      /\ \A m \in DOMAIN pipe[p] :
           pipe[p][m].op = "online" /\ pipe[p][m].sock = pipe'[p][i].sock => m = i + k
  BY <1>2 DEF OnlineInv
<1>4. ASSUME NEW j \in DOMAIN pipe'[p], pipe'[p][j].op = "online",
             pipe'[p][j].sock = pipe'[p][i].sock
      PROVE  j = i
  <2>1. j \in Nat /\ j + k \in DOMAIN pipe[p] /\ pipe[p][j + k] = pipe'[p][j]
    BY <1>1, <1>4
  <2>2. j + k = i + k
    BY <1>3, <1>4, <2>1
  <2> QED BY <1>2, <2>1, <2>2
<1>5. accept'[pipe'[p][i].sock] = "online"
  BY <1>3
<1> QED BY <1>3, <1>4, <1>5

\* Steps that neither send nor take an "online".
LEMMA OnlineUntouched ==
  ASSUME ConnTypeInv, OnlineInv, UNCHANGED home, NEW s \in Sockets,
         \/ UNCHANGED pipe
         \/ \E op \in Ops \ {"online"}, o \in Owners \cup {NoOne} :
              Send(s, op, o) /\ (op = "sadd" => o \in Owners),
         \A t \in Sockets : accept[t] = "online" => accept'[t] = "online"
  PROVE  OnlineInv'
<1>1. Inherits({"online"})
  <2>1. CASE UNCHANGED pipe
    <3>1. \A p \in Pods : \A i \in DOMAIN pipe[p] : i \in Nat /\ i + 0 = i
      BY PipeIndices DEF ConnTypeInv
    <3> QED BY <2>1, <3>1 DEF Inherits
  <2>2. ASSUME NEW op \in Ops \ {"online"}, NEW o \in Owners \cup {NoOne},
               Send(s, op, o), op = "sadd" => o \in Owners
        PROVE  Inherits({"online"})
    <3>1. /\ Appended(pipe, pipe', home[s], Command(op, s, o))
          /\ home[s] \in Pods /\ Command(op, s, o).op = op
      BY <2>2, SendPipe
    <3> QED BY <3>1, SendInherits DEF ConnTypeInv
  <2> QED BY <2>1, <2>2
<1> QED BY <1>1, OnlineKept

LEMMA SocketInit == ConnInit => SocketInv
BY DEF ConnInit, SocketInv, LifeInv, OnlineInv

LEMMA AcceptStepLives ==
  ASSUME ConnTypeInv, SocketInv, NEW s \in Sockets,
         handleConnection(s) \/ refuseConnection(s) \/ startHeartbeat(s)
  PROVE  SocketInv'
<1>1. \A t \in Sockets : LifeInv(t)'
  BY DEF handleConnection, refuseConnection, startHeartbeat, At, ConnTypeInv, ConnTypeOK,
         SocketInv, LifeInv
<1>2. \A t \in Sockets : accept[t] = "online" => accept'[t] = "online"
  BY DEF handleConnection, refuseConnection, startHeartbeat, At, ConnTypeInv, ConnTypeOK,
         SocketInv, LifeInv
<1>3. UNCHANGED <<home, pipe>>
  BY DEF handleConnection, refuseConnection, startHeartbeat
<1> QED BY <1>1, <1>2, <1>3, OnlineUntouched DEF SocketInv

LEMMA AuthenticateLives ==
  ASSUME ConnTypeInv, SocketInv, NEW s \in Sockets, authenticate(s)
  PROVE  SocketInv'
<1>1. \A t \in Sockets : LifeInv(t)'
  BY DEF authenticate, At, ConnTypeInv, ConnTypeOK, SocketInv, LifeInv
<1> DEFINE c == Command("online", s, NoOne)
<1>2. /\ Appended(pipe, pipe', home[s], c) /\ home[s] \in Pods
      /\ c.op = "online" /\ c.sock = s
  BY SendPipe DEF authenticate, Ops, KeyOps, Command
<1>3. \A t \in Sockets : accept'[t] = IF t = s THEN "online" ELSE accept[t]
  BY DEF authenticate, At, ConnTypeInv, ConnTypeOK
<1>4. UNCHANGED home /\ accept[s] = "authenticate"
  BY DEF authenticate
<1>5. \A p \in Pods : \A i \in DOMAIN pipe[p] :
        pipe[p][i].op = "online" => pipe[p][i].sock # s
  BY <1>4 DEF SocketInv, OnlineInv
<1> HIDE DEF c
<1>6. ASSUME NEW p \in Pods, p # home[s]
      PROVE  \A i \in DOMAIN pipe'[p] : pipe'[p][i].op = "online" =>
               /\ pipe'[p][i].sock \in Sockets
               /\ home'[pipe'[p][i].sock] = p /\ accept'[pipe'[p][i].sock] = "online"
               /\ \A j \in DOMAIN pipe'[p] :
                    pipe'[p][j].op = "online" /\ pipe'[p][j].sock = pipe'[p][i].sock
                      => j = i
  <2>1. pipe'[p] = pipe[p]
    BY <1>2, <1>6 DEF Appended
  <2> QED BY <1>3, <1>4, <2>1 DEF SocketInv, OnlineInv
<1>7. \A i \in DOMAIN pipe'[home[s]] : pipe'[home[s]][i].op = "online" =>
        /\ pipe'[home[s]][i].sock \in Sockets
        /\ home'[pipe'[home[s]][i].sock] = home[s]
        /\ accept'[pipe'[home[s]][i].sock] = "online"
        /\ \A j \in DOMAIN pipe'[home[s]] :
             pipe'[home[s]][j].op = "online" /\ pipe'[home[s]][j].sock = pipe'[home[s]][i].sock
               => j = i
  <2> DEFINE old == pipe[home[s]]
             new == pipe'[home[s]]
  <2>1. PICK n \in DOMAIN new : new[n] = c /\ DOMAIN new = DOMAIN old \cup {n}
    BY <1>2 DEF Appended
  <2>2. \A i \in DOMAIN old : new[i] = old[i]
    BY <1>2 DEF Appended
  <2>3. \A i \in DOMAIN old : old[i].op = "online" =>
          /\ old[i].sock \in Sockets \ {s} /\ home[old[i].sock] = home[s]
          /\ accept[old[i].sock] = "online"
          /\ \A j \in DOMAIN old : old[j].op = "online" /\ old[j].sock = old[i].sock => j = i
    BY <1>2, <1>5 DEF SocketInv, OnlineInv
  <2> HIDE DEF old, new
  <2>4. \A i \in DOMAIN new : new[i].op = "online" =>
          /\ new[i].sock \in Sockets
          /\ home'[new[i].sock] = home[s]
          /\ accept'[new[i].sock] = "online"
          /\ \A j \in DOMAIN new : new[j].op = "online" /\ new[j].sock = new[i].sock => j = i
    BY <1>2, <1>3, <1>4, <2>1, <2>2, <2>3
  <2> QED BY <2>4 DEF new
<1>8. OnlineInv'
  BY <1>6, <1>7 DEF OnlineInv
<1> QED BY <1>1, <1>8 DEF SocketInv

\* Steps that leave every handleConnection where it is.
LEMMA SendLives ==
  ASSUME ConnTypeInv, SocketInv, NEW s \in Sockets,
         \/ markOffline(s) \/ heartbeat(s) \/ renew(s) \/ close(s)
         \/ \E o \in Owners : stopViewing(s, o) \/ startViewing(s, o)
  PROVE  SocketInv'
<1>1. UNCHANGED <<home, accept>>
  BY DEF markOffline, heartbeat, renew, close, stopViewing, startViewing, presenceVars
<1>2. \A t \in Sockets : LifeInv(t)'
  <2>1. CASE close(s)
    BY <2>1 DEF close, handleDisconnect, stopHeartbeat, At, ConnTypeInv, ConnTypeOK, SocketInv,
                LifeInv
  <2>2. CASE ~close(s)
    BY <2>2 DEF markOffline, heartbeat, renew, stopViewing, startViewing, presenceVars,
                SocketInv, LifeInv
  <2> QED BY <2>1, <2>2
<1>3. \/ UNCHANGED pipe
      \/ \E op \in Ops \ {"online"}, o \in Owners \cup {NoOne} :
           Send(s, op, o) /\ (op = "sadd" => o \in Owners)
  <2>1. CASE markOffline(s)
    BY <2>1 DEF markOffline, Ops, KeyOps
  <2>2. CASE heartbeat(s) \/ renew(s)
    BY <2>2 DEF heartbeat, renew, Ops, KeyOps
  <2>3. CASE close(s)
    BY <2>3 DEF close, handleDisconnect, clearAllForSession, Ops, SetOps
  <2>4. ASSUME NEW o \in Owners, stopViewing(s, o) \/ startViewing(s, o)
        PROVE  \E op \in Ops \ {"online"} : Send(s, op, o)
    BY <2>4 DEF stopViewing, startViewing, Ops, SetOps
  <2> QED BY <2>1, <2>2, <2>3, <2>4
<1> QED BY <1>1, <1>2, <1>3, OnlineUntouched DEF SocketInv

LEMMA AskLives ==
  ASSUME ConnTypeInv, SocketInv, NEW p \in Pods, NEW o \in Owners, isViewingStopped(p, o)
  PROVE  SocketInv'
<1>1. UNCHANGED <<home, presenceVars>>
  BY DEF isViewingStopped
<1>2. \A t \in Sockets : LifeInv(t)'
  BY <1>1 DEF presenceVars, SocketInv, LifeInv
<1>3. OnlineInv'
  <2>1. CASE o \in local[p]
    <3>1. UNCHANGED pipe
      BY <2>1 DEF isViewingStopped
    <3> QED BY <1>1, <3>1 DEF presenceVars, SocketInv, OnlineInv
  <2>2. CASE o \notin local[p]
    <3> DEFINE c == Command("sismember", NoOne, o)
    <3>1. Appended(pipe, pipe', p, c)
      BY <2>2, AskPipe
    <3>2. c.op \notin {"online"}
      BY DEF Command
    <3> HIDE DEF c
    <3>3. Inherits({"online"})
      BY <3>1, <3>2, SendInherits DEF ConnTypeInv
    <3> QED BY <1>1, <3>3, OnlineKept DEF presenceVars, SocketInv
  <2> QED BY <2>1, <2>2
<1> QED BY <1>2, <1>3 DEF SocketInv

\* The head of a pipe, when it is an "online", and what stays behind it.
LEMMA HeadOnline ==
  ASSUME ConnTypeInv, SocketInv, NEW p \in Pods, NEW rest, NEW c, Taken(pipe, rest, p, c),
         c.op = "online"
  PROVE  /\ c.sock \in Sockets /\ home[c.sock] = p /\ accept[c.sock] = "online"
         /\ \A q \in Pods : \A i \in DOMAIN rest[q] :
              rest[q][i].op = "online" => rest[q][i].sock # c.sock
<1>1. /\ 1 \in DOMAIN pipe[p] /\ pipe[p][1] = c
      /\ \A i \in DOMAIN rest[p] : /\ i \in Nat \ {0} /\ i + 1 \in DOMAIN pipe[p]
                                   /\ rest[p][i] = pipe[p][i + 1]
      /\ \A q \in Pods \ {p} : rest[q] = pipe[q]
  BY DEF Taken
<1>2. /\ c.sock \in Sockets /\ home[c.sock] = p /\ accept[c.sock] = "online"
      /\ \A j \in DOMAIN pipe[p] : pipe[p][j].op = "online" /\ pipe[p][j].sock = c.sock => j = 1
  BY <1>1 DEF SocketInv, OnlineInv
<1>3. \A i \in DOMAIN rest[p] : rest[p][i].op = "online" => rest[p][i].sock # c.sock
  BY <1>1, <1>2
<1>4. \A q \in Pods \ {p} : \A i \in DOMAIN rest[q] :
        rest[q][i].op = "online" => rest[q][i].sock # c.sock
  BY <1>1, <1>2 DEF SocketInv, OnlineInv
<1> QED BY <1>2, <1>3, <1>4

LEMMA ExecuteLives ==
  ASSUME ConnTypeInv, SocketInv, NEW p \in Pods, Execute(p)
  PROVE  SocketInv'
<1>0. PICK c : c = Head(pipe[p])
  OBVIOUS
<1>1. pipe' \in Pipes /\ Taken(pipe, pipe', p, c)
  BY <1>0, ExecutePipe
<1>2. /\ accept' = IF c.op = "online" THEN [accept EXCEPT ![c.sock] = "marked"] ELSE accept
      /\ UNCHANGED <<home, link, interval, overtaken>>
  BY <1>0, ExecuteEffect
<1>3. c.op = "online" =>
        /\ c.sock \in Sockets /\ accept[c.sock] = "online"
        /\ \A q \in Pods : \A i \in DOMAIN pipe'[q] :
             pipe'[q][i].op = "online" => pipe'[q][i].sock # c.sock
  BY <1>1, HeadOnline
<1>4. \A t \in Sockets : LifeInv(t)'
  BY <1>2, <1>3 DEF ConnTypeInv, ConnTypeOK, SocketInv, LifeInv
<1>5. Inherits({"online"})
  BY <1>1, TakeInherits DEF ConnTypeInv
<1>6. \A q \in Pods : \A i \in DOMAIN pipe'[q] :
        LET s == pipe'[q][i].sock IN
        pipe'[q][i].op = "online" /\ s \in Sockets /\ home[s] = q /\ accept[s] = "online"
          => accept'[s] = "online"
  BY <1>2, <1>3 DEF ConnTypeInv, ConnTypeOK
<1> QED BY <1>2, <1>4, <1>5, <1>6, OnlineKept DEF SocketInv

LEMMA RejectInherits ==
  ASSUME ConnTypeInv, NEW p \in Pods, Reject(p), NEW ops, "clear" \notin ops
  PROVE  Inherits(ops)
<1>0. PICK c : c = Head(pipe[p])
  OBVIOUS
<1>1. CASE ~Shut(c)
  <2>1. Taken(pipe, pipe', p, c)
    BY <1>0, <1>1, RejectPipe
  <2> QED BY <2>1, TakeInherits DEF ConnTypeInv
<1>2. CASE Shut(c)
  <2> DEFINE clear == Command("clear", c.sock, NoOne)
  <2>1. PICK rest \in Pipes : Taken(pipe, rest, p, c) /\ Appended(rest, pipe', p, clear)
    BY <1>0, <1>2, RejectPipe
  <2>2. clear.op \notin ops
    BY DEF Command
  <2> HIDE DEF clear
  <2>3. \A i \in DOMAIN pipe'[p] : pipe'[p][i].op \in ops =>
          i \in Nat /\ i + 1 \in DOMAIN pipe[p] /\ pipe[p][i + 1] = pipe'[p][i]
    BY <2>1, <2>2 DEF Appended, Taken
  <2>4. ASSUME NEW q \in Pods \ {p}
        PROVE  \A i \in DOMAIN pipe'[q] :
                 i \in Nat /\ i + 0 \in DOMAIN pipe[q] /\ pipe[q][i + 0] = pipe'[q][i]
    <3>1. \A i \in DOMAIN pipe[q] : i \in Nat /\ i + 0 = i
      BY PipeIndices DEF ConnTypeInv
    <3>2. pipe'[q] = pipe[q]
      BY <2>1 DEF Appended, Taken
    <3> QED BY <3>1, <3>2
  <2> QED BY <2>3, <2>4 DEF Inherits
<1> QED BY <1>1, <1>2

\* A command that is not the head, and not a clear, stays where it is.
LEMMA RejectLeaves ==
  ASSUME ConnTypeInv, NEW p \in Pods, Reject(p), NEW c, c = Head(pipe[p])
  PROVE  \E rest \in Pipes :
           /\ Taken(pipe, rest, p, c)
           /\ \A q \in Pods : \A i \in DOMAIN pipe'[q] :
                pipe'[q][i].op # "clear" => i \in DOMAIN rest[q] /\ rest[q][i] = pipe'[q][i]
<1>1. CASE ~Shut(c)
  BY <1>1, RejectPipe
<1>2. CASE Shut(c)
  <2> DEFINE clear == Command("clear", c.sock, NoOne)
  <2>1. PICK rest \in Pipes : Taken(pipe, rest, p, c) /\ Appended(rest, pipe', p, clear)
    BY <1>2, RejectPipe
  <2>2. clear.op = "clear"
    BY DEF Command
  <2> HIDE DEF clear
  <2>3. \A q \in Pods : \A i \in DOMAIN pipe'[q] :
          pipe'[q][i].op # "clear" => i \in DOMAIN rest[q] /\ rest[q][i] = pipe'[q][i]
    BY <2>1, <2>2 DEF Appended
  <2> QED BY <2>1, <2>3
<1> QED BY <1>1, <1>2

LEMMA RejectLives ==
  ASSUME ConnTypeInv, SocketInv, NEW p \in Pods, Reject(p)
  PROVE  SocketInv'
<1>0. PICK c : c = Head(pipe[p])
  OBVIOUS
<1>1. PICK rest \in Pipes :
        /\ Taken(pipe, rest, p, c)
        /\ \A q \in Pods : \A i \in DOMAIN pipe'[q] :
             pipe'[q][i].op # "clear" => i \in DOMAIN rest[q] /\ rest[q][i] = pipe'[q][i]
  BY <1>0, RejectLeaves
<1>2. c.op = "online" =>
        /\ c.sock \in Sockets /\ accept[c.sock] = "online"
        /\ \A q \in Pods : \A i \in DOMAIN pipe'[q] :
             pipe'[q][i].op = "online" => pipe'[q][i].sock # c.sock
  BY <1>1, HeadOnline
<1>3. /\ accept' = IF c.op = "online" THEN [accept EXCEPT ![c.sock] = "done"] ELSE accept
      /\ link' = IF Shut(c) THEN [link EXCEPT ![c.sock] = "down"] ELSE link
      /\ UNCHANGED <<home, interval, overtaken>>
  BY <1>0, RejectEffect DEF Shut
<1>4. \A t \in Sockets : LifeInv(t)'
  BY <1>2, <1>3 DEF Shut, ConnTypeInv, ConnTypeOK, SocketInv, LifeInv
<1>5. Inherits({"online"})
  BY RejectInherits
<1>6. \A q \in Pods : \A i \in DOMAIN pipe'[q] :
        LET s == pipe'[q][i].sock IN
        pipe'[q][i].op = "online" /\ s \in Sockets /\ home[s] = q /\ accept[s] = "online"
          => accept'[s] = "online"
  BY <1>2, <1>3 DEF ConnTypeInv, ConnTypeOK
<1> QED BY <1>3, <1>4, <1>5, <1>6, OnlineKept DEF SocketInv

LEMMA CrashLives ==
  ASSUME ConnTypeInv, SocketInv, NEW p \in Pods, crash(p)
  PROVE  SocketInv'
<1>1. \A t \in Sockets : LifeInv(t)'
  BY DEF crash, ConnTypeInv, ConnTypeOK, SocketInv, LifeInv
<1>2. /\ \A q \in Pods \ {p} : pipe'[q] = pipe[q]
      /\ pipe'[p] = <<>> /\ UNCHANGED home
      /\ \A t \in Sockets : home[t] # p => accept'[t] = accept[t]
  BY DEF crash, ConnTypeInv, ConnTypeOK, Pipes
<1>3. OnlineInv'
  BY <1>2 DEF SocketInv, OnlineInv
<1> QED BY <1>1, <1>3 DEF SocketInv

LEMMA SocketStep == ConnTypeInv /\ SocketInv /\ [ConnNext]_connVars => SocketInv'
<1> SUFFICES ASSUME ConnTypeInv, SocketInv, [ConnNext]_connVars
             PROVE  SocketInv'
  OBVIOUS
<1>1. ASSUME NEW s \in Sockets,
             \/ handleConnection(s) \/ refuseConnection(s) \/ startHeartbeat(s)
             \/ authenticate(s) \/ markOffline(s) \/ heartbeat(s) \/ renew(s) \/ close(s)
             \/ \E o \in Owners : stopViewing(s, o) \/ startViewing(s, o)
      PROVE  SocketInv'
  BY <1>1, AcceptStepLives, AuthenticateLives, SendLives
<1>2. ASSUME NEW p \in Pods,
             Execute(p) \/ Reject(p) \/ crash(p) \/ \E o \in Owners : isViewingStopped(p, o)
      PROVE  SocketInv'
  BY <1>2, ExecuteLives, RejectLives, CrashLives, AskLives
<1>3. CASE tick
  BY <1>3 DEF tick, SocketInv, LifeInv, OnlineInv
<1>4. CASE UNCHANGED connVars
  BY <1>4 DEF connVars, presenceVars, SocketInv, LifeInv, OnlineInv
<1> QED BY <1>1, <1>2, <1>3, <1>4 DEF ConnNext

LEMMA SocketsLive == ConnSpec => []SocketInv
<1>1. ConnSpec => []ConnTypeInv
  BY TypesHold
<1> QED BY <1>1, SocketInit, SocketStep, PTL DEF ConnSpec

(* A heartbeat timer that runs for a socket that has closed was started by a *)
(* handleConnection that the close had overtaken: handleDisconnect found no  *)
(* timer to stop (location.gateway.ts:147, 162).                             *)
THEOREM LeaksComeFromOverlap == ConnSpec => []LeakNeedsOverlap
<1>1. ConnTypeInv /\ SocketInv => LeakNeedsOverlap
  BY DEF ConnTypeInv, ConnTypeOK, SocketInv, LifeInv, LeakNeedsOverlap
<1> QED BY <1>1, TypesHold, SocketsLive, PTL

-----------------------------------------------------------------------------
(* The presence key.  As long as nobody has wiped it, every running timer     *)
(* stands before a renewal of the key: the key is new, the timer is due, the  *)
(* heartbeat asks or is about to set the key, or the key lives and is about   *)
(* to be renewed.  A connection is entitled to its timer while the key it     *)
(* has set is new.                                                           *)
Sent(s, op) ==
  \E i \in DOMAIN pipe[home[s]] : pipe[home[s]][i].op = op /\ pipe[home[s]][i].sock = s

RenewalUnderWay(s) ==
  \/ presence = PresenceTtl \/ s \in due \/ beat[s] \in {"get", "none"} \/ Sent(s, "revive")
  \/ presence > 0 /\ (beat[s] = "found" \/ Sent(s, "expire"))

PresenceInv ==
  ~wiped => /\ \A s \in interval : RenewalUnderWay(s)
            /\ \A s \in Sockets : accept[s] = "marked" => presence = PresenceTtl

\* What has been sent and is not taken is still there.
LEMMA SentStays ==
  ASSUME ConnTypeInv, UNCHANGED home, NEW s \in Sockets, NEW op, Sent(s, op),
         \/ UNCHANGED pipe
         \/ \E p \in Pods, c \in Commands : Appended(pipe, pipe', p, c)
         \/ \E p \in Pods, c \in Commands : Taken(pipe, pipe', p, c) /\ c.op # op
         \/ \E p \in Pods : p # home[s] /\ \A q \in Pods \ {p} : pipe'[q] = pipe[q]
  PROVE  Sent(s, op)'
<1>1. home[s] \in Pods
  BY DEF ConnTypeInv, ConnTypeOK
<1>2. PICK i \in DOMAIN pipe[home[s]] :
        pipe[home[s]][i].op = op /\ pipe[home[s]][i].sock = s
  BY DEF Sent
<1>3. ASSUME NEW p \in Pods, NEW c \in Commands, Appended(pipe, pipe', p, c)
      PROVE  Sent(s, op)'
  <2>1. i \in DOMAIN pipe'[home[s]] /\ pipe'[home[s]][i] = pipe[home[s]][i]
    BY <1>1, <1>3 DEF Appended
  <2> QED BY <1>2, <2>1 DEF Sent
<1>4. ASSUME NEW p \in Pods, NEW c \in Commands, Taken(pipe, pipe', p, c), c.op # op
      PROVE  Sent(s, op)'
  <2>1. CASE p = home[s]
    <3>1. i \in Nat \ {0} /\ i # 1 /\ i - 1 \in DOMAIN pipe'[p]
      BY <1>2, <1>4, <2>1 DEF Taken
    <3>2. pipe'[p][i - 1] = pipe[p][(i - 1) + 1] /\ (i - 1) + 1 = i
      BY <1>4, <3>1 DEF Taken
    <3> QED BY <1>2, <2>1, <3>1, <3>2 DEF Sent
  <2>2. CASE p # home[s]
    BY <1>1, <1>2, <1>4, <2>2 DEF Taken, Sent
  <2> QED BY <2>1, <2>2
<1>5. CASE UNCHANGED pipe
  BY <1>2, <1>5 DEF Sent
<1>6. ASSUME NEW p \in Pods, p # home[s], \A q \in Pods \ {p} : pipe'[q] = pipe[q]
      PROVE  Sent(s, op)'
  BY <1>1, <1>2, <1>6 DEF Sent
<1> QED BY <1>3, <1>4, <1>5, <1>6

LEMMA PresenceInit == ConnInit => PresenceInv
BY DEF ConnInit, PresenceInv

\* Steps that only let go of timers, and that send at most something else.
LEMMA OtherPresence ==
  ASSUME ConnTypeInv, PresenceInv, UNCHANGED <<home, presence, wiped>>,
         NEW s \in Sockets, UNCHANGED pipe \/ \E c \in Commands : Appended(pipe, pipe', home[s], c),
         interval' \subseteq interval, \A t \in interval' : t \in due => t \in due',
         \A t \in interval' : beat'[t] = beat[t],
         \A t \in Sockets : accept'[t] = "marked" => accept[t] = "marked"
  PROVE  PresenceInv'
<1> SUFFICES ASSUME ~wiped
             PROVE  /\ \A t \in interval' : RenewalUnderWay(t)'
                    /\ \A t \in Sockets : accept'[t] = "marked" => presence = PresenceTtl
  BY DEF PresenceInv
<1>1. home[s] \in Pods /\ interval \subseteq Sockets
  BY DEF ConnTypeInv, ConnTypeOK
<1>2. ASSUME NEW t \in interval'
      PROVE  RenewalUnderWay(t)'
  <2>1. RenewalUnderWay(t)
    BY DEF PresenceInv
  <2>2. \A op \in {"revive", "expire"} : Sent(t, op) => Sent(t, op)'
    BY <1>1, SentStays
  <2> QED BY <2>1, <2>2 DEF RenewalUnderWay
<1>3. \A t \in Sockets : accept'[t] = "marked" => presence = PresenceTtl
  BY DEF PresenceInv
<1> QED BY <1>2, <1>3

\* A step of the timer of s: it comes due, or its heartbeat goes on.
LEMMA BeatPresence ==
  ASSUME ConnTypeInv, PresenceInv, NEW s \in Sockets, heartbeat(s) \/ renew(s)
  PROVE  PresenceInv'
<1> SUFFICES ASSUME ~wiped
             PROVE  /\ \A t \in interval : RenewalUnderWay(t)'
                    /\ \A t \in Sockets : accept[t] = "marked" => presence = PresenceTtl
  BY DEF PresenceInv, heartbeat, renew
<1>1. home[s] \in Pods /\ interval \subseteq Sockets
  BY DEF ConnTypeInv, ConnTypeOK
<1>2. PICK op \in KeyOps : Send(s, op, NoOne) /\ op # "sadd"
                           /\ (renew(s) => op = IF beat[s] = "found" THEN "expire" ELSE "revive")
  BY DEF heartbeat, renew, KeyOps
<1> DEFINE c == Command(op, s, NoOne)
<1>3. c \in Commands /\ Appended(pipe, pipe', home[s], c) /\ c.op = op /\ c.sock = s
  BY <1>2, SendPipe DEF Ops, Command
<1> HIDE DEF c
<1>4. UNCHANGED <<home, presence>>
  BY DEF heartbeat, renew
<1>5. ASSUME NEW t \in interval, t # s
      PROVE  RenewalUnderWay(t)'
  <2>1. RenewalUnderWay(t)
    BY DEF PresenceInv
  <2>2. \A o \in {"revive", "expire"} : Sent(t, o) => Sent(t, o)'
    BY <1>1, <1>3, <1>4, SentStays
  <2>3. beat'[t] = beat[t] /\ (t \in due => t \in due')
    BY <1>1, <1>5 DEF heartbeat, renew, At, ConnTypeInv, ConnTypeOK
  <2> QED BY <1>4, <2>1, <2>2, <2>3 DEF RenewalUnderWay
<1>6. CASE heartbeat(s)
  <2>1. beat'[s] = "get"
    BY <1>6 DEF heartbeat, At, ConnTypeInv, ConnTypeOK
  <2> QED BY <1>5, <2>1 DEF RenewalUnderWay, PresenceInv
<1>7. CASE renew(s)
  <2>1. Sent(s, op)'
    <3>1. PICK n \in DOMAIN pipe'[home[s]] : pipe'[home[s]][n] = c
      BY <1>3 DEF Appended
    <3> QED BY <1>3, <1>4, <3>1 DEF Sent
  <2>2. s \in interval => RenewalUnderWay(s)'
    <3>1. s \in interval => RenewalUnderWay(s)
      BY DEF PresenceInv
    <3>2. (op = "revive" \/ (op = "expire" /\ beat[s] = "found")) /\ due' = due
      BY <1>2, <1>7 DEF renew
    <3>3. \A o \in {"revive", "expire"} : Sent(s, o) => Sent(s, o)'
      BY <1>1, <1>3, <1>4, SentStays
    <3> QED BY <1>4, <2>1, <3>1, <3>2, <3>3 DEF RenewalUnderWay
  <2> QED BY <1>5, <2>2 DEF PresenceInv
<1> QED BY <1>6, <1>7

LEMMA ExecutePresence ==
  ASSUME ConnTypeInv, SocketInv, PresenceInv, NEW p \in Pods, Execute(p)
  PROVE  PresenceInv'
<1>0. PICK c : c = Head(pipe[p])
  OBVIOUS
<1>1. c \in Commands /\ Taken(pipe, pipe', p, c)
  BY <1>0, ExecutePipe DEF Taken
<1>2. /\ RenewsKey(c.op) => presence' = PresenceTtl
      /\ ~RenewsKey(c.op) /\ c.op # "offline" => presence' = presence
      /\ wiped' = (wiped \/ c.op = "offline")
      /\ accept' = IF c.op = "online" THEN [accept EXCEPT ![c.sock] = "marked"] ELSE accept
      /\ beat' = IF c.op = "get"
                 THEN [beat EXCEPT ![c.sock] = IF presence > 0 THEN "found" ELSE "none"]
                 ELSE beat
      /\ UNCHANGED <<home, interval, due>>
  BY <1>0, ExecuteEffect
<1> SUFFICES ASSUME ~wiped, c.op # "offline"
             PROVE  /\ \A t \in interval : RenewalUnderWay(t)'
                    /\ \A t \in Sockets : accept'[t] = "marked" => presence' = PresenceTtl
  BY <1>2 DEF PresenceInv
<1>3. CASE RenewsKey(c.op)
  BY <1>2, <1>3 DEF RenewalUnderWay
<1>4. CASE ~RenewsKey(c.op)
  <2>1. presence' = presence /\ c.op \notin {"online", "revive"} /\ accept' = accept
        /\ (c.op = "expire" => ~(presence > 0))
    BY <1>2, <1>4 DEF RenewsKey, SetsKey
  <2>2. ASSUME NEW t \in interval
        PROVE  RenewalUnderWay(t)'
    <3>1. RenewalUnderWay(t) /\ t \in Sockets
      BY DEF PresenceInv, ConnTypeInv, ConnTypeOK
    <3>2. /\ Sent(t, "revive") => Sent(t, "revive")'
          /\ presence > 0 /\ Sent(t, "expire") => Sent(t, "expire")'
      BY <1>1, <1>2, <2>1, <3>1, SentStays
    <3>3. \/ beat'[t] = beat[t]
          \/ beat'[t] = IF presence > 0 THEN "found" ELSE "none"
      BY <1>2, <3>1 DEF ConnTypeInv, ConnTypeOK
    <3> QED BY <1>2, <2>1, <3>1, <3>2, <3>3 DEF RenewalUnderWay
  <2> QED BY <2>1, <2>2 DEF PresenceInv
<1> QED BY <1>3, <1>4

LEMMA RejectPresence ==
  ASSUME ConnTypeInv, PresenceInv, NEW p \in Pods, Reject(p)
  PROVE  PresenceInv'
<1>0. PICK c : c = Head(pipe[p])
  OBVIOUS
<1>1. wiped' = (wiped \/ c.op \in KeyOps) /\ UNCHANGED <<home, interval, due, presence>>
  BY <1>0, RejectEffect
<1> SUFFICES ASSUME ~wiped, c.op \notin KeyOps
             PROVE  /\ \A t \in interval : RenewalUnderWay(t)'
                    /\ \A t \in Sockets : accept'[t] = "marked" => presence = PresenceTtl
  BY <1>1 DEF PresenceInv
<1>2. c.op \notin {"online", "get", "revive", "expire"} /\ ~Shut(c)
  BY DEF KeyOps, Shut
<1>3. accept' = accept /\ beat' = beat
  BY <1>0, <1>2, RejectEffect
<1>4. c \in Commands /\ Taken(pipe, pipe', p, c)
  BY <1>0, <1>2, RejectPipe
<1>5. ASSUME NEW t \in interval
      PROVE  RenewalUnderWay(t)'
  <2>1. RenewalUnderWay(t) /\ t \in Sockets
    BY DEF PresenceInv, ConnTypeInv, ConnTypeOK
  <2>2. \A o \in {"revive", "expire"} : Sent(t, o) => Sent(t, o)'
    BY <1>1, <1>2, <1>4, <2>1, SentStays
  <2> QED BY <1>1, <1>3, <2>1, <2>2 DEF RenewalUnderWay
<1> QED BY <1>1, <1>3, <1>5 DEF PresenceInv

LEMMA CrashPresence ==
  ASSUME ConnTypeInv, PresenceInv, NEW p \in Pods, crash(p)
  PROVE  PresenceInv'
<1> SUFFICES ASSUME ~wiped
             PROVE  /\ \A t \in interval' : RenewalUnderWay(t)'
                    /\ \A t \in Sockets : accept'[t] = "marked" => presence' = PresenceTtl
  BY DEF PresenceInv, crash
<1>1. /\ UNCHANGED <<home, presence>> /\ interval' \subseteq interval
      /\ \A t \in interval' : t \in Sockets /\ home[t] # p
      /\ \A t \in Sockets : home[t] # p => /\ beat'[t] = beat[t] /\ (t \in due => t \in due')
      /\ \A q \in Pods \ {p} : pipe'[q] = pipe[q]
      /\ \A t \in Sockets : accept'[t] = "marked" => accept[t] = "marked"
  BY DEF crash, ConnTypeInv, ConnTypeOK, Pipes
<1>2. ASSUME NEW t \in interval'
      PROVE  RenewalUnderWay(t)'
  <2>1. RenewalUnderWay(t)
    BY <1>1 DEF PresenceInv
  <2>2. \A o \in {"revive", "expire"} : Sent(t, o) => Sent(t, o)'
    BY <1>1, SentStays
  <2> QED BY <1>1, <2>1, <2>2 DEF RenewalUnderWay
<1>3. \A t \in Sockets : accept'[t] = "marked" => presence' = PresenceTtl
  BY <1>1 DEF PresenceInv
<1> QED BY <1>2, <1>3

LEMMA StartPresence ==
  ASSUME ConnTypeInv, PresenceInv, NEW s \in Sockets, startHeartbeat(s)
  PROVE  PresenceInv'
<1>1. /\ UNCHANGED <<home, presence, wiped, due, beat, pipe>> /\ interval' = interval \cup {s}
      /\ accept[s] = "marked" /\ \A t \in Sockets : accept'[t] = "marked" => accept[t] = "marked"
  BY DEF startHeartbeat, At, ConnTypeInv, ConnTypeOK
<1>2. \A t \in interval : RenewalUnderWay(t) => RenewalUnderWay(t)'
  BY <1>1 DEF RenewalUnderWay, Sent
<1>3. ~wiped => RenewalUnderWay(s)'
  BY <1>1 DEF PresenceInv, RenewalUnderWay
<1> QED BY <1>1, <1>2, <1>3 DEF PresenceInv

LEMMA TickPresence ==
  ASSUME ConnTypeInv, tick
  PROVE  PresenceInv'
<1>1. due' = interval' /\ \A t \in Sockets : accept'[t] # "marked"
  BY DEF tick, Quiet
<1> QED BY <1>1 DEF PresenceInv, RenewalUnderWay

LEMMA SocketPresence ==
  ASSUME ConnTypeInv, SocketInv, PresenceInv, NEW s \in Sockets,
         \/ handleConnection(s) \/ refuseConnection(s) \/ authenticate(s) \/ markOffline(s)
         \/ close(s) \/ \E o \in Owners : stopViewing(s, o) \/ startViewing(s, o)
  PROVE  PresenceInv'
<1>1. UNCHANGED pipe \/ \E c \in Commands : Appended(pipe, pipe', home[s], c)
  <2>1. \/ UNCHANGED pipe
        \/ \E op \in Ops, o \in Owners \cup {NoOne} :
             Send(s, op, o) /\ (op = "sadd" => o \in Owners)
    <3>1. CASE handleConnection(s) \/ refuseConnection(s)
      BY <3>1 DEF handleConnection, refuseConnection
    <3>2. CASE authenticate(s) \/ markOffline(s)
      BY <3>2 DEF authenticate, markOffline, Ops, KeyOps
    <3>3. CASE close(s)
      BY <3>3 DEF close, handleDisconnect, clearAllForSession, Ops, SetOps
    <3>4. ASSUME NEW o \in Owners, stopViewing(s, o) \/ startViewing(s, o)
          PROVE  \E op \in Ops : Send(s, op, o)
      BY <3>4 DEF stopViewing, startViewing, Ops, SetOps
    <3> QED BY <3>1, <3>2, <3>3, <3>4
  <2> QED BY <2>1, SendPipe
<1>2. UNCHANGED <<home, presence, wiped, beat>>
  BY DEF handleConnection, refuseConnection, authenticate, markOffline, close, stopViewing,
         startViewing, presenceVars
<1>3. interval' \subseteq interval /\ \A t \in interval' : t \in due => t \in due'
  BY DEF handleConnection, refuseConnection, authenticate, markOffline, close,
         handleDisconnect, stopHeartbeat, stopViewing, startViewing, presenceVars
<1>4. \A t \in Sockets : accept'[t] = "marked" => accept[t] = "marked"
  BY DEF handleConnection, refuseConnection, authenticate, markOffline, close, stopViewing,
         startViewing, presenceVars, At, ConnTypeInv, ConnTypeOK
<1> QED BY <1>1, <1>2, <1>3, <1>4, OtherPresence

LEMMA AskPresence ==
  ASSUME ConnTypeInv, PresenceInv, NEW p \in Pods, NEW o \in Owners, isViewingStopped(p, o)
  PROVE  PresenceInv'
<1>1. UNCHANGED <<home, presenceVars>>
  BY DEF isViewingStopped
<1>2. UNCHANGED pipe \/ \E c \in Commands : Appended(pipe, pipe', p, c)
  <2>1. CASE o \in local[p]
    BY <2>1 DEF isViewingStopped
  <2>2. CASE o \notin local[p]
    BY <2>2, AskPipe
  <2> QED BY <2>1, <2>2
<1>3. ASSUME NEW t \in Sockets, RenewalUnderWay(t)
      PROVE  RenewalUnderWay(t)'
  <2>1. \A op \in {"revive", "expire"} : Sent(t, op) => Sent(t, op)'
    BY <1>1, <1>2, SentStays
  <2> QED BY <1>1, <1>3, <2>1 DEF RenewalUnderWay, presenceVars
<1> QED BY <1>1, <1>3 DEF PresenceInv, presenceVars, ConnTypeInv, ConnTypeOK

LEMMA PresenceStep ==
  ConnTypeInv /\ SocketInv /\ PresenceInv /\ [ConnNext]_connVars => PresenceInv'
<1> SUFFICES ASSUME ConnTypeInv, SocketInv, PresenceInv, [ConnNext]_connVars
             PROVE  PresenceInv'
  OBVIOUS
<1>1. ASSUME NEW s \in Sockets,
             \/ handleConnection(s) \/ refuseConnection(s) \/ startHeartbeat(s)
             \/ authenticate(s) \/ markOffline(s) \/ heartbeat(s) \/ renew(s) \/ close(s)
             \/ \E o \in Owners : stopViewing(s, o) \/ startViewing(s, o)
      PROVE  PresenceInv'
  BY <1>1, SocketPresence, StartPresence, BeatPresence
<1>2. ASSUME NEW p \in Pods,
             Execute(p) \/ Reject(p) \/ crash(p) \/ \E o \in Owners : isViewingStopped(p, o)
      PROVE  PresenceInv'
  BY <1>2, ExecutePresence, RejectPresence, CrashPresence, AskPresence
<1>3. CASE tick
  BY <1>3, TickPresence
<1>4. CASE UNCHANGED connVars
  BY <1>4 DEF connVars, presenceVars, PresenceInv, RenewalUnderWay, Sent
<1> QED BY <1>1, <1>2, <1>3, <1>4 DEF ConnNext

LEMMA PresenceHolds == ConnSpec => []PresenceInv
<1>1. ConnSpec => []ConnTypeInv
  BY TypesHold
<1>2. ConnSpec => []SocketInv
  BY SocketsLive
<1> QED BY <1>1, <1>2, PresenceInit, PresenceStep, PTL DEF ConnSpec

(* The user of an open, accepted socket whose heartbeats have all been       *)
(* answered is offline only after a markOffline of another socket, or after   *)
(* a failure of Redis or of a pod: an interval never ends without the key.    *)
THEOREM OfflineHasACause == ConnSpec => []OfflineExplained
<1>1. ASSUME ConnTypeInv, SocketInv, PresenceInv
      PROVE  OfflineExplained
  <2> SUFFICES ASSUME Quiet, presence = 0, ~wiped, NEW s \in Sockets, Registered(s)
               PROVE  FALSE
    BY DEF OfflineExplained
  <2>1. s \in interval
    BY <1>1 DEF Registered, SocketInv, LifeInv
  <2>2. RenewalUnderWay(s)
    BY <1>1, <2>1 DEF PresenceInv
  <2>3. ~Sent(s, "revive")
    <3>1. home[s] \in Pods
      BY <1>1 DEF ConnTypeInv, ConnTypeOK
    <3> QED BY <3>1 DEF Quiet, Carries, Sent, KeyOps
  <2> QED BY <2>2, <2>3 DEF RenewalUnderWay, Quiet, PresenceTtl
<1> QED BY <1>1, TypesHold, SocketsLive, PresenceHolds, PTL

-----------------------------------------------------------------------------
(* The set of stopped owners.  Unless commands of two pods have crossed, all   *)
(* the changes on their way to Redis are in one pipe; the last of them that    *)
(* names an owner says whether the owner is stopped, and where none is left    *)
(* Redis says it.                                                             *)
Names(c, o) == c.op = "clear" \/ (c.op \in {"sadd", "srem"} /\ c.owner = o)

Changes(pipes, p) == \E i \in DOMAIN pipes[p] : pipes[p][i].op \in SetOps

OnePodSends(pipes) == \A p, q \in Pods : Changes(pipes, p) /\ Changes(pipes, q) => p = q

Last(pipes, p, i, o) ==
  /\ i \in DOMAIN pipes[p] /\ Names(pipes[p][i], o)
  /\ \A j \in DOMAIN pipes[p] : Names(pipes[p][j], o) => j <= i

PromiseOf(pipes, wanted, kept, o) ==
  /\ (\A p \in Pods : \A i \in DOMAIN pipes[p] : ~Names(pipes[p][i], o)) =>
       (o \in wanted <=> o \in kept)
  /\ \A p \in Pods : \A i \in DOMAIN pipes[p] :
       Last(pipes, p, i, o) => (o \in wanted <=> pipes[p][i].op = "sadd")

Promises(pipes, wanted, kept) ==
  OnePodSends(pipes) /\ \A o \in Owners : PromiseOf(pipes, wanted, kept, o)

PromiseInv == ~blurred => Promises(pipe, promise, stops)

\* A pod sends a command: if it is a change, then it is what is wanted now, and
\* no other pod has a change under way.
LEMMA SendPromises ==
  ASSUME NEW old \in Pipes, NEW new \in Pipes, NEW p \in Pods, NEW c \in Commands,
         Appended(old, new, p, c), NEW wanted, NEW nowWanted, NEW kept,
         Promises(old, wanted, kept),
         c.op \in SetOps => \A q \in Pods \ {p} : ~Changes(old, q),
         \A o \in Owners : o \in nowWanted <=> IF Names(c, o) THEN c.op = "sadd" ELSE o \in wanted
  PROVE  Promises(new, nowWanted, kept)
<1>1. PICK n \in DOMAIN new[p] :
        /\ new[p][n] = c /\ DOMAIN new[p] = DOMAIN old[p] \cup {n}
        /\ n \in Nat /\ \A i \in DOMAIN old[p] : i \in Nat /\ i < n
  BY DEF Appended
<1>2. /\ \A q \in Pods \ {p} : new[q] = old[q]
      /\ \A i \in DOMAIN old[p] : new[p][i] = old[p][i]
  BY DEF Appended
<1>3. OnePodSends(new)
  <2>1. \A q \in Pods : Changes(new, q) => Changes(old, q) \/ (q = p /\ c.op \in SetOps)
    BY <1>1, <1>2 DEF Changes
  <2> QED BY <2>1 DEF Promises, OnePodSends
<1>4. ASSUME NEW o \in Owners
      PROVE  PromiseOf(new, nowWanted, kept, o)
  <2>1. PromiseOf(old, wanted, kept, o)
    BY DEF Promises
  <2>2. CASE Names(c, o)
    <3>1. c.op \in SetOps
      BY <2>2 DEF Names, SetOps
    <3>2. \A q \in Pods \ {p} : \A i \in DOMAIN new[q] : ~Names(new[q][i], o)
      BY <1>2, <3>1 DEF Changes, Names, SetOps
    <3>3. \A i \in DOMAIN new[p] : Last(new, p, i, o) => i = n
      <4>1. \A i \in DOMAIN new[p] : i # n => ~(n <= i)
        BY <1>1
      <4> QED BY <1>1, <2>2, <4>1 DEF Last
    <3> QED BY <1>1, <2>2, <3>2, <3>3 DEF PromiseOf, Last
  <2>3. CASE ~Names(c, o)
    <3>1. \A q \in Pods : \A i \in DOMAIN old[q] : i \in DOMAIN new[q] /\ new[q][i] = old[q][i]
      BY <1>1, <1>2
    <3>2. \A q \in Pods : \A i \in DOMAIN new[q] :
            Names(new[q][i], o) => i \in DOMAIN old[q] /\ new[q][i] = old[q][i]
      BY <1>1, <1>2, <2>3
    <3>3. \A q \in Pods : \A i \in DOMAIN new[q] :
            Last(new, q, i, o) => Last(old, q, i, o) /\ new[q][i] = old[q][i]
      BY <3>1, <3>2 DEF Last
    <3>4. o \in nowWanted <=> o \in wanted
      BY <2>3
    <3>5. (\A q \in Pods : \A i \in DOMAIN new[q] : ~Names(new[q][i], o)) =>
            \A q \in Pods : \A i \in DOMAIN old[q] : ~Names(old[q][i], o)
      BY <3>1
    <3>6. \A q \in Pods : \A i \in DOMAIN new[q] :
            Last(new, q, i, o) => (o \in nowWanted <=> new[q][i].op = "sadd")
      BY <2>1, <3>3, <3>4 DEF PromiseOf, Last
    <3> QED BY <2>1, <3>4, <3>5, <3>6 DEF PromiseOf
  <2> QED BY <2>2, <2>3
<1> QED BY <1>3, <1>4 DEF Promises

\* The head of a pipe is taken, and done if it is a change.
LEMMA TakePromises ==
  ASSUME NEW old \in Pipes, NEW new \in Pipes, NEW p \in Pods, NEW c,
         Taken(old, new, p, c), NEW wanted, NEW kept, NEW nowKept,
         Promises(old, wanted, kept),
         \A o \in Owners : o \in nowKept <=> IF Names(c, o) THEN c.op = "sadd" ELSE o \in kept
  PROVE  Promises(new, wanted, nowKept)
<1>1. /\ \A q \in Pods \ {p} : new[q] = old[q]
      /\ 1 \in DOMAIN old[p] /\ old[p][1] = c
      /\ \A i \in DOMAIN new[p] : /\ i \in Nat \ {0} /\ i + 1 \in DOMAIN old[p]
                                  /\ new[p][i] = old[p][i + 1]
      /\ \A i \in DOMAIN old[p] : i \in Nat \ {0} /\ (i = 1 \/ i - 1 \in DOMAIN new[p])
  BY DEF Taken
<1>2. \A i \in DOMAIN old[p] : i # 1 =>
        i - 1 \in DOMAIN new[p] /\ new[p][i - 1] = old[p][i] /\ i \in Nat
  <2> SUFFICES ASSUME NEW i \in DOMAIN old[p], i # 1
               PROVE  i - 1 \in DOMAIN new[p] /\ new[p][i - 1] = old[p][i] /\ i \in Nat
    OBVIOUS
  <2>1. i \in Nat /\ i - 1 \in DOMAIN new[p]
    BY <1>1
  <2>2. new[p][i - 1] = old[p][(i - 1) + 1] /\ (i - 1) + 1 = i
    BY <1>1, <2>1
  <2> QED BY <2>1, <2>2
<1>3. OnePodSends(new)
  <2>1. \A q \in Pods : Changes(new, q) => Changes(old, q)
    BY <1>1 DEF Changes
  <2> QED BY <2>1 DEF Promises, OnePodSends
<1>4. ASSUME NEW o \in Owners
      PROVE  PromiseOf(new, wanted, nowKept, o)
  <2>1. PromiseOf(old, wanted, kept, o)
    BY DEF Promises
  <2>2. ASSUME \A q \in Pods : \A i \in DOMAIN new[q] : ~Names(new[q][i], o)
        PROVE  o \in wanted <=> o \in nowKept
    <3>1. \A q \in Pods : \A i \in DOMAIN old[q] : Names(old[q][i], o) => q = p /\ i = 1
      BY <1>1, <1>2, <2>2
    <3>2. CASE Names(c, o)
      <4>1. Last(old, p, 1, o)
        BY <1>1, <3>1, <3>2 DEF Last
      <4> QED BY <1>1, <2>1, <3>2, <4>1 DEF PromiseOf
    <3>3. CASE ~Names(c, o)
      BY <1>1, <2>1, <3>1, <3>3 DEF PromiseOf
    <3> QED BY <3>2, <3>3
  <2>3. ASSUME NEW q \in Pods, NEW i \in DOMAIN new[q], Last(new, q, i, o)
        PROVE  o \in wanted <=> new[q][i].op = "sadd"
    <3>1. CASE q # p
      BY <1>1, <2>1, <2>3, <3>1 DEF PromiseOf, Last
    <3>2. CASE q = p
      <4>1. i \in Nat /\ i + 1 \in DOMAIN old[p] /\ new[p][i] = old[p][i + 1]
        BY <1>1, <3>2
      <4>2. ASSUME NEW j \in DOMAIN old[p], Names(old[p][j], o)
            PROVE  j <= i + 1
        <5>1. j # 1 => j - 1 \in DOMAIN new[p] /\ Names(new[p][j - 1], o) /\ j \in Nat
          BY <1>2, <4>2
        <5>2. j # 1 => j - 1 <= i /\ j \in Nat
          BY <2>3, <3>2, <5>1 DEF Last
        <5> QED BY <4>1, <5>2
      <4>3. Last(old, p, i + 1, o)
        BY <2>3, <3>2, <4>1, <4>2 DEF Last
      <4> QED BY <2>1, <3>2, <4>1, <4>3 DEF PromiseOf
    <3> QED BY <3>1, <3>2
  <2> QED BY <2>2, <2>3 DEF PromiseOf
<1> QED BY <1>3, <1>4 DEF Promises

\* A pod that has no change under way dies.
LEMMA DropPromises ==
  ASSUME NEW old \in Pipes, NEW new \in Pipes, NEW p \in Pods, new[p] = <<>>,
         \A q \in Pods \ {p} : new[q] = old[q], ~Changes(old, p), NEW wanted, NEW kept,
         Promises(old, wanted, kept)
  PROVE  Promises(new, wanted, kept)
<1>1. OnePodSends(new)
  BY DEF Promises, OnePodSends, Changes
<1>2. \A o \in Owners : \A i \in DOMAIN old[p] : ~Names(old[p][i], o)
  BY DEF Names, Changes, SetOps
<1>3. ASSUME NEW o \in Owners
      PROVE  PromiseOf(new, wanted, kept, o)
  <2>1. PromiseOf(old, wanted, kept, o)
    BY DEF Promises
  <2> QED BY <1>2, <2>1 DEF PromiseOf, Last
<1> QED BY <1>1, <1>3 DEF Promises

\* The steps that change what is wanted, and the ones that do not, as their
\* sends and what they do to the rest.
ChangeStep(s) ==
  /\ \E op \in SetOps, o \in Owners \cup {NoOne} :
       /\ Send(s, op, o) /\ (op = "sadd" => o \in Owners)
       /\ \A w \in Owners : w \in promise' <=>
            IF Names(Command(op, s, o), w) THEN op = "sadd" ELSE w \in promise
  /\ blurred' = (blurred \/ Crosses(home[s])) /\ Disturb
  /\ local'[home[s]] \subseteq promise' \/ ~(local[home[s]] \subseteq promise)
  /\ \A p \in Pods \ {home[s]} : local'[p] = local[p]
  /\ link[s] = "up" /\ UNCHANGED <<home, stops>>

OtherStep(s) ==
  /\ UNCHANGED pipe \/ \E op \in KeyOps : Send(s, op, NoOne)
  /\ UNCHANGED <<home, stopVars>>

LEMMA ChangesAre ==
  ASSUME ConnTypeInv, NEW s \in Sockets,
         \/ close(s) /\ UserKnown(s)
         \/ \E o \in Owners : stopViewing(s, o) \/ startViewing(s, o)
  PROVE  ChangeStep(s)
<1>1. home[s] \in Pods /\ local \in [Pods -> SUBSET Owners] /\ promise \subseteq Owners
  BY DEF ConnTypeInv, ConnTypeOK
<1>2. CASE close(s) /\ UserKnown(s)
  <2>1. clearAllForSession(s) /\ link[s] = "up" /\ UNCHANGED <<home, stops>>
    BY <1>2 DEF close, handleDisconnect
  <2>2. /\ "clear" \in SetOps /\ Send(s, "clear", NoOne)
        /\ \A w \in Owners : Names(Command("clear", s, NoOne), w)
        /\ promise' = {}
    BY <2>1 DEF clearAllForSession, SetOps, Names, Command
  <2>3. /\ blurred' = (blurred \/ Crosses(home[s])) /\ Disturb
        /\ local'[home[s]] = {} /\ \A p \in Pods \ {home[s]} : local'[p] = local[p]
    BY <1>1, <2>1 DEF clearAllForSession
  <2>4. \E op \in SetOps, o \in Owners \cup {NoOne} :
          /\ Send(s, op, o) /\ (op = "sadd" => o \in Owners)
          /\ \A w \in Owners : w \in promise' <=>
               IF Names(Command(op, s, o), w) THEN op = "sadd" ELSE w \in promise
    BY <2>2
  <2> QED BY <2>1, <2>3, <2>4 DEF ChangeStep
<1>3. ASSUME NEW o \in Owners, stopViewing(s, o)
      PROVE  ChangeStep(s)
  <2>1. /\ Send(s, "sadd", o) /\ "sadd" \in SetOps /\ link[s] = "up"
        /\ UNCHANGED <<home, stops>> /\ blurred' = (blurred \/ Crosses(home[s])) /\ Disturb
        /\ promise' = promise \cup {o}
    BY <1>3 DEF stopViewing, HeardFrom, SetOps, presenceVars
  <2>2. \A w \in Owners : Names(Command("sadd", s, o), w) <=> w = o
    BY DEF Names, Command
  <2>3. /\ local'[home[s]] = local[home[s]] \cup {o}
        /\ \A p \in Pods \ {home[s]} : local'[p] = local[p]
    BY <1>1, <1>3 DEF stopViewing
  <2>4. \A w \in Owners : w \in promise' <=>
          IF Names(Command("sadd", s, o), w) THEN TRUE ELSE w \in promise
    BY <2>1, <2>2
  <2>5. local'[home[s]] \subseteq promise' \/ ~(local[home[s]] \subseteq promise)
    BY <2>1, <2>3
  <2> QED BY <2>1, <2>3, <2>4, <2>5 DEF ChangeStep
<1>4. ASSUME NEW o \in Owners, startViewing(s, o)
      PROVE  ChangeStep(s)
  <2>1. /\ Send(s, "srem", o) /\ "srem" \in SetOps /\ link[s] = "up"
        /\ UNCHANGED <<home, stops>> /\ blurred' = (blurred \/ Crosses(home[s])) /\ Disturb
        /\ promise' = promise \ {o}
    BY <1>4 DEF startViewing, HeardFrom, SetOps, presenceVars
  <2>2. \A w \in Owners : Names(Command("srem", s, o), w) <=> w = o
    BY DEF Names, Command
  <2>3. /\ local'[home[s]] = local[home[s]] \ {o}
        /\ \A p \in Pods \ {home[s]} : local'[p] = local[p]
    BY <1>1, <1>4 DEF startViewing
  <2>4. \A w \in Owners : w \in promise' <=>
          IF Names(Command("srem", s, o), w) THEN FALSE ELSE w \in promise
    BY <2>1, <2>2
  <2>5. local'[home[s]] \subseteq promise' \/ ~(local[home[s]] \subseteq promise)
    BY <2>1, <2>3
  <2>6. "srem" # "sadd"
    OBVIOUS
  <2> QED BY <2>1, <2>3, <2>4, <2>5, <2>6 DEF ChangeStep
<1> QED BY <1>2, <1>3, <1>4

LEMMA OthersAre ==
  ASSUME NEW s \in Sockets,
         \/ handleConnection(s) \/ refuseConnection(s) \/ startHeartbeat(s)
         \/ authenticate(s) \/ markOffline(s) \/ heartbeat(s) \/ renew(s)
         \/ close(s) /\ ~UserKnown(s)
  PROVE  OtherStep(s)
<1>1. CASE handleConnection(s) \/ refuseConnection(s) \/ startHeartbeat(s)
  BY <1>1 DEF handleConnection, refuseConnection, startHeartbeat, OtherStep
<1>2. CASE authenticate(s) \/ markOffline(s)
  BY <1>2 DEF authenticate, markOffline, OtherStep, KeyOps
<1>3. CASE heartbeat(s) \/ renew(s)
  BY <1>3 DEF heartbeat, renew, OtherStep, KeyOps
<1>4. CASE close(s) /\ ~UserKnown(s)
  BY <1>4 DEF close, handleDisconnect, OtherStep, stopVars
<1> QED BY <1>1, <1>2, <1>3, <1>4

LEMMA CarriesChanges ==
  ASSUME NEW p \in Pods
  PROVE  /\ Carries(p, SetOps) <=> Changes(pipe, p)
         /\ Crosses(p) <=> \E q \in Pods \ {p} : Changes(pipe, q)
BY DEF Carries, Changes, Crosses

LEMMA PromiseInit == ConnInit => PromiseInv
BY DEF ConnInit, PromiseInv, Promises, OnePodSends, Changes, PromiseOf, Last

LEMMA ChangePromise ==
  ASSUME ConnTypeInv, PromiseInv, NEW s \in Sockets, ChangeStep(s)
  PROVE  PromiseInv'
<1> SUFFICES ASSUME ~blurred, ~Crosses(home[s])
             PROVE  Promises(pipe', promise', stops')
  BY DEF PromiseInv, ChangeStep
<1>1. PICK op \in SetOps, o \in Owners \cup {NoOne} :
        /\ Send(s, op, o) /\ (op = "sadd" => o \in Owners)
        /\ \A w \in Owners : w \in promise' <=>
             IF Names(Command(op, s, o), w) THEN op = "sadd" ELSE w \in promise
  BY DEF ChangeStep
<1> DEFINE c == Command(op, s, o)
<1>2. /\ c \in Commands /\ pipe' \in Pipes /\ Appended(pipe, pipe', home[s], c)
      /\ c.op = op /\ home[s] \in Pods
  BY <1>1, SendPipe DEF Ops
<1>3. \A q \in Pods \ {home[s]} : ~Changes(pipe, q)
  BY <1>2, CarriesChanges
<1>4. \A w \in Owners : w \in promise' <=> IF Names(c, w) THEN c.op = "sadd" ELSE w \in promise
  BY <1>1, <1>2
<1> HIDE DEF c
<1>5. Promises(pipe, promise, stops) /\ pipe \in Pipes /\ stops' = stops
  BY DEF PromiseInv, ConnTypeInv, ChangeStep
<1> QED BY <1>2, <1>3, <1>4, <1>5, SendPromises

LEMMA OtherSendPromise ==
  ASSUME ConnTypeInv, PromiseInv, UNCHANGED <<stops, promise, blurred>>,
         UNCHANGED pipe \/ \E p \in Pods, c \in Commands :
                             pipe' \in Pipes /\ Appended(pipe, pipe', p, c) /\ c.op \notin SetOps
  PROVE  PromiseInv'
<1>1. CASE UNCHANGED pipe
  BY <1>1 DEF PromiseInv
<1>2. ASSUME NEW p \in Pods, NEW c \in Commands, pipe' \in Pipes,
             Appended(pipe, pipe', p, c), c.op \notin SetOps
      PROVE  PromiseInv'
  <2>1. \A o \in Owners : ~Names(c, o)
    BY <1>2 DEF Names, SetOps
  <2>2. ~blurred => Promises(pipe', promise, stops)
    BY <1>2, <2>1, SendPromises DEF PromiseInv, ConnTypeInv
  <2> QED BY <2>2 DEF PromiseInv
<1> QED BY <1>1, <1>2

LEMMA ExecutePromise ==
  ASSUME ConnTypeInv, PromiseInv, NEW p \in Pods, Execute(p)
  PROVE  PromiseInv'
<1>0. PICK c : c = Head(pipe[p])
  OBVIOUS
<1>1. pipe' \in Pipes /\ Taken(pipe, pipe', p, c)
  BY <1>0, ExecutePipe
<1>2. /\ stops' = IF c.op = "sadd" THEN stops \cup {c.owner}
                  ELSE IF c.op = "srem" THEN stops \ {c.owner}
                  ELSE IF c.op = "clear" THEN {} ELSE stops
      /\ UNCHANGED <<promise, blurred>>
  BY <1>0, ExecuteEffect
<1>3. \A o \in Owners : o \in stops' <=> IF Names(c, o) THEN c.op = "sadd" ELSE o \in stops
  BY <1>2 DEF Names
<1>4. ~blurred => Promises(pipe', promise, stops')
  BY <1>1, <1>3, TakePromises DEF PromiseInv, ConnTypeInv
<1> QED BY <1>2, <1>4 DEF PromiseInv

LEMMA RejectPromise ==
  ASSUME ConnTypeInv, PromiseInv, NEW p \in Pods, Reject(p)
  PROVE  PromiseInv'
<1>0. PICK c : c = Head(pipe[p])
  OBVIOUS
<1>1. c \in Commands /\ pipe' \in Pipes /\ pipe \in Pipes
  BY <1>0, RejectPipe DEF ConnTypeInv
<1>2. CASE ~Shut(c)
  <2>1. /\ Taken(pipe, pipe', p, c) /\ blurred' = (blurred \/ c.op \in SetOps)
        /\ UNCHANGED <<promise, stops>>
    BY <1>0, <1>2, RejectPipe, RejectEffect
  <2>2. c.op \notin SetOps => \A o \in Owners : ~Names(c, o)
    BY DEF Names, SetOps
  <2>3. c.op \notin SetOps /\ ~blurred => Promises(pipe', promise, stops)
    BY <1>1, <2>1, <2>2, TakePromises DEF PromiseInv
  <2> QED BY <2>1, <2>3 DEF PromiseInv
<1>3. CASE Shut(c)
  <2> DEFINE clear == Command("clear", c.sock, NoOne)
  <2>1. /\ blurred' = (blurred \/ Crosses(p)) /\ promise' = {} /\ stops' = stops
        /\ c.op = "online"
    BY <1>0, <1>3, RejectEffect DEF Shut
  <2>2. PICK rest \in Pipes : Taken(pipe, rest, p, c) /\ Appended(rest, pipe', p, clear)
    BY <1>0, <1>3, RejectPipe
  <2>3. /\ clear \in Commands /\ clear.op = "clear" /\ \A o \in Owners : Names(clear, o)
    BY <1>0, <1>3, RejectPipe DEF Command, Names
  <2> HIDE DEF clear
  <2>4. \A o \in Owners : ~Names(c, o)
    BY <2>1 DEF Names
  <2>5. ~blurred => Promises(rest, promise, stops)
    BY <1>1, <2>2, <2>4, TakePromises DEF PromiseInv
  <2>6. ~Crosses(p) => \A q \in Pods \ {p} : ~Changes(rest, q)
    <3>1. \A q \in Pods \ {p} : rest[q] = pipe[q]
      BY <2>2 DEF Taken
    <3> QED BY <3>1, CarriesChanges DEF Changes
  <2>7. ~blurred /\ ~Crosses(p) => Promises(pipe', {}, stops)
    BY <1>1, <2>2, <2>3, <2>5, <2>6, SendPromises
  <2> QED BY <2>1, <2>7 DEF PromiseInv
<1> QED BY <1>2, <1>3

LEMMA CrashPromise ==
  ASSUME ConnTypeInv, PromiseInv, NEW p \in Pods, crash(p)
  PROVE  PromiseInv'
<1>1. /\ pipe \in Pipes /\ pipe'[p] = <<>> /\ \A q \in Pods \ {p} : pipe'[q] = pipe[q]
      /\ blurred' = (blurred \/ Carries(p, SetOps)) /\ UNCHANGED <<promise, stops>>
  BY DEF crash, ConnTypeInv, Pipes
<1>2. pipe' \in Pipes
  BY CrashTyped DEF ConnTypeInv
<1>3. ~blurred /\ ~Carries(p, SetOps) => Promises(pipe', promise, stops)
  BY <1>1, <1>2, DropPromises, CarriesChanges DEF PromiseInv
<1> QED BY <1>1, <1>3 DEF PromiseInv

\* What a socket's steps send: nothing, a key command or a change; and what a
\* broadcast sends.
LEMMA OtherStepSends ==
  ASSUME ConnTypeInv, NEW s \in Sockets, OtherStep(s)
  PROVE  UNCHANGED pipe \/ \E p \in Pods, c \in Commands :
           pipe' \in Pipes /\ Appended(pipe, pipe', p, c) /\ c.op \in KeyOps
<1>1. ASSUME NEW op \in KeyOps, Send(s, op, NoOne)
      PROVE  \E p \in Pods, c \in Commands :
               pipe' \in Pipes /\ Appended(pipe, pipe', p, c) /\ c.op \in KeyOps
  <2>1. op \in Ops /\ op # "sadd"
    BY DEF Ops, KeyOps
  <2> QED BY <1>1, <2>1, SendPipe
<1> QED BY <1>1 DEF OtherStep

LEMMA PromiseStep == ConnTypeInv /\ PromiseInv /\ [ConnNext]_connVars => PromiseInv'
<1> SUFFICES ASSUME ConnTypeInv, PromiseInv, [ConnNext]_connVars
             PROVE  PromiseInv'
  OBVIOUS
<1>0. \A op \in KeyOps \cup {"sismember"} : op \notin SetOps
  BY DEF KeyOps, SetOps
<1>1. ASSUME NEW s \in Sockets, OtherStep(s)
      PROVE  PromiseInv'
  <2>1. UNCHANGED <<stops, promise, blurred>>
    BY <1>1 DEF OtherStep, stopVars
  <2> QED BY <1>0, <1>1, <2>1, OtherStepSends, OtherSendPromise
<1>2. ASSUME NEW s \in Sockets,
             \/ handleConnection(s) \/ refuseConnection(s) \/ startHeartbeat(s)
             \/ authenticate(s) \/ markOffline(s) \/ heartbeat(s) \/ renew(s) \/ close(s)
             \/ \E o \in Owners : stopViewing(s, o) \/ startViewing(s, o)
      PROVE  PromiseInv'
  BY <1>1, <1>2, OthersAre, ChangesAre, ChangePromise
<1>3. ASSUME NEW p \in Pods, Execute(p) \/ Reject(p) \/ crash(p)
      PROVE  PromiseInv'
  BY <1>3, ExecutePromise, RejectPromise, CrashPromise
<1>4. ASSUME NEW p \in Pods, NEW o \in Owners, isViewingStopped(p, o)
      PROVE  PromiseInv'
  <2> DEFINE c == Command("sismember", NoOne, o)
  <2>1. UNCHANGED <<stops, promise, blurred>>
    BY <1>4 DEF isViewingStopped
  <2>2. UNCHANGED pipe \/ (c \in Commands /\ pipe' \in Pipes /\ Appended(pipe, pipe', p, c))
    <3>1. CASE o \in local[p]
      BY <1>4, <3>1 DEF isViewingStopped
    <3> QED BY <1>4, <3>1, AskPipe
  <2>3. c.op \notin SetOps
    BY DEF Command, SetOps
  <2> HIDE DEF c
  <2> QED BY <2>1, <2>2, <2>3, OtherSendPromise
<1>5. CASE tick \/ UNCHANGED connVars
  BY <1>5 DEF tick, connVars, stopVars, PromiseInv
<1> QED BY <1>2, <1>3, <1>4, <1>5 DEF ConnNext

LEMMA PromisesHold == ConnSpec => []PromiseInv
<1>1. ConnSpec => []ConnTypeInv
  BY TypesHold
<1> QED BY <1>1, PromiseInit, PromiseStep, PTL DEF ConnSpec

-----------------------------------------------------------------------------
(* The copies.  A pod that keeps a copy has had a socket of the user; where   *)
(* there has been only one such pod, its copy holds nothing but what is       *)
(* wanted.                                                                   *)
CopyInv ==
  \A p \in Pods :
    /\ local[p] # {} => \E s \in Sockets : home[s] = p /\ link[s] # "new"
    /\ local[p] \subseteq promise \/ SeveralPods

\* A socket is not new again.
LEMMA UsedStaysUsed ==
  ASSUME ConnTypeInv, [ConnNext]_connVars
  PROVE  /\ UNCHANGED home /\ \A s \in Sockets : link[s] # "new" => link'[s] # "new"
         /\ SeveralPods => SeveralPods'
<1>1. UNCHANGED home /\ \A s \in Sockets : link[s] # "new" => link'[s] # "new"
  <2> USE DEF At, ConnTypeInv, ConnTypeOK
  <2>1. ASSUME NEW s \in Sockets,
               \/ handleConnection(s) \/ refuseConnection(s) \/ startHeartbeat(s)
               \/ authenticate(s) \/ markOffline(s) \/ heartbeat(s) \/ renew(s)
        PROVE  UNCHANGED home /\ \A t \in Sockets : link[t] # "new" => link'[t] # "new"
    BY <2>1 DEF handleConnection, refuseConnection, startHeartbeat, authenticate, markOffline,
                heartbeat, renew
  <2>2. ASSUME NEW s \in Sockets, close(s)
        PROVE  UNCHANGED home /\ \A t \in Sockets : link[t] # "new" => link'[t] # "new"
    BY <2>2 DEF close, handleDisconnect
  <2>3. ASSUME NEW s \in Sockets, NEW o \in Owners, stopViewing(s, o) \/ startViewing(s, o)
        PROVE  UNCHANGED home /\ \A t \in Sockets : link[t] # "new" => link'[t] # "new"
    BY <2>3 DEF stopViewing, startViewing, presenceVars
  <2>4. ASSUME NEW p \in Pods, Execute(p)
        PROVE  UNCHANGED home /\ \A t \in Sockets : link[t] # "new" => link'[t] # "new"
    BY <2>4, ExecuteEffect
  <2>5. ASSUME NEW p \in Pods, Reject(p)
        PROVE  UNCHANGED home /\ \A t \in Sockets : link[t] # "new" => link'[t] # "new"
    <3>1. UNCHANGED home /\ \/ UNCHANGED link
                            \/ \E s : link' = [link EXCEPT ![s] = "down"]
      BY <2>5, RejectEffect
    <3> QED BY <3>1
  <2>6. ASSUME NEW p \in Pods, crash(p)
        PROVE  UNCHANGED home /\ \A t \in Sockets : link[t] # "new" => link'[t] # "new"
    BY <2>6 DEF crash
  <2>7. ASSUME NEW p \in Pods, NEW o \in Owners, isViewingStopped(p, o)
        PROVE  UNCHANGED home /\ \A t \in Sockets : link[t] # "new" => link'[t] # "new"
    BY <2>7 DEF isViewingStopped, presenceVars
  <2>8. CASE tick \/ UNCHANGED connVars
    BY <2>8 DEF tick, connVars, presenceVars
  <2> QED BY <2>1, <2>2, <2>3, <2>4, <2>5, <2>6, <2>7, <2>8 DEF ConnNext
<1>2. SeveralPods => SeveralPods'
  BY <1>1 DEF SeveralPods
<1> QED BY <1>1, <1>2

\* A pod's copy is set to no more than is wanted, at a socket of that pod.
LEMMA ChangeCopy ==
  ASSUME ConnTypeInv, CopyInv, [ConnNext]_connVars, NEW s \in Sockets, link'[s] # "new",
         local'[home[s]] \subseteq promise' \/ ~(local[home[s]] \subseteq promise),
         \A p \in Pods \ {home[s]} : local'[p] = local[p]
  PROVE  CopyInv'
<1>1. /\ UNCHANGED home /\ \A t \in Sockets : link[t] # "new" => link'[t] # "new"
      /\ SeveralPods => SeveralPods'
  BY UsedStaysUsed
<1>2. ASSUME NEW p \in Pods, p # home[s]
      PROVE  /\ local'[p] # {} => \E t \in Sockets : home'[t] = p /\ link'[t] # "new"
             /\ local'[p] \subseteq promise' \/ SeveralPods'
  <2>1. local'[p] # {} => \E t \in Sockets : home[t] = p /\ link'[t] # "new"
    BY <1>1, <1>2 DEF CopyInv
  <2>2. local'[p] # {} => SeveralPods'
    BY <1>1, <1>2, <2>1 DEF SeveralPods
  <2> QED BY <1>1, <2>1, <2>2
<1>3. local'[home[s]] \subseteq promise' \/ SeveralPods'
  <2>1. home[s] \in Pods
    BY DEF ConnTypeInv, ConnTypeOK
  <2> QED BY <1>1, <2>1 DEF CopyInv
<1> QED BY <1>1, <1>2, <1>3 DEF CopyInv

LEMMA CopyInit == ConnInit => CopyInv
BY DEF ConnInit, CopyInv

LEMMA CopyStep == ConnTypeInv /\ SocketInv /\ CopyInv /\ [ConnNext]_connVars => CopyInv'
<1> SUFFICES ASSUME ConnTypeInv, SocketInv, CopyInv, [ConnNext]_connVars
             PROVE  CopyInv'
  OBVIOUS
<1>0. /\ UNCHANGED home /\ \A t \in Sockets : link[t] # "new" => link'[t] # "new"
      /\ SeveralPods => SeveralPods'
  BY UsedStaysUsed
<1>1. ASSUME UNCHANGED <<local, promise>>
      PROVE  CopyInv'
  BY <1>0, <1>1 DEF CopyInv
<1>2. ASSUME NEW s \in Sockets, ChangeStep(s)
      PROVE  CopyInv'
  <2>1. /\ link'[s] # "new"
        /\ local'[home[s]] \subseteq promise' \/ ~(local[home[s]] \subseteq promise)
        /\ \A p \in Pods \ {home[s]} : local'[p] = local[p]
    BY <1>0, <1>2 DEF ChangeStep
  <2> QED BY <2>1, ChangeCopy
<1>3. ASSUME NEW s \in Sockets,
             \/ handleConnection(s) \/ refuseConnection(s) \/ startHeartbeat(s)
             \/ authenticate(s) \/ markOffline(s) \/ heartbeat(s) \/ renew(s) \/ close(s)
             \/ \E o \in Owners : stopViewing(s, o) \/ startViewing(s, o)
      PROVE  CopyInv'
  <2>1. OtherStep(s) => UNCHANGED <<local, promise>>
    BY DEF OtherStep, stopVars
  <2> QED BY <1>1, <1>2, <1>3, <2>1, OthersAre, ChangesAre
<1>4. ASSUME NEW p \in Pods, Execute(p)
      PROVE  CopyInv'
  <2>1. UNCHANGED <<local, promise>>
    BY <1>4, ExecuteEffect
  <2> QED BY <1>1, <2>1
<1>5. ASSUME NEW p \in Pods, Reject(p)
      PROVE  CopyInv'
  <2>0. PICK c : c = Head(pipe[p])
    OBVIOUS
  <2>1. CASE ~Shut(c)
    BY <1>1, <1>5, <2>0, <2>1, RejectEffect
  <2>2. CASE Shut(c)
    <3>1. \E rest \in Pipes : Taken(pipe, rest, p, c)
      BY <1>5, <2>0, RejectLeaves
    <3>2. c.sock \in Sockets /\ home[c.sock] = p /\ link[c.sock] = "up"
      BY <2>2, <3>1, HeadOnline DEF Shut
    <3>3. local' = [local EXCEPT ![p] = {}]
      BY <1>5, <2>0, <2>2, RejectEffect
    <3>4. local'[p] = {} /\ \A q \in Pods \ {p} : local'[q] = local[q]
      BY <3>3 DEF ConnTypeInv, ConnTypeOK
    <3>5. link'[c.sock] # "new"
      BY <1>0, <3>2
    <3> QED BY <3>2, <3>4, <3>5, ChangeCopy
  <2> QED BY <2>1, <2>2
<1>6. ASSUME NEW p \in Pods, crash(p)
      PROVE  CopyInv'
  <2>1. /\ local'[p] = {} /\ \A q \in Pods \ {p} : local'[q] = local[q]
        /\ promise' = promise
    BY <1>6 DEF crash, ConnTypeInv, ConnTypeOK
  <2> QED BY <1>0, <2>1 DEF CopyInv
<1>7. ASSUME NEW p \in Pods, NEW o \in Owners, isViewingStopped(p, o)
      PROVE  CopyInv'
  BY <1>1, <1>7 DEF isViewingStopped
<1>8. CASE tick \/ UNCHANGED connVars
  BY <1>1, <1>8 DEF tick, connVars, stopVars
<1> QED BY <1>3, <1>4, <1>5, <1>6, <1>7, <1>8 DEF ConnNext

LEMMA CopiesHold == ConnSpec => []CopyInv
<1>1. ConnSpec => []ConnTypeInv
  BY TypesHold
<1>2. ConnSpec => []SocketInv
  BY SocketsLive
<1> QED BY <1>1, <1>2, CopyInit, CopyStep, PTL DEF ConnSpec

-----------------------------------------------------------------------------
(* The question of a broadcast.  At most one SISMEMBER is on its way, the one  *)
(* that ask stands for.  A question that meets no change is asked of a Redis   *)
(* that knows what is wanted, and is answered by that.                        *)
AskedInv ==
  \A p \in Pods : \A i \in DOMAIN pipe[p] :
    pipe[p][i].op = "sismember" =>
      /\ ask.pc = "asked" /\ ask.pod = p /\ ask.owner = pipe[p][i].owner
      /\ \A j \in DOMAIN pipe[p] : pipe[p][j].op = "sismember" => j = i

AnswerInv ==
  /\ ask.pc = "asked" /\ ask.alone /\ ~blurred =>
       Settled /\ (ask.promised <=> ask.owner \in promise)
  /\ ask.pc = "answered" /\ ask.alone /\ ~blurred =>
       /\ ask.promised => ask.value
       /\ ask.value => ask.promised \/ SeveralPods

LEMMA AskInit == ConnInit => AskedInv /\ AnswerInv
BY DEF ConnInit, IdleAsk, AskedInv, AnswerInv

\* No question is sent, and the one on its way is the same.
LEMMA AskedKept ==
  ASSUME ConnTypeInv, AskedInv, Inherits({"sismember"}),
         ask'.pc = ask.pc, ask'.pod = ask.pod, ask'.owner = ask.owner
  PROVE  AskedInv'
<1> SUFFICES ASSUME NEW p \in Pods, NEW i \in DOMAIN pipe'[p], pipe'[p][i].op = "sismember"
             PROVE  /\ ask'.pc = "asked" /\ ask'.pod = p /\ ask'.owner = pipe'[p][i].owner
                    /\ \A j \in DOMAIN pipe'[p] : pipe'[p][j].op = "sismember" => j = i
  BY DEF AskedInv
<1>1. PICK k \in {0, 1} : \A j \in DOMAIN pipe'[p] : pipe'[p][j].op = "sismember" =>
        j \in Nat /\ j + k \in DOMAIN pipe[p] /\ pipe[p][j + k] = pipe'[p][j]
  BY DEF Inherits
<1>2. i \in Nat /\ i + k \in DOMAIN pipe[p] /\ pipe[p][i + k] = pipe'[p][i]
  BY <1>1
<1>3. /\ ask.pc = "asked" /\ ask.pod = p /\ ask.owner = pipe'[p][i].owner
      /\ \A m \in DOMAIN pipe[p] : pipe[p][m].op = "sismember" => m = i + k
  BY <1>2 DEF AskedInv
<1>4. ASSUME NEW j \in DOMAIN pipe'[p], pipe'[p][j].op = "sismember"
      PROVE  j = i
  <2>1. j \in Nat /\ j + k \in DOMAIN pipe[p] /\ pipe[p][j + k].op = "sismember"
    BY <1>1, <1>4
  <2>2. j + k = i + k
    BY <1>3, <2>1
  <2> QED BY <1>2, <2>1, <2>2
<1> QED BY <1>3, <1>4

\* A change is got: a question on its way is no longer alone.
LEMMA DisturbAnswer ==
  ASSUME ConnTypeInv, AnswerInv, Disturb, SeveralPods => SeveralPods', ~blurred' => ~blurred
  PROVE  /\ AnswerInv'
         /\ ask'.pc = ask.pc /\ ask'.pod = ask.pod /\ ask'.owner = ask.owner
<1>1. ask \in Asks
  BY DEF ConnTypeInv, ConnTypeOK, Asks
<1>2. CASE ask.pc = "asked"
  <2>1. /\ ask'.pc = "asked" /\ ask'.pod = ask.pod /\ ask'.owner = ask.owner
        /\ ask'.alone = FALSE
    BY <1>1, <1>2 DEF Disturb, Asks
  <2> QED BY <1>2, <2>1 DEF AnswerInv
<1>3. CASE ask.pc # "asked"
  <2>1. ask' = ask
    BY <1>3 DEF Disturb
  <2> QED BY <1>3, <2>1 DEF AnswerInv
<1> QED BY <1>2, <1>3

\* The question and what is wanted stay; changes are at most taken.
LEMMA AnswerKept ==
  ASSUME ConnTypeInv, AnswerInv, UNCHANGED <<ask, promise>>, Inherits(SetOps),
         SeveralPods => SeveralPods', ~blurred' => ~blurred
  PROVE  AnswerInv'
<1>1. Settled => Settled'
  <2> SUFFICES ASSUME NEW p \in Pods, NEW i \in DOMAIN pipe'[p], pipe'[p][i].op \in SetOps
               PROVE  \E q \in Pods : \E j \in DOMAIN pipe[q] : pipe[q][j].op \in SetOps
    BY DEF Settled, Carries
  <2> QED BY DEF Inherits
<1> QED BY <1>1 DEF AnswerInv

LEMMA NothingInherits ==
  ASSUME ConnTypeInv, UNCHANGED pipe, NEW ops
  PROVE  Inherits(ops)
<1>1. \A p \in Pods : \A i \in DOMAIN pipe[p] : i \in Nat /\ i + 0 = i
  BY PipeIndices DEF ConnTypeInv
<1> QED BY <1>1 DEF Inherits

LEMMA ChangeAsk ==
  ASSUME ConnTypeInv, AskedInv, AnswerInv, [ConnNext]_connVars, NEW s \in Sockets, ChangeStep(s)
  PROVE  AskedInv' /\ AnswerInv'
<1>1. /\ AnswerInv' /\ ask'.pc = ask.pc /\ ask'.pod = ask.pod /\ ask'.owner = ask.owner
  BY DisturbAnswer, UsedStaysUsed DEF ChangeStep
<1>2. Inherits({"sismember"})
  <2>1. PICK op \in SetOps, o \in Owners \cup {NoOne} :
          Send(s, op, o) /\ (op = "sadd" => o \in Owners)
    BY DEF ChangeStep
  <2> DEFINE c == Command(op, s, o)
  <2>2. Appended(pipe, pipe', home[s], c) /\ home[s] \in Pods /\ c.op = op
    BY <2>1, SendPipe DEF Ops
  <2>3. c.op \notin {"sismember"}
    BY <2>2 DEF SetOps
  <2> HIDE DEF c
  <2> QED BY <2>2, <2>3, SendInherits DEF ConnTypeInv
<1> QED BY <1>1, <1>2, AskedKept

LEMMA OtherAsk ==
  ASSUME ConnTypeInv, AskedInv, AnswerInv, [ConnNext]_connVars, UNCHANGED stopVars,
         UNCHANGED pipe \/ \E p \in Pods, c \in Commands :
           pipe' \in Pipes /\ Appended(pipe, pipe', p, c) /\ c.op \in KeyOps
  PROVE  AskedInv' /\ AnswerInv'
<1>1. Inherits({"sismember"}) /\ Inherits(SetOps)
  <2>1. CASE UNCHANGED pipe
    BY <2>1, NothingInherits
  <2>2. ASSUME NEW p \in Pods, NEW c \in Commands, Appended(pipe, pipe', p, c), c.op \in KeyOps
        PROVE  Inherits({"sismember"}) /\ Inherits(SetOps)
    <3>1. c.op \notin {"sismember"} /\ c.op \notin SetOps
      BY <2>2 DEF KeyOps, SetOps
    <3> QED BY <2>2, <3>1, SendInherits DEF ConnTypeInv
  <2> QED BY <2>1, <2>2
<1>2. UNCHANGED <<ask, promise, blurred>> /\ (SeveralPods => SeveralPods')
  BY UsedStaysUsed DEF stopVars
<1> QED BY <1>1, <1>2, AskedKept, AnswerKept

\* A broadcast asks: its pod's copy knows the owner, or Redis is asked.
LEMMA BroadcastAsk ==
  ASSUME ConnTypeInv, CopyInv, AskedInv, AnswerInv, [ConnNext]_connVars, NEW p \in Pods,
         NEW o \in Owners, isViewingStopped(p, o)
  PROVE  AskedInv' /\ AnswerInv'
<1>1. /\ UNCHANGED <<promise, blurred>>
      /\ ask.pc # "asked"
      /\ ask' = [pc |-> IF o \in local[p] THEN "answered" ELSE "asked", pod |-> p, owner |-> o,
                 promised |-> o \in promise, alone |-> Settled, value |-> o \in local[p]]
  BY DEF isViewingStopped
<1>2. \A q \in Pods : \A i \in DOMAIN pipe[q] : pipe[q][i].op # "sismember"
  BY <1>1 DEF AskedInv
<1>3. SeveralPods => SeveralPods'
  BY UsedStaysUsed
<1>4. CASE o \in local[p]
  <2>1. pipe' = pipe
    BY <1>4 DEF isViewingStopped
  <2>2. ask'.pc = "answered" /\ (ask'.promised <=> o \in promise) /\ ask'.value
    BY <1>1, <1>4
  <2>3. o \in promise \/ SeveralPods
    BY <1>4 DEF CopyInv
  <2> QED BY <1>2, <1>3, <2>1, <2>2, <2>3 DEF AskedInv, AnswerInv
<1>5. CASE o \notin local[p]
  <2> DEFINE c == Command("sismember", NoOne, o)
  <2>1. Appended(pipe, pipe', p, c)
    BY <1>5, AskPipe
  <2>2. c.op = "sismember" /\ c.owner = o
    BY DEF Command
  <2> HIDE DEF c
  <2>3. /\ ask'.pc = "asked" /\ ask'.pod = p /\ ask'.owner = o
        /\ (ask'.alone <=> Settled) /\ (ask'.promised <=> o \in promise)
    BY <1>1, <1>5
  <2>4. AskedInv'
    <3>1. \A q \in Pods : \A i \in DOMAIN pipe'[q] :
            pipe'[q][i].op = "sismember" => q = p /\ pipe'[q][i] = c
              /\ \A j \in DOMAIN pipe'[q] : pipe'[q][j].op = "sismember" => j = i
      BY <1>2, <2>1 DEF Appended
    <3> QED BY <2>2, <2>3, <3>1 DEF AskedInv
  <2>5. Settled => Settled'
    <3>1. \A q \in Pods : \A i \in DOMAIN pipe'[q] :
            pipe'[q][i].op \in SetOps => \E j \in DOMAIN pipe[q] : pipe[q][j].op \in SetOps
      <4>1. c.op \notin SetOps
        BY <2>2 DEF SetOps
      <4> QED BY <2>1, <4>1 DEF Appended
    <3> QED BY <3>1 DEF Settled, Carries
  <2> QED BY <1>1, <2>3, <2>4, <2>5 DEF AnswerInv
<1> QED BY <1>4, <1>5

\* The head of a pipe, when it is the question: no other is on its way.
LEMMA HeadQuestion ==
  ASSUME ConnTypeInv, AskedInv, NEW p \in Pods, NEW new, NEW c, Taken(pipe, new, p, c),
         c.op = "sismember"
  PROVE  /\ ask.pc = "asked" /\ ask.pod = p /\ ask.owner = c.owner
         /\ \A q \in Pods : \A i \in DOMAIN new[q] : new[q][i].op # "sismember"
<1>1. /\ 1 \in DOMAIN pipe[p] /\ pipe[p][1] = c
      /\ \A i \in DOMAIN new[p] : /\ i \in Nat \ {0} /\ i + 1 \in DOMAIN pipe[p]
                                  /\ new[p][i] = pipe[p][i + 1]
      /\ \A q \in Pods \ {p} : new[q] = pipe[q]
  BY DEF Taken
<1>2. /\ ask.pc = "asked" /\ ask.pod = p /\ ask.owner = c.owner
      /\ \A j \in DOMAIN pipe[p] : pipe[p][j].op = "sismember" => j = 1
  BY <1>1 DEF AskedInv
<1>3. \A q \in Pods \ {p} : \A i \in DOMAIN new[q] : new[q][i].op # "sismember"
  BY <1>1, <1>2 DEF AskedInv
<1>4. \A i \in DOMAIN new[p] : new[p][i].op # "sismember"
  BY <1>1, <1>2
<1> QED BY <1>2, <1>3, <1>4

LEMMA ExecuteAsk ==
  ASSUME ConnTypeInv, PromiseInv, AskedInv, AnswerInv, [ConnNext]_connVars,
         NEW p \in Pods, Execute(p)
  PROVE  AskedInv' /\ AnswerInv'
<1>0. PICK c : c = Head(pipe[p])
  OBVIOUS
<1>1. /\ Taken(pipe, pipe', p, c)
      /\ UNCHANGED <<promise, blurred>> /\ (SeveralPods => SeveralPods')
  BY <1>0, ExecutePipe, ExecuteEffect, UsedStaysUsed
<1>2. CASE c.op # "sismember"
  <2>1. ask' = ask
    BY <1>0, <1>2, ExecuteEffect
  <2>2. Inherits({"sismember"}) /\ Inherits(SetOps)
    BY <1>1, TakeInherits DEF ConnTypeInv
  <2> QED BY <1>1, <2>1, <2>2, AskedKept, AnswerKept
<1>3. CASE c.op = "sismember"
  <2> DEFINE found == c.owner \in stops
  <2>1. ask' = [ask EXCEPT !.pc = "answered", !.value = found]
    BY <1>0, <1>3, ExecuteEffect
  <2>2. ask \in Asks /\ (found <=> c.owner \in stops) /\ found \in BOOLEAN
    BY DEF ConnTypeInv, ConnTypeOK, Asks
  <2>3. /\ ask.pc = "asked" /\ ask.owner = c.owner
        /\ \A q \in Pods : \A i \in DOMAIN pipe'[q] : pipe'[q][i].op # "sismember"
    BY <1>1, <1>3, HeadQuestion
  <2>4. ask.alone /\ ~blurred => (ask.promised <=> found)
    <3> SUFFICES ASSUME ask.alone, ~blurred
                 PROVE  ask.promised <=> c.owner \in stops
      OBVIOUS
    <3>1. Settled /\ (ask.promised <=> c.owner \in promise)
      BY <2>3 DEF AnswerInv
    <3>2. CASE c.owner \in Owners
      <4>1. \A q \in Pods : \A i \in DOMAIN pipe[q] : ~Names(pipe[q][i], c.owner)
        BY <3>1 DEF Settled, Carries, Names, SetOps
      <4>2. PromiseOf(pipe, promise, stops, c.owner)
        BY <3>2 DEF PromiseInv, Promises
      <4> QED BY <3>1, <4>1, <4>2 DEF PromiseOf
    <3>3. CASE c.owner \notin Owners
      BY <3>1, <3>3 DEF ConnTypeInv, ConnTypeOK
    <3> QED BY <3>2, <3>3
  <2> HIDE DEF found
  <2>5. /\ ask'.pc = "answered" /\ ask'.alone = ask.alone /\ ask'.promised = ask.promised
        /\ ask'.value = found
    BY <2>1, <2>2 DEF Asks
  <2>6. AskedInv'
    BY <2>3 DEF AskedInv
  <2>7. AnswerInv'
    BY <1>1, <2>4, <2>5 DEF AnswerInv
  <2> QED BY <2>6, <2>7
<1> QED BY <1>2, <1>3

LEMMA RejectAsk ==
  ASSUME ConnTypeInv, AskedInv, AnswerInv, [ConnNext]_connVars, NEW p \in Pods, Reject(p)
  PROVE  AskedInv' /\ AnswerInv'
<1>0. PICK c : c = Head(pipe[p])
  OBVIOUS
<1>1. (SeveralPods => SeveralPods') /\ Inherits({"sismember"})
  BY UsedStaysUsed, RejectInherits
<1>2. CASE Shut(c)
  <2>1. Disturb /\ (~blurred' => ~blurred)
    BY <1>0, <1>2, RejectEffect
  <2>2. AnswerInv' /\ ask'.pc = ask.pc /\ ask'.pod = ask.pod /\ ask'.owner = ask.owner
    BY <1>1, <2>1, DisturbAnswer
  <2> QED BY <1>1, <2>2, AskedKept
<1>3. CASE ~Shut(c)
  <2>1. /\ ask' = IF c.op = "sismember" THEN IdleAsk ELSE ask
        /\ blurred' = (blurred \/ c.op \in SetOps) /\ promise' = promise
        /\ Taken(pipe, pipe', p, c)
    BY <1>0, <1>3, RejectEffect, RejectPipe
  <2>2. CASE c.op = "sismember"
    <3>1. \A q \in Pods : \A i \in DOMAIN pipe'[q] : pipe'[q][i].op # "sismember"
      BY <2>1, <2>2, HeadQuestion
    <3> QED BY <2>1, <2>2, <3>1 DEF IdleAsk, AskedInv, AnswerInv
  <2>3. CASE c.op # "sismember"
    <3>1. Inherits(SetOps)
      BY <2>1, TakeInherits DEF ConnTypeInv
    <3> QED BY <1>1, <2>1, <2>3, <3>1, AskedKept, AnswerKept
  <2> QED BY <2>2, <2>3
<1> QED BY <1>2, <1>3

LEMMA CrashAsk ==
  ASSUME ConnTypeInv, AskedInv, AnswerInv, [ConnNext]_connVars, NEW p \in Pods, crash(p)
  PROVE  AskedInv' /\ AnswerInv'
<1>1. /\ pipe'[p] = <<>> /\ \A q \in Pods \ {p} : pipe'[q] = pipe[q]
      /\ ask' = IF ask.pod = p THEN IdleAsk ELSE ask
      /\ promise' = promise /\ (~blurred' => ~blurred) /\ (SeveralPods => SeveralPods')
  BY UsedStaysUsed DEF crash, ConnTypeInv, Pipes
<1>2. Settled => Settled'
  BY <1>1 DEF Settled, Carries
<1>3. CASE ask.pod = p
  <2>1. \A q \in Pods : \A i \in DOMAIN pipe'[q] : pipe'[q][i].op # "sismember"
    BY <1>1, <1>3 DEF AskedInv
  <2> QED BY <1>1, <1>3, <2>1 DEF IdleAsk, AskedInv, AnswerInv
<1>4. CASE ask.pod # p
  <2>1. AskedInv'
    BY <1>1, <1>4 DEF AskedInv
  <2>2. AnswerInv'
    BY <1>1, <1>2, <1>4 DEF AnswerInv
  <2> QED BY <2>1, <2>2
<1> QED BY <1>3, <1>4

LEMMA AskStep ==
  ConnTypeInv /\ PromiseInv /\ CopyInv /\ AskedInv /\ AnswerInv /\ [ConnNext]_connVars
    => AskedInv' /\ AnswerInv'
<1> SUFFICES ASSUME ConnTypeInv, PromiseInv, CopyInv, AskedInv, AnswerInv,
                    [ConnNext]_connVars
             PROVE  AskedInv' /\ AnswerInv'
  OBVIOUS
<1>1. ASSUME NEW s \in Sockets, OtherStep(s)
      PROVE  AskedInv' /\ AnswerInv'
  BY <1>1, OtherStepSends, OtherAsk DEF OtherStep
<1>2. ASSUME NEW s \in Sockets,
             \/ handleConnection(s) \/ refuseConnection(s) \/ startHeartbeat(s)
             \/ authenticate(s) \/ markOffline(s) \/ heartbeat(s) \/ renew(s) \/ close(s)
             \/ \E o \in Owners : stopViewing(s, o) \/ startViewing(s, o)
      PROVE  AskedInv' /\ AnswerInv'
  BY <1>1, <1>2, OthersAre, ChangesAre, ChangeAsk
<1>3. ASSUME NEW p \in Pods,
             Execute(p) \/ Reject(p) \/ crash(p) \/ \E o \in Owners : isViewingStopped(p, o)
      PROVE  AskedInv' /\ AnswerInv'
  BY <1>3, ExecuteAsk, RejectAsk, CrashAsk, BroadcastAsk
<1>4. CASE tick \/ UNCHANGED connVars
  BY <1>4, OtherAsk DEF tick, connVars
<1> QED BY <1>2, <1>3, <1>4 DEF ConnNext

LEMMA AnswersHold == ConnSpec => [](AskedInv /\ AnswerInv)
<1>1. ConnSpec => []ConnTypeInv
  BY TypesHold
<1>2. ConnSpec => []PromiseInv /\ []CopyInv
  BY PromisesHold, CopiesHold
<1> QED BY <1>1, <1>2, AskInit, AskStep, PTL DEF ConnSpec

(* A broadcast that asks while no change is under way, and meets none, is held *)
(* back if the user has stopped that owner, whatever pod it asks on: neither   *)
(* the pods' copies nor the order of their commands can lose a stop.           *)
THEOREM StopsAreKept == ConnSpec => []StopHolds
<1>1. AskedInv /\ AnswerInv => StopHolds
  BY DEF AnswerInv, StopHolds
<1> QED BY <1>1, AnswersHold, PTL

(* Such a broadcast is held back without a stop only if sockets of the user    *)
(* have been on more than one pod: with one pod the answer is right.           *)
THEOREM ResumesAreKept == ConnSpec => []ResumeHolds
<1>1. AskedInv /\ AnswerInv => ResumeHolds
  BY DEF AnswerInv, ResumeHolds
<1> QED BY <1>1, AnswersHold, PTL
=============================================================================
