--------------------------- MODULE ControlServer ---------------------------
(***************************************************************************)
(* The management socket (internal/control/server.go): Start takes over    *)
(* the path from a gonner that died, refuses to take it from one that      *)
(* lives, and Accept hands connections to net/http under a limit.          *)
(*                                                                         *)
(* Gonners with one configuration follow each other, and each may die at   *)
(* any step, leaving its socket file behind.  A socket file is known by    *)
(* the gonner that bound it.  Starts do not overlap: Start looks at the    *)
(* path and acts on it later, and is not made for a rival in between.      *)
(***************************************************************************)
EXTENDS Integers, FiniteSets

CONSTANTS
    Gonners,    \* processes that use the path
    Conns,      \* connections of clients
    Slots,      \* capacity of peerListener.slots
    NoSocket    \* there is no file at the path

ASSUME ServerAssumption ==
    /\ Slots \in Nat \ {0}
    /\ NoSocket \notin Gonners
    /\ IsFiniteSet(Conns)

VARIABLES
    at,         \* the socket file at cfg.Socket
    start,      \* control point of every gonner
    stops,      \* how often its listener has been closed
    conn,       \* per connection: "none", "waiting" (in the backlog), "served",
                \* "closed"
    to,         \* the gonner it is connected to
    closes,     \* how often limitedConn.Close has been called
    slots       \* tokens in the channel, per gonner

serverVars == <<at, start, stops>>
connVars == <<conn, to, closes, slots>>

Starting == {"lstat", "dial", "remove", "bind", "listen", "chmod"}
\* Its socket accepts connections, into the backlog at least.
Listening(g) == start[g] \in {"chmod", "serving"}

ServerTypeOK ==
    /\ at \in Gonners \cup {NoSocket}
    /\ start \in [Gonners -> Starting \cup {"off", "failed", "serving", "closing", "closed",
                                         "dead"}]
    /\ stops \in [Gonners -> Nat]
    /\ conn \in [Conns -> {"none", "waiting", "served", "closed"}]
    /\ to \in [Conns -> Gonners \cup {NoSocket}]
    /\ closes \in [Conns -> Nat]
    /\ slots \in [Gonners -> Int]

ServerInit ==
    /\ at = NoSocket
    /\ start = [g \in Gonners |-> "off"]
    /\ stops = [g \in Gonners |-> 0]
    /\ conn = [c \in Conns |-> "none"]
    /\ to = [c \in Conns |-> NoSocket]
    /\ closes = [c \in Conns |-> 0]
    /\ slots = [g \in Gonners |-> 0]

Enter(g, s) == start' = [start EXCEPT ![g] = s]

-----------------------------------------------------------------------------
(* Start *)

Begin(g) ==
    /\ start[g] = "off"
    /\ \A h \in Gonners : start[h] \notin Starting
    /\ Enter(g, "lstat")
    /\ UNCHANGED <<at, stops, connVars>>

Lstat(g) ==
    /\ start[g] = "lstat"
    /\ Enter(g, IF at = NoSocket THEN "bind" ELSE "dial")
    /\ UNCHANGED <<at, stops, connVars>>

\* What a dial within 100 ms may answer: a full backlog is neither a connection
\* nor a refusal, and the file may be gone by now.
DialAnswers ==
    IF at = NoSocket THEN {"other"}
    ELSE IF Listening(at) THEN {"connected", "other"}
    ELSE {"refused"}

NotConnected(answer) == answer # "connected"
Refused(answer) == answer = "refused"

Dial(g) ==
    /\ start[g] = "dial"
    /\ \E answer \in DialAnswers :
         Enter(g, IF Refused(answer) THEN "remove" ELSE "failed")
    /\ UNCHANGED <<at, stops, connVars>>

Remove(g) ==
    /\ start[g] = "remove"
    /\ IF at = NoSocket THEN Enter(g, "failed") /\ UNCHANGED at
       ELSE Enter(g, "bind") /\ at' = NoSocket
    /\ UNCHANGED <<stops, connVars>>

\* ListenUnix binds, which creates the file, and then listens.
Bind(g) ==
    /\ start[g] = "bind"
    /\ IF at = NoSocket THEN Enter(g, "listen") /\ at' = g
       ELSE Enter(g, "failed") /\ UNCHANGED at
    /\ UNCHANGED <<stops, connVars>>

Listen(g) ==
    /\ start[g] = "listen"
    /\ Enter(g, "chmod")
    /\ UNCHANGED <<at, stops, connVars>>

UnlinkEachTime(g) == at' = NoSocket
\* net.UnixListener.Close removes whatever is at the path, the first time.
UnlinkOnce(g) == at' = IF stops[g] = 0 THEN NoSocket ELSE at

\* A socket whose mode cannot be set is closed.
Chmod(g) ==
    /\ start[g] = "chmod"
    /\ \/ Enter(g, "serving") /\ UNCHANGED <<at, stops>>
       \/ /\ Enter(g, "closing")
          /\ UnlinkOnce(g)
          /\ stops' = [stops EXCEPT ![g] = 1]
    /\ UNCHANGED connVars

\* stop: called when the context is done, when Serve fails, and deferred in
\* runRun.  The file goes before the descriptor.
StopListener(g) ==
    /\ start[g] \in {"serving", "closing", "closed"}
    /\ stops[g] < 3
    /\ UnlinkOnce(g)
    /\ stops' = [stops EXCEPT ![g] = @ + 1]
    /\ Enter(g, IF start[g] = "serving" THEN "closing" ELSE start[g])
    /\ UNCHANGED connVars

\* Connections nobody has accepted are reset.
Reset(g) == conn' = [c \in Conns |-> IF to[c] = g /\ conn[c] = "waiting" THEN "closed" ELSE conn[c]]

CloseFd(g) ==
    /\ start[g] = "closing"
    /\ Enter(g, "closed")
    /\ Reset(g)
    /\ UNCHANGED <<at, stops, to, closes, slots>>

\* The process is killed: the file stays, everything else is gone.
Die(g) ==
    /\ start[g] \in Starting \cup {"serving", "closing"}
    /\ Enter(g, "dead")
    /\ conn' = [c \in Conns |-> IF to[c] = g THEN "closed" ELSE conn[c]]
    /\ slots' = [slots EXCEPT ![g] = 0]
    /\ UNCHANGED <<at, stops, to, closes>>

-----------------------------------------------------------------------------
(* Connections *)

Connect(c) ==
    /\ conn[c] = "none"
    /\ at # NoSocket
    /\ Listening(at)
    /\ conn' = [conn EXCEPT ![c] = "waiting"]
    /\ to' = [to EXCEPT ![c] = at]
    /\ UNCHANGED <<serverVars, closes, slots>>

\* A peer of another user, or one for whom there is no slot, is closed.
Accept(c) ==
    /\ conn[c] = "waiting"
    /\ start[to[c]] = "serving"
    /\ \/ conn' = [conn EXCEPT ![c] = "closed"] /\ UNCHANGED slots
       \/ /\ slots[to[c]] < Slots
          /\ conn' = [conn EXCEPT ![c] = "served"]
          /\ slots' = [slots EXCEPT ![to[c]] = @ + 1]
    /\ UNCHANGED <<serverVars, to, closes>>

ReleaseEachTime(c) == slots[to[c]] > 0 /\ slots' = [slots EXCEPT ![to[c]] = @ - 1]
\* wrap: the token is taken back by the first Close only.
ReleaseOnce(c) ==
    slots' = IF closes[c] = 0 THEN [slots EXCEPT ![to[c]] = @ - 1] ELSE slots

\* net/http closes a connection when it is done with it and once more when the
\* server is closed or the serving goroutine unwinds.
CloseConn(c) ==
    /\ conn[c] = "served" \/ (conn[c] = "closed" /\ closes[c] = 1)
    /\ start[to[c]] # "dead"
    /\ conn' = [conn EXCEPT ![c] = "closed"]
    /\ ReleaseOnce(c)
    /\ closes' = [closes EXCEPT ![c] = @ + 1]
    /\ UNCHANGED <<serverVars, to>>

ServerNext ==
    \/ \E g \in Gonners :
         \/ Begin(g)
         \/ Lstat(g)
         \/ Dial(g)
         \/ Remove(g)
         \/ Bind(g)
         \/ Listen(g)
         \/ Chmod(g)
         \/ StopListener(g)
         \/ CloseFd(g)
         \/ Die(g)
    \/ \E c \in Conns : Connect(c) \/ Accept(c) \/ CloseConn(c)

ServerSpec == ServerInit /\ [][ServerNext]_<<serverVars, connVars>>

-----------------------------------------------------------------------------
(* Properties *)

\* "replaced live socket" is what TestUnixSocketProtectionAndLifecycle calls a
\* failure (server_test.go:79): a gonner that listens, and has not begun to
\* close, is the one a client finds at the path.  No start, and no late or
\* repeated stop of a predecessor, takes its socket away.
LiveSocketKept == \A g \in Gonners : Listening(g) => at = g

\* A slot is held for each connection that is served and for nothing else: no
\* refusal or repeated Close leaks one, or lets one connection more in.
SlotsExact ==
    \A g \in Gonners :
        slots[g] = Cardinality({c \in Conns : conn[c] = "served" /\ to[c] = g})
=============================================================================
