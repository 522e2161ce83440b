---------------------------- MODULE SocketWatch ----------------------------
(***************************************************************************)
(* The terminal's watch over its connection (watchConnectivity of          *)
(* src/src/client/connectivity.ts): it opens one socket after the other,   *)
(* tells from pongs and snapshots that the server is reached ("up"), from  *)
(* two pings in a row without a pong or from a close that it is not        *)
(* ("down"), and tries again a second later.                               *)
(*                                                                         *)
(* The sockets are the browser's: a socket that is being closed gives no   *)
(* more messages, and its close event comes when the peer has answered or  *)
(* the browser stops waiting for that, which for a peer that cannot be     *)
(* reached is later than the next attempt.                                 *)
(***************************************************************************)
EXTENDS Integers, FiniteSets, Sequences, StoreTypes

CONSTANTS
  SilentLossMisses,          \* SILENT_LOSS_MISSES
  MaxSockets, MaxLosses      \* bounds of the model: sockets opened, faults of the network

ASSUME SocketWatchAssumption ==
  /\ SilentLossMisses \in Nat \ {0} /\ MaxSockets \in Nat \ {0} /\ MaxLosses \in Nat
  /\ None \notin {"up", "down"}

VARIABLES
  phase, silent,     \* the browser's sockets, by the order of their opening; nothing gets through
  opened,            \* sockets opened so far
  socket,            \* the one in use, or 0
  connectionLost, misses, pinging, pongAwaited, reconnecting,   \* the flags and timers
  lastEmitted,       \* what the subscriber was told last: None, "up" or "down"
  losses,
  evidence           \* history: sockets that a message came from

network == <<phase, silent, losses>>
watch == <<opened, socket, connectionLost, misses, pinging, pongAwaited, reconnecting, lastEmitted>>
watchVars == <<network, watch, evidence>>
Sockets == 1..MaxSockets

InitWatch ==
  /\ phase = [k \in Sockets |-> IF k = 1 THEN "connecting" ELSE "unopened"]
  /\ silent = {} /\ losses = 0
  /\ opened = 1 /\ socket = 1
  /\ connectionLost = FALSE /\ misses = 0 /\ pinging = FALSE /\ pongAwaited = FALSE
  /\ reconnecting = FALSE /\ lastEmitted = None
  /\ evidence = {}

Works(k) == phase[k] = "open" /\ k \notin silent

ConfirmUp(k) ==
  /\ misses' = 0 /\ pongAwaited' = FALSE /\ lastEmitted' = "up"
  /\ evidence' = evidence \cup {k}
  /\ UNCHANGED <<network, opened, socket, connectionLost, pinging, reconnecting>>

\* Mutant: the pings of the lost socket go on.
MutStopsTimers == UNCHANGED pinging /\ pongAwaited' = FALSE

StopsTimers == pinging' = FALSE /\ pongAwaited' = FALSE

\* Mutant: only a connection that was up is tried again.
MutScheduleReconnect == reconnecting' = (lastEmitted = "up")

ScheduleReconnect == reconnecting' = TRUE

\* The socket in use is dropped and another one will be tried, once for each connection.  (phases
\* is what the event that brought the loss left of the sockets.)
LoseConnection(phases) ==
  IF connectionLost
  THEN phase' = phases /\ UNCHANGED <<socket, connectionLost, pinging, pongAwaited, reconnecting,
                                      lastEmitted>>
  ELSE /\ connectionLost' = TRUE /\ StopsTimers
       /\ socket' = 0
       /\ phase' = [k \in Sockets |-> IF k = socket /\ phases[k] # "closed" THEN "closing"
                                      ELSE phases[k]]
       /\ lastEmitted' = "down" /\ ScheduleReconnect

\* Mutant: the missed pongs of the connection before count on.
MutConnect ==
  /\ reconnecting /\ opened < MaxSockets
  /\ reconnecting' = FALSE /\ opened' = opened + 1 /\ socket' = opened + 1
  /\ connectionLost' = FALSE
  /\ phase' = [phase EXCEPT ![opened + 1] = "connecting"]
  /\ UNCHANGED <<silent, losses, misses, pinging, pongAwaited, lastEmitted, evidence>>

\* Mutant: a connection is not lost twice.
MutConnectLost ==
  /\ reconnecting /\ opened < MaxSockets
  /\ reconnecting' = FALSE /\ opened' = opened + 1 /\ socket' = opened + 1
  /\ misses' = 0
  /\ phase' = [phase EXCEPT ![opened + 1] = "connecting"]
  /\ UNCHANGED <<silent, losses, connectionLost, pinging, pongAwaited, lastEmitted, evidence>>

Connect ==
  /\ reconnecting /\ opened < MaxSockets
  /\ reconnecting' = FALSE /\ opened' = opened + 1 /\ socket' = opened + 1
  /\ connectionLost' = FALSE /\ misses' = 0
  /\ phase' = [phase EXCEPT ![opened + 1] = "connecting"]
  /\ UNCHANGED <<silent, losses, pinging, pongAwaited, lastEmitted, evidence>>

\* Mutant: the connection is up once it is open.
MutOnOpen(k) ==
  /\ phase[k] = "connecting"
  /\ phase' = [phase EXCEPT ![k] = "open"]
  /\ pinging' = TRUE /\ lastEmitted' = "up"
  /\ UNCHANGED <<silent, losses, opened, socket, connectionLost, misses, pongAwaited,
                 reconnecting, evidence>>

OnOpen(k) ==
  /\ phase[k] = "connecting"
  /\ phase' = [phase EXCEPT ![k] = "open"]
  /\ pinging' = TRUE
  /\ UNCHANGED <<silent, losses, opened, socket, connectionLost, misses, pongAwaited,
                 reconnecting, lastEmitted, evidence>>

\* A ping every PING_INTERVAL_MS; the pong of the one before is no longer waited for.
SendPing ==
  /\ pinging /\ socket # 0 /\ pongAwaited' = TRUE
  /\ UNCHANGED <<network, opened, socket, connectionLost, misses, pinging, reconnecting,
                 lastEmitted, evidence>>

\* A pong, or the snapshot the server greets with.
OnMessage(k) == Works(k) /\ ConfirmUp(k)

\* Of a socket that works a late pong, a fault of the network, is missed.
PongTimeout ==
  /\ pongAwaited
  /\ misses' = misses + 1
  /\ IF Works(socket) THEN losses < MaxLosses /\ losses' = losses + 1 ELSE UNCHANGED losses
  /\ IF misses + 1 >= SilentLossMisses
     THEN LoseConnection(phase)
     ELSE /\ pongAwaited' = FALSE
          /\ UNCHANGED <<phase, socket, connectionLost, pinging, reconnecting, lastEmitted>>
  /\ UNCHANGED <<silent, opened, evidence>>

\* The close event of any socket; the handler does not ask which.
OnClose(k) ==
  /\ LoseConnection([phase EXCEPT ![k] = "closed"])
  /\ UNCHANGED <<opened, misses>>

\* The network or the server ends a socket: an attempt fails, a connection breaks.
Ends(k) ==
  /\ phase[k] \in {"connecting", "open"} /\ losses < MaxLosses /\ losses' = losses + 1
  /\ OnClose(k)
  /\ UNCHANGED <<silent, evidence>>

\* The close of a socket that was dropped comes to its end.
Closed(k) ==
  /\ phase[k] = "closing"
  /\ OnClose(k)
  /\ UNCHANGED <<silent, losses, evidence>>

GoesSilent(k) ==
  /\ phase[k] = "open" /\ k \notin silent /\ losses < MaxLosses /\ losses' = losses + 1
  /\ silent' = silent \cup {k}
  /\ UNCHANGED <<phase, watch, evidence>>

\* A peer that can be reached answers a close before the next attempt.
PromptClose == \A k \in Sockets : phase[k] = "closing" => k \in silent

ReconnectTimer == PromptClose /\ Connect

WatchNext ==
  \/ ReconnectTimer \/ SendPing \/ PongTimeout
  \/ \E k \in Sockets : OnOpen(k) \/ OnMessage(k) \/ Ends(k) \/ Closed(k) \/ GoesSilent(k)

WatchSpec == InitWatch /\ [][WatchNext]_watchVars

-----------------------------------------------------------------------------

\* loseConnection: of all sockets ever opened at most one is not closed or being closed, the one
\* in use, and the pings go out only while there is one.
OneSocket ==
  /\ \A k \in Sockets : phase[k] \in {"connecting", "open"} => k = socket
  /\ pinging \/ pongAwaited => socket # 0 /\ phase[socket] = "open"

\* confirmUp: "up" is said on the strength of the socket in use, not of an earlier one.
UpIsEvidence == lastEmitted = "up" => socket # 0 /\ socket \in evidence

WatchFairness ==
  /\ WF_watchVars(ReconnectTimer) /\ WF_watchVars(PongTimeout) /\ WF_watchVars(SendPing)
  /\ \A k \in Sockets : WF_watchVars(OnOpen(k)) /\ SF_watchVars(OnMessage(k)) /\ WF_watchVars(Closed(k))

LiveWatchSpec == WatchSpec /\ WatchFairness

\* After the last fault of the network the terminal gets connected and stays so.
EventuallyUp == <>[](lastEmitted = "up")
=============================================================================
