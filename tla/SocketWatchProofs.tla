------------------------- MODULE SocketWatchProofs -------------------------
(***************************************************************************)
(* Proofs about SocketWatch, for every number of sockets, faults and       *)
(* missed pongs.                                                           *)
(*                                                                         *)
(* The properties are about the socket in use.  What they rest on is that  *)
(* the watch's own idea of it agrees with the browser's: the handlers do   *)
(* not ask whose event they got, so that a late close of a socket given up *)
(* closes the one in use, and the invariant has to say that this one is    *)
(* the last one opened, and the only one that is not closed or closing.    *)
(***************************************************************************)
EXTENDS SocketWatch, TLAPS

USE SocketWatchAssumption DEF SocketWatchAssumption

Phases == {"unopened", "connecting", "open", "closing", "closed"}

WatchTypeOK ==
  /\ phase \in [Sockets -> Phases] /\ silent \subseteq Sockets /\ losses \in Nat
  /\ opened \in Sockets /\ socket \in {0, opened}
  /\ connectionLost \in BOOLEAN /\ pinging \in BOOLEAN
  /\ pongAwaited \in BOOLEAN /\ reconnecting \in BOOLEAN
  /\ misses \in Nat /\ lastEmitted \in {None, "up", "down"} /\ evidence \subseteq Sockets

\* The socket in use is the last one opened, and no other is open or being opened; it is
\* lost, and another one is to be tried, exactly when there is none in use.
SocketInUse ==
  /\ connectionLost <=> socket = 0
  /\ reconnecting <=> socket = 0
  /\ \A k \in Sockets : phase[k] = "unopened" <=> k > opened
  /\ \A k \in Sockets : phase[k] \in {"connecting", "open"} <=> k = socket

\* Only of an open socket in use pings are sent and pongs awaited; messages came from sockets
\* that were opened, and "up" was last said of the one in use.
EvidenceOfIt ==
  /\ pinging \/ pongAwaited => socket # 0 /\ phase[socket] = "open"
  /\ \A k \in evidence : k <= opened
  /\ lastEmitted = "up" => socket # 0 /\ socket \in evidence

WatchInv == WatchTypeOK /\ SocketInUse /\ EvidenceOfIt

LEMMA InitWatchInv == InitWatch => WatchInv
<1> SUFFICES ASSUME InitWatch PROVE WatchInv
  OBVIOUS
<1>1. WatchTypeOK
  <2>1. phase \in [Sockets -> Phases] /\ opened \in Sockets
    BY DEF InitWatch, Sockets, Phases
  <2>2. /\ connectionLost \in BOOLEAN /\ pinging \in BOOLEAN
        /\ pongAwaited \in BOOLEAN /\ reconnecting \in BOOLEAN
    BY Zenon DEF InitWatch
  <2> QED
    BY <2>1, <2>2 DEF InitWatch, WatchTypeOK
<1>2. SocketInUse
  BY DEF InitWatch, SocketInUse, Sockets
<1>3. EvidenceOfIt
  BY DEF InitWatch, EvidenceOfIt
<1> QED
  BY <1>1, <1>2, <1>3 DEF WatchInv

\* What brings a loss has closed some sockets, or none; whoever they were, afterwards there is
\* no socket in use.
LEMMA LossKeepsInv ==
  ASSUME WatchInv, NEW phases \in [Sockets -> Phases],
         \A k \in Sockets : phases[k] = phase[k] \/ (phases[k] = "closed" /\ phase[k] # "unopened"),
         LoseConnection(phases),
         silent' = silent, opened' = opened, evidence' = evidence,
         misses' \in Nat, losses' \in Nat
  PROVE  WatchInv'
<1> USE DEF WatchInv, WatchTypeOK, SocketInUse, EvidenceOfIt
<1>1. CASE connectionLost
  BY <1>1 DEF LoseConnection, Phases, Sockets
<1>2. CASE ~connectionLost
  <2>1. /\ connectionLost' = TRUE /\ pinging' = FALSE /\ pongAwaited' = FALSE
        /\ socket' = 0 /\ lastEmitted' = "down" /\ reconnecting' = TRUE
    BY <1>2 DEF LoseConnection, StopsTimers, ScheduleReconnect
  <2>2. phase' = [k \in Sockets |-> IF k = socket /\ phases[k] # "closed" THEN "closing"
                                    ELSE phases[k]]
    BY <1>2 DEF LoseConnection
  <2>3. phase' \in [Sockets -> Phases]
    BY <2>2 DEF Phases
  <2>4. \A k \in Sockets : phase'[k] = "unopened" <=> k > opened
    BY <2>2, <1>2 DEF Sockets
  <2>5. \A k \in Sockets : phase'[k] \notin {"connecting", "open"}
    BY <2>2 DEF Sockets
  <2>6. WatchTypeOK'
    <3>1. /\ connectionLost' \in BOOLEAN /\ pinging' \in BOOLEAN
          /\ pongAwaited' \in BOOLEAN /\ reconnecting' \in BOOLEAN
      BY <2>1, Zenon
    <3> QED
      BY <2>1, <2>3, <3>1
  <2> QED
    BY <2>1, <2>3, <2>4, <2>5, <2>6 DEF Sockets
<1> QED
  BY <1>1, <1>2

LEMMA OnCloseKeepsInv ==
  ASSUME WatchInv, NEW k \in Sockets, phase[k] \in {"connecting", "open", "closing"},
         OnClose(k), silent' = silent, evidence' = evidence, losses' \in Nat
  PROVE  WatchInv'
<1> DEFINE phases == [phase EXCEPT ![k] = "closed"]
<1>1. phases \in [Sockets -> Phases]
  BY DEF WatchInv, WatchTypeOK, Phases
<1>2. \A j \in Sockets : phases[j] = phase[j] \/ (phases[j] = "closed" /\ phase[j] # "unopened")
  BY DEF WatchInv, WatchTypeOK
<1>3. LoseConnection(phases) /\ opened' = opened /\ misses' \in Nat
  BY DEF OnClose, WatchInv, WatchTypeOK
<1> HIDE DEF phases
<1> QED
  BY <1>1, <1>2, <1>3, LossKeepsInv

LEMMA NextWatchInv ==
  ASSUME WatchInv, [WatchNext]_watchVars
  PROVE  WatchInv'
<1> USE DEF WatchInv, WatchTypeOK
<1>1. CASE ReconnectTimer
  <2>1. /\ reconnecting /\ socket = 0 /\ opened + 1 \in Sockets
        /\ reconnecting' = FALSE /\ opened' = opened + 1 /\ socket' = opened + 1
        /\ connectionLost' = FALSE /\ misses' = 0
        /\ phase' = [phase EXCEPT ![opened + 1] = "connecting"]
        /\ UNCHANGED <<silent, losses, pinging, pongAwaited, lastEmitted, evidence>>
    BY <1>1 DEF ReconnectTimer, Connect, SocketInUse, Sockets
  <2>2. SocketInUse'
    BY <2>1 DEF SocketInUse, Sockets
  <2>3. EvidenceOfIt'
    BY <2>1 DEF EvidenceOfIt, Sockets
  <2> QED
    BY <2>1, <2>2, <2>3 DEF Phases
<1>2. CASE SendPing
  BY <1>2 DEF SendPing, network, SocketInUse, EvidenceOfIt
<1>3. CASE PongTimeout
  <2>1. misses' \in Nat /\ losses' \in Nat /\ UNCHANGED <<silent, opened, evidence>>
    BY <1>3 DEF PongTimeout
  <2>2. CASE misses + 1 >= SilentLossMisses
    BY <1>3, <2>1, <2>2, LossKeepsInv DEF PongTimeout
  <2>3. CASE ~(misses + 1 >= SilentLossMisses)
    BY <1>3, <2>1, <2>3 DEF PongTimeout, SocketInUse, EvidenceOfIt
  <2> QED
    BY <2>2, <2>3
<1>4. ASSUME NEW k \in Sockets, OnOpen(k) PROVE WatchInv'
  <2>1. k = socket /\ phase' = [phase EXCEPT ![k] = "open"]
    BY <1>4 DEF OnOpen, SocketInUse
  <2> QED
    BY <1>4, <2>1 DEF OnOpen, SocketInUse, EvidenceOfIt, Phases, Sockets
<1>5. ASSUME NEW k \in Sockets, OnMessage(k) PROVE WatchInv'
  <2>1. phase[k] = "open" /\ k = socket
    BY <1>5 DEF OnMessage, Works, SocketInUse
  <2>2. WatchTypeOK'
    <3>1. pongAwaited' \in BOOLEAN
      BY <1>5, Zenon DEF OnMessage, ConfirmUp
    <3> QED
      BY <1>5, <3>1 DEF OnMessage, ConfirmUp, network
  <2>3. SocketInUse'
    BY <1>5 DEF OnMessage, ConfirmUp, network, SocketInUse
  <2>4. EvidenceOfIt'
    <3>1. /\ pongAwaited' = FALSE /\ UNCHANGED <<phase, opened, socket, pinging>>
          /\ evidence' = evidence \cup {k}
      BY <1>5 DEF OnMessage, ConfirmUp, network
    <3> QED
      BY <2>1, <3>1 DEF EvidenceOfIt, Sockets
  <2> QED
    BY <2>2, <2>3, <2>4
<1>6. ASSUME NEW k \in Sockets, Ends(k) PROVE WatchInv'
  BY <1>6, OnCloseKeepsInv DEF Ends
<1>7. ASSUME NEW k \in Sockets, Closed(k) PROVE WatchInv'
  BY <1>7, OnCloseKeepsInv DEF Closed
<1>8. ASSUME NEW k \in Sockets, GoesSilent(k) PROVE WatchInv'
  BY <1>8 DEF GoesSilent, watch, SocketInUse, EvidenceOfIt
<1>9. CASE UNCHANGED watchVars
  BY <1>9 DEF watchVars, network, watch, SocketInUse, EvidenceOfIt
<1> QED
  BY <1>1, <1>2, <1>3, <1>4, <1>5, <1>6, <1>7, <1>8, <1>9 DEF WatchNext

\* connectivity.ts: what the watch knows of its socket agrees with the browser at all times.
THEOREM WatchInvHolds == WatchSpec => []WatchInv
  BY InitWatchInv, NextWatchInv, PTL DEF WatchSpec

\* connectivity.ts loseConnection: two connections are never tried side by side, and no ping is
\* sent without one, whichever close events come late.
THEOREM OneSocketHolds == WatchSpec => []OneSocket
<1>1. WatchInv => OneSocket
  BY DEF WatchInv, WatchTypeOK, SocketInUse, EvidenceOfIt, OneSocket
<1> QED
  BY <1>1, WatchInvHolds, PTL

\* connectivity.ts confirmUp: the terminal never says that it is connected on the strength of a
\* socket it has given up.
THEOREM UpIsEvidenceHolds == WatchSpec => []UpIsEvidence
<1>1. WatchInv => UpIsEvidence
  BY DEF WatchInv, EvidenceOfIt, UpIsEvidence
<1> QED
  BY <1>1, WatchInvHolds, PTL
=============================================================================
