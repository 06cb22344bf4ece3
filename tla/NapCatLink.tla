------------------------------ MODULE NapCatLink ------------------------------
(***************************************************************************)
(* The WebSocket of NapCat: the listener reads frames and watches the      *)
(* heartbeat of OneBot, and the connection loop connects again after a     *)
(* while that grows.                                                       *)
(*                                                                         *)
(*   napcat/listener/mod.rs, transport.rs, dispatch.rs, heartbeat.rs,      *)
(*   runtime/connection_loop.rs                                            *)
(*                                                                         *)
(* Time is counted from the last heartbeat that was read, so that the clock*)
(* has no end.  It passes only while nothing is due: a frame that is there *)
(* is read, a timer that is over fires; only the handler of a message takes*)
(* time.  The answer to a ping, and a frame that cannot be read (too long, *)
(* no JSON), change nothing here.                                          *)
(***************************************************************************)
EXTENDS Integers, Sequences

CONSTANTS
    enabled, startup_grace_secs, min_interval_secs, max_interval_secs,
    default_interval_secs, timeout_multiplier,       \* HeartbeatConfig
    reconnect_initial_secs, reconnect_max_secs,      \* [napcat]
    Periods,      \* between two heartbeats of the peer
    Unknown,      \* the interval of a heartbeat that declares none
    HandlerTimes, \* how long the handler of a message may take
    MaxFrames,    \* bound: frames in the socket, and frames sent per unit of time
    MaxFaults     \* bound: times the peer falls silent, closes or refuses

MaxOf(S) == CHOOSE x \in S : \A y \in S : y <= x
Larger(a, b) == IF a < b THEN b ELSE a
Smaller(a, b) == IF a < b THEN a ELSE b

(* validate, without its upper limits *)
ConfigValid ==
    /\ enabled \in BOOLEAN
    /\ startup_grace_secs \in Nat \ {0} /\ min_interval_secs \in Nat \ {0}
    /\ max_interval_secs \in Nat /\ max_interval_secs >= min_interval_secs
    /\ default_interval_secs \in min_interval_secs..max_interval_secs
    /\ timeout_multiplier \in Nat \ {0}

(* What the constants are to satisfy; an instance assumes it. *)
LinkAssumption ==
    /\ ConfigValid
    /\ reconnect_initial_secs \in Nat \ {0} /\ reconnect_max_secs >= reconnect_initial_secs
    /\ Periods \subseteq Nat \ {0} /\ HandlerTimes \subseteq Nat
    /\ \E longest \in HandlerTimes : \A t \in HandlerTimes : t <= longest
    /\ MaxFrames \in Nat /\ MaxFaults \in Nat

VARIABLES
    link,       \* "connected" or "down"
    lifecycle, declared_interval_secs,   \* HeartbeatState
    age,        \* since the last heartbeat read, or since the connection
    frames,     \* in the socket, oldest first
    sent,       \* frames sent in this unit of time, heartbeats aside
    busy,       \* time the handler still takes
    wait,       \* time until the next attempt to connect
    backoff,
    peer,       \* [beats, period, next]: whether it sends heartbeats, and when
    steady,     \* the peer has sent every heartbeat of this connection in time
    faults

heartbeat == <<lifecycle, declared_interval_secs, age>>
vars == <<link, heartbeat, frames, sent, busy, wait, backoff, peer, steady, faults>>

Init ==
    /\ link = "down" /\ lifecycle = "Connected" /\ age = 0
    /\ declared_interval_secs = default_interval_secs
    /\ frames = <<>> /\ sent = 0 /\ busy = 0 /\ wait = 0 /\ backoff = reconnect_initial_secs
    /\ \E p \in Periods : peer = [beats |-> TRUE, period |-> p, next |-> p]
    /\ steady = TRUE /\ faults = 0

-----------------------------------------------------------------------------
(* HeartbeatState *)

clamp_interval(declared) ==
    IF declared = Unknown THEN default_interval_secs
    ELSE Smaller(Larger(declared, min_interval_secs), max_interval_secs)

(* Mutant: the rule as it is written down, without the grace period. *)
deadline_offset_NoGrace ==
    IF lifecycle = "Heartbeating" THEN declared_interval_secs * timeout_multiplier
    ELSE startup_grace_secs

deadline_offset ==
    IF lifecycle = "Heartbeating"
    THEN Larger(declared_interval_secs * timeout_multiplier, startup_grace_secs)
    ELSE startup_grace_secs

(* heartbeat_deadline *)
Expired == enabled /\ age >= deadline_offset

ObserveHeartbeat(declared) ==
    /\ lifecycle' = "Heartbeating"
    /\ declared_interval_secs' = clamp_interval(declared)
    /\ age' = 0

ObserveLifecycle ==
    /\ lifecycle' = IF lifecycle = "Connected" THEN "LifecycleReceived" ELSE lifecycle
    /\ UNCHANGED <<declared_interval_secs, age>>

(* A message renews nothing. *)
ObserveBusinessEvent == UNCHANGED heartbeat

-----------------------------------------------------------------------------
(* run_forward *)

Reading == link = "connected" /\ busy = 0

(* The loop comes back after the connection: the wait starts from the       *)
(* beginning, and the next one is longer.                                   *)
Ended ==
    /\ link' = "down" /\ frames' = <<>> /\ busy' = 0
    /\ wait' = reconnect_initial_secs
    /\ backoff' = Smaller(2 * reconnect_initial_secs, reconnect_max_secs)
    /\ UNCHANGED <<heartbeat, sent, peer, steady, faults>>

HeartbeatTimeout == Reading /\ Expired /\ Ended

HandleFrame ==
    LET frame == Head(frames)
    IN /\ Reading /\ ~Expired /\ frames # <<>>
       /\ \/ /\ frame.kind = "heartbeat" /\ ObserveHeartbeat(frame.interval)
             /\ busy' = busy
          \/ /\ frame.kind = "lifecycle" /\ ObserveLifecycle
             /\ busy' = busy
          \/ /\ frame.kind = "message" /\ ObserveBusinessEvent
             /\ busy' \in HandlerTimes
       /\ frames' = Tail(frames)
       /\ UNCHANGED <<link, sent, wait, backoff, peer, steady, faults>>

Closed == Reading /\ ~Expired /\ frames # <<>> /\ Head(frames).kind = "close" /\ Ended

-----------------------------------------------------------------------------
(* run_connection_loop *)

Connect ==
    /\ link = "down" /\ wait = 0
    /\ link' = "connected" /\ lifecycle' = "Connected" /\ age' = 0
    /\ declared_interval_secs' = default_interval_secs
    /\ peer' = [peer EXCEPT !.next = peer.period] /\ steady' = peer.beats
    /\ UNCHANGED <<frames, sent, busy, wait, backoff, faults>>

ConnectFails ==
    /\ link = "down" /\ wait = 0 /\ faults < MaxFaults
    /\ wait' = backoff /\ backoff' = Smaller(2 * backoff, reconnect_max_secs)
    /\ faults' = faults + 1
    /\ UNCHANGED <<link, heartbeat, frames, sent, busy, peer, steady>>

-----------------------------------------------------------------------------
(* The peer *)

Frame(kind, interval) == [kind |-> kind, interval |-> interval]

SendHeartbeat ==
    /\ link = "connected" /\ peer.beats /\ peer.next = 0
    /\ \E declared \in {peer.period, Unknown} :
          frames' = Append(frames, Frame("heartbeat", declared))
    /\ peer' = [peer EXCEPT !.next = peer.period]
    /\ UNCHANGED <<link, heartbeat, sent, busy, wait, backoff, steady, faults>>

Send(kind) ==
    /\ link = "connected" /\ Len(frames) < MaxFrames
    /\ sent < MaxFrames /\ sent' = sent + 1
    /\ frames' = Append(frames, Frame(kind, Unknown))
    /\ UNCHANGED <<link, heartbeat, busy, wait, backoff, peer, steady, faults>>

FallSilent ==
    /\ peer.beats /\ faults < MaxFaults
    /\ peer' = [peer EXCEPT !.beats = FALSE] /\ steady' = FALSE /\ faults' = faults + 1
    /\ UNCHANGED <<link, heartbeat, frames, sent, busy, wait, backoff>>

Recover ==
    /\ ~peer.beats
    /\ peer' = [peer EXCEPT !.beats = TRUE, !.next = peer.period]
    /\ UNCHANGED <<link, heartbeat, frames, sent, busy, wait, backoff, steady, faults>>

Close ==
    /\ faults < MaxFaults /\ faults' = faults + 1 /\ Len(frames) < MaxFrames
    /\ link = "connected" /\ frames' = Append(frames, Frame("close", Unknown))
    /\ steady' = FALSE
    /\ UNCHANGED <<link, heartbeat, sent, busy, wait, backoff, peer>>

-----------------------------------------------------------------------------
(* Something is due now. *)
Due == \/ Reading /\ (frames # <<>> \/ Expired)
       \/ link = "connected" /\ peer.beats /\ peer.next = 0
       \/ link = "down" /\ wait = 0

Lapse(t) == IF t = 0 THEN 0 ELSE t - 1

Tick ==
    /\ ~Due
    /\ age' = IF link = "connected" /\ enabled THEN age + 1 ELSE age
    /\ sent' = 0 /\ busy' = Lapse(busy) /\ wait' = Lapse(wait)
    /\ peer' = IF link = "connected" THEN [peer EXCEPT !.next = Lapse(@)] ELSE peer
    /\ UNCHANGED <<link, lifecycle, declared_interval_secs, frames, backoff, steady, faults>>

Listener == HeartbeatTimeout \/ HandleFrame \/ Closed

Next ==
    \/ Listener \/ Connect \/ ConnectFails \/ Tick
    \/ SendHeartbeat \/ Send("lifecycle") \/ Send("message")
    \/ FallSilent \/ Recover \/ Close

Spec == Init /\ [][Next]_vars

(* The listener and the loop run, and time goes on. *)
FairSpec == Spec /\ WF_vars(Listener) /\ WF_vars(Connect \/ ConnectFails) /\ SF_vars(Tick)
                 /\ WF_vars(SendHeartbeat)

-----------------------------------------------------------------------------
(* The wait before an attempt is never above its limit. *)
TypeOK ==
    /\ link \in {"connected", "down"}
    /\ lifecycle \in {"Connected", "LifecycleReceived", "Heartbeating"}
    /\ declared_interval_secs \in min_interval_secs..max_interval_secs
    /\ age \in Nat /\ busy \in Nat
    /\ wait \in 0..reconnect_max_secs /\ backoff \in reconnect_initial_secs..reconnect_max_secs
    /\ peer.next \in 0..peer.period /\ faults \in 0..MaxFaults

(* Messages do not hide that the heartbeat is missing: a connection outlives *)
(* its deadline by no more than the handler of the last message takes        *)
(* (heartbeat_deadline, observe_business_event).                             *)
SilenceNoticed ==
    link = "connected" /\ enabled => age <= deadline_offset + MaxOf(HandlerTimes)

(* A peer that sends its heartbeats in time is not given up, whatever        *)
(* interval they declare, though messages are in front of them in the socket *)
(* (deadline_offset, clamp_interval).                                        *)
LivePeerKept == [][HeartbeatTimeout => ~steady]_vars

(* It needs a grace period in which a heartbeat is read that is sent while a *)
(* message is handled and waits behind MaxFrames others.                     *)
GraceCoversMessages ==
    \A p \in Periods : p + (MaxFrames + 1) * MaxOf(HandlerTimes) < startup_grace_secs

(* What keeps SilenceNoticed true: the time the handler still takes is       *)
(* counted to the age already.                                               *)
LinkInv ==
    /\ link \in {"connected", "down"} /\ age \in Nat /\ declared_interval_secs \in Nat
    /\ lifecycle \in {"Connected", "LifecycleReceived", "Heartbeating"}
    /\ busy \in Nat /\ busy <= MaxOf(HandlerTimes)
    /\ frames \in Seq([kind : {"heartbeat", "lifecycle", "message", "close"},
                       interval : Periods \cup {Unknown}])
    /\ link = "down" => busy = 0 /\ frames = <<>>
    /\ link = "connected" /\ enabled => age + busy <= deadline_offset + MaxOf(HandlerTimes)

(* And LivePeerKept: of a peer that is in time the next heartbeat is on its  *)
(* way and due within its period, or in the socket with no more than         *)
(* MaxFrames messages before it.                                             *)
Beat(k) == k \in DOMAIN frames /\ frames[k].kind = "heartbeat"
FirstBeat(k) == Beat(k) /\ \A j \in 1..(k - 1) : ~Beat(j)

TimelyInv ==
    /\ peer = [beats |-> peer.beats, period |-> peer.period, next |-> peer.next]
    /\ peer.period \in Periods /\ peer.next \in 0..peer.period
    /\ steady => peer.beats
    /\ \A k \in DOMAIN frames : Beat(k) \/ k <= MaxFrames
    /\ link = "connected" /\ steady =>
         /\ (\A k \in DOMAIN frames : ~Beat(k)) => age + peer.next <= peer.period
         /\ \A k \in DOMAIN frames :
              FirstBeat(k) =>
                age + busy + (k - 1) * MaxOf(HandlerTimes)
                    <= peer.period + (MaxFrames + 1) * MaxOf(HandlerTimes)

(* After a connection that worked, the first wait is the short one, however  *)
(* many attempts failed before (run_connection_loop).                        *)
ShortFirstWait ==
    [][link = "connected" /\ link' = "down" => wait' = reconnect_initial_secs]_vars

(* Once heartbeats are read, the deadline is interval * multiplier after the *)
(* last one (the rule heartbeat_deadline states).                            *)
DeadlineIsMultiple ==
    Reading /\ lifecycle = "Heartbeating" /\ enabled =>
        age <= declared_interval_secs * timeout_multiplier

(* A peer that has fallen silent is left, however many messages it sends,    *)
(* unless its heartbeat comes back.                                          *)
SilentPeerLeft == (link = "connected" /\ ~peer.beats) ~> (link = "down" \/ peer.beats)
===============================================================================
