----------------------------- MODULE DurableMap -----------------------------
(***************************************************************************)
(* What a writable collection promises its caller about the primary-key    *)
(* map, without segments, logs, checkpoints or manifests.                  *)
(*                                                                         *)
(* hist is the sequence of map versions a crash can leave: Head(hist) is   *)
(* the newest version that is certainly durable, Last(hist) the one a      *)
(* reopened handle serves if nothing is lost.                              *)
(***************************************************************************)
EXTENDS Integers, Sequences

CONSTANTS
  Keys,     \* primary keys
  Versions  \* document versions a key can be mapped to

VARIABLES
  up,       \* a handle serves reads and accepts writes
  map,      \* what that handle serves: key -> version, for the live keys
  hist      \* the versions of the map that recovery may produce

vars == <<up, map, hist>>

EmptyMap == <<>>

LastOf(s) == s[Len(s)]

Put(m, k, v) == [j \in DOMAIN m \cup {k} |-> IF j = k THEN v ELSE m[j]]
Removed(m, k) == [j \in DOMAIN m \ {k} |-> m[j]]

\* m with one key put to another version, or removed.
Changed(m) ==
  ({Put(m, k, v) : k \in Keys, v \in Versions} \ {m}) \cup {Removed(m, k) : k \in DOMAIN m}

Init ==
  /\ up = TRUE
  /\ map = EmptyMap
  /\ hist = <<EmptyMap>>

\* A write is served at once; it is durable at once or joins the versions
\* that only a later synchronization makes durable.
Write ==
  /\ up
  /\ UNCHANGED up
  /\ map' \in Changed(map)
  /\ hist' \in {Append(hist, map'), <<map'>>}

\* A write that reached the log but not the handle: the handle stops serving,
\* recovery will include the write.
FailedWrite ==
  /\ up
  /\ up' = FALSE
  /\ map' = EmptyMap
  /\ LET lost == LastOf(hist')
     IN  lost \in Changed(map) /\ hist' \in {Append(hist, lost), <<lost>>}

\* A synchronization, whatever maintenance it is part of.
Persist ==
  /\ UNCHANGED <<up, map>>
  /\ hist' = <<LastOf(hist)>>

\* The handle stops: closed (with or without a synchronization) or dead.
Stop ==
  /\ up' = FALSE
  /\ map' = EmptyMap
  /\ hist' \in {hist, <<LastOf(hist)>>}

\* A power loss: any version from the durable one on may be the survivor.
PowerLoss ==
  /\ up' = FALSE
  /\ map' = EmptyMap
  /\ \E n \in 1..Len(hist) : hist' = <<hist[n]>>

\* A new handle serves the newest surviving version.
Restart ==
  /\ ~up
  /\ up' = TRUE
  /\ map' = LastOf(hist)
  /\ UNCHANGED hist

Next == Write \/ FailedWrite \/ Persist \/ Stop \/ PowerLoss \/ Restart

Spec == Init /\ [][Next]_vars

=============================================================================
