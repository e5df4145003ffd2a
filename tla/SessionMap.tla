----------------------------- MODULE SessionMap -----------------------------
(***************************************************************************)
(* What ContextCache promises to the handlers of requests: one map from    *)
(* sessions to their states that survives restarts and can be switched     *)
(* off.  What is in memory and what is in a file is not visible.  A reader *)
(* keeps a copy, so reading and writing are two steps, and nothing         *)
(* isolates the steps of one reader from those of another.                 *)
(***************************************************************************)
CONSTANTS Session, Reader, State, Empty

VARIABLES
  map,      \* session -> state
  seen,     \* reader -> the state it read last
  unsaved,  \* the sessions whose last change did not reach the disk
  on        \* whether sessions are kept at all

mapVars == <<map, seen, unsaved, on>>

\* Sessions outside S stay as they are, unless their last change was not saved: it may be lost at
\* any time.
Keeps(S) == \A s \in Session \ (S \cup unsaved) : map'[s] = map[s]

\* The copies of other readers than r stay, or are dropped when their reader has finished.
Forgets(R) == \A r \in R : seen'[r] \in {seen[r], Empty}

MapInit ==
  /\ map = [s \in Session |-> Empty]
  /\ seen = [r \in Reader |-> Empty]
  /\ unsaved = {}
  /\ on = TRUE

Look(r, s) ==
  /\ Keeps({})
  /\ seen'[r] = IF on THEN map[s] ELSE Empty
  /\ Forgets(Reader \ {r})
  /\ UNCHANGED <<unsaved, on>>

Write(s) ==
  /\ on
  /\ Keeps({s})
  /\ map'[s] \in State
  /\ unsaved' \in {unsaved \ {s}, unsaved \cup {s}}
  /\ UNCHANGED on
  /\ Forgets(Reader)

\* Removing fails only if the file stays: then what is in it comes back.
Discard(s) ==
  /\ Keeps({s})
  /\ \/ map'[s] = Empty /\ unsaved' = unsaved \ {s}
     \/ unsaved' = unsaved \cup {s}
  /\ UNCHANGED on
  /\ Forgets(Reader)

Finish == Keeps({}) /\ Forgets(Reader) /\ UNCHANGED <<unsaved, on>>

Switch == Keeps({}) /\ on' \in BOOLEAN /\ UNCHANGED <<seen, unsaved>>

Restart == Keeps({}) /\ on' = TRUE /\ UNCHANGED unsaved /\ Forgets(Reader)

MapNext ==
  \/ \E s \in Session, r \in Reader : Look(r, s)
  \/ \E s \in Session : Write(s) \/ Discard(s)
  \/ Finish \/ Switch \/ Restart

MapSpec == MapInit /\ [][MapNext]_mapVars
=============================================================================
