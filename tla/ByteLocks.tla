------------------------------ MODULE ByteLocks ------------------------------
(***************************************************************************)
(* What the advisory locks of one file promise: every byte has, for each   *)
(* owner, one mode; an owner that may write a byte is alone on it; a       *)
(* request that conflicts changes nothing.  There are no ranges here: how  *)
(* the master keeps, splits and merges them is FileLocks' business.        *)
(***************************************************************************)
EXTENDS Integers, FiniteSets, Bags

CONSTANTS
  Owners,    \* the lock owners (a session and FUSE's owner field)
  Sessions,  \* the sessions that may end, each a set of owners
  Size       \* the bytes are 0 .. Size - 1; Size stands for the end of file

VARIABLES
  held,      \* held[b][o]: the mode in which owner o holds byte b
  waiting    \* the requests that wait, a bag

vars == <<held, waiting>>

Bytes == 0 .. Size - 1
Modes == {"unlock", "shared", "exclusive"}
Request == [owner : Owners, type : Modes \ {"unlock"}, start : Bytes, end : 1 .. Size]

Span(start, end) == {b \in Bytes : start <= b /\ b < end}

Set(h, o, type, start, end) ==
  [b \in Bytes |-> IF b \in Span(start, end) THEN [h[b] EXCEPT ![o] = type] ELSE h[b]]

\* Two owners share a byte only if both read.
Compatible(h) ==
  \A b \in Bytes : \A o, p \in Owners :
    h[b][o] = "exclusive" /\ p # o => h[b][p] = "unlock"

\* Those of w who wait no longer are served, and what they get is compatible; of
\* two requests of one owner for a byte, one prevails.
Serve(h, w) ==
  LET now == held'
      served == BagToSet(w (-) waiting')
      asked(b, o) == {r.type : r \in {q \in served : q.owner = o /\ b \in Span(q.start, q.end)}}
  IN /\ waiting' \sqsubseteq w
     /\ \A b \in Bytes : \A o \in Owners :
          now[b][o] \in IF asked(b, o) = {} THEN {h[b][o]} ELSE asked(b, o)
     /\ Compatible(now)

Init ==
  /\ held = [b \in Bytes |-> [o \in Owners |-> "unlock"]]
  /\ waiting = EmptyBag

\* A request that is refused, or asks for what it has, changes nothing.
Refuse == UNCHANGED vars

\* An owner is given what it asks for, or waits, or is refused while others are
\* served.
Lock(o, type, start, end) ==
  LET given == Set(held, o, type, start, end)
      request == [owner |-> o, type |-> type, start |-> start, end |-> end]
  IN \/ Serve(given, waiting) /\ Compatible(given)
     \/ /\ Serve(held, waiting) \/ Serve(held, waiting (+) SetToBag({request}))
        /\ ~Compatible(given)

Unlock(o, start, end) == Serve(Set(held, o, "unlock", start, end), waiting)

Without(gone) ==
  [b \in Bytes |-> [o \in Owners |-> IF o \in gone THEN "unlock" ELSE held[b][o]]]

WaitingBut(gone) == [r \in {q \in BagToSet(waiting) : q.owner \notin gone} |-> waiting[r]]

\* An owner gives up all it has and stops waiting.
Leave(o) == Serve(Without({o}), WaitingBut({o}))

\* A session ends.  Nobody is served, and others may stop waiting with it.
EndSession(session) ==
  /\ held' = Without(session)
  /\ waiting' \sqsubseteq WaitingBut(session)

\* The administrator takes every lock away.
Revoke == Serve(Without(Owners), waiting)

\* A request stops waiting without being served.
Forget(r) == held' = held /\ waiting' = waiting (-) SetToBag({r})

Next ==
  \/ Refuse
  \/ \E o \in Owners : \E start \in Bytes : \E end \in start + 1 .. Size :
       \/ \E type \in {"shared", "exclusive"} : Lock(o, type, start, end)
       \/ Unlock(o, start, end)
  \/ \E o \in Owners : Leave(o)
  \/ \E r \in BagToSet(waiting) : Forget(r)
  \/ \E session \in Sessions : EndSession(session)
  \/ Revoke

Spec == Init /\ [][Next]_vars
=============================================================================
