----------------------------- MODULE SessionPool -----------------------------
(***************************************************************************)
(* What the session broker promises, without its queue, its semaphores or  *)
(* its cancellation: never more than MaxSessions browser sessions hold     *)
(* capacity at once, a warm session stays untouched until one caller takes *)
(* it, and no session is ever in the hands of two callers, not even one    *)
(* after the other.                                                        *)
(***************************************************************************)
EXTENDS Naturals, FiniteSets

CONSTANTS Callers, Sessions, NoSession, MaxSessions, Prewarm

VARIABLES
  live,     \* sessions that hold capacity
  warm,     \* sessions started in advance that nobody has taken
  used,     \* sessions that were ever started
  holder    \* the session each caller has in hand

pvars == <<live, warm, used, holder>>

Init ==
  /\ live = 1..Prewarm /\ warm = live /\ used = live
  /\ holder = [c \in Callers |-> NoSession]

TakeWarm(c, s) ==
  /\ s \in warm /\ holder[c] = NoSession
  /\ warm' = warm \ {s}
  /\ holder' = [holder EXCEPT ![c] = s]
  /\ UNCHANGED <<live, used>>

Start(c, s) ==
  /\ s \in Sessions \ used /\ holder[c] = NoSession
  /\ Cardinality(live) < MaxSessions
  /\ live' = live \cup {s} /\ used' = used \cup {s}
  /\ holder' = [holder EXCEPT ![c] = s]
  /\ UNCHANGED warm

LetGo(c) ==
  /\ holder[c] # NoSession
  /\ holder' = [holder EXCEPT ![c] = NoSession]
  /\ UNCHANGED <<live, warm, used>>

\* A session retires on its own account, with or without a holder.
Retire(s) ==
  /\ s \in live \ warm
  /\ live' = live \ {s}
  /\ UNCHANGED <<warm, used, holder>>

Next ==
  \/ \E c \in Callers, s \in Sessions : TakeWarm(c, s) \/ Start(c, s)
  \/ \E c \in Callers : LetGo(c)
  \/ \E s \in Sessions : Retire(s)

Spec == Init /\ [][Next]_pvars
=============================================================================
