----------------------------- MODULE CommandLife -----------------------------
(***************************************************************************)
(* What the coordinator and a rover promise together of the rover's        *)
(* commands, while the onboard process lives: whatever the topics between  *)
(* them lose, delay or repeat, and whatever is cached where.  Commands are *)
(* numbered in the order in which they are issued, from 1.                 *)
(***************************************************************************)
EXTENDS Naturals

VARIABLES
  issued,        \* the newest command
  current,       \* the command under way to the coordinator, or None
  acknowledged,  \* commands that ended as reached
  abandoned,     \* commands that failed or were superseded
  stopped,       \* the coordinator has stopped the trial
  fifo,          \* commands the rover drives to, oldest first
  arrived,       \* commands whose arrival is being reported
  givenUp        \* commands whose failure is being reported

vars == <<issued, current, acknowledged, abandoned, stopped, fifo, arrived, givenUp>>

None == 0

Init ==
  /\ issued = 0 /\ current = None
  /\ acknowledged = {} /\ abandoned = {}
  /\ stopped = FALSE
  /\ fifo = {} /\ arrived = {} /\ givenUp = {}

IssueNext == issued' = issued + 1 /\ current' = issued'
IssueNone == issued' = issued /\ current' = None

\* A new command; one that it supersedes is abandoned.
Issue ==
  /\ ~stopped
  /\ IssueNext
  /\ abandoned' = abandoned \cup ({current} \ {None})
  /\ UNCHANGED <<acknowledged, stopped, fifo, arrived, givenUp>>

\* Only an arrival ends a command as reached; a request that waits may follow.
Acknowledge ==
  /\ current \in arrived
  /\ arrived' \in {arrived, arrived \ {current}}
  /\ acknowledged' = acknowledged \cup {current}
  /\ IssueNext \/ IssueNone
  /\ UNCHANGED <<abandoned, stopped, fifo, givenUp>>

\* And only the rover's own failure ends it as failed.
Fail ==
  /\ current \in givenUp
  /\ givenUp' \in {givenUp, givenUp \ {current}}
  /\ abandoned' = abandoned \cup {current}
  /\ IssueNone
  /\ UNCHANGED <<acknowledged, stopped, fifo, arrived>>

Stop ==
  /\ stopped' = TRUE
  /\ IssueNone
  /\ UNCHANGED <<acknowledged, abandoned, fifo, arrived, givenUp>>

coordinator == <<issued, current, acknowledged, abandoned, stopped>>

\* The rover takes commands in the order of issue, none twice, and none that it
\* has been at.
Accept(t) ==
  /\ stopped \/ t \in {current} \cup abandoned
  /\ \A u \in fifo \cup arrived \cup acknowledged : u < t
  /\ fifo' = fifo \cup {t}
  /\ UNCHANGED <<coordinator, arrived, givenUp>>

\* It drives to the oldest; the report of how that ended may push others out.
Resolve(t) ==
  /\ \A u \in fifo : t <= u
  /\ fifo' = fifo \ {t}
  /\ \/ arrived' \subseteq arrived \cup {t} /\ UNCHANGED givenUp
     \/ givenUp' \subseteq givenUp \cup {t} /\ UNCHANGED arrived
  /\ UNCHANGED coordinator

\* It drops what it has only once the coordinator has stopped.
Clear ==
  /\ stopped
  /\ fifo' = {}
  /\ UNCHANGED <<coordinator, arrived, givenUp>>

\* A report is lost, or comes when its command is no longer under way.
ReportVoid ==
  /\ arrived' \subseteq arrived /\ givenUp' \subseteq givenUp
  /\ UNCHANGED <<coordinator, fifo>>

Next ==
  \/ Issue \/ Acknowledge \/ Fail \/ Stop
  \/ \E t \in 1..issued : Accept(t)
  \/ \E t \in fifo : Resolve(t)
  \/ Clear \/ ReportVoid

Spec == Init /\ [][Next]_vars

-----------------------------------------------------------------------------
\* The rover is not on its way to what it has been at, and until the coordinator
\* stops it drives only to the command under way or to what was given up.
Promise ==
  /\ fifo \cap (arrived \cup acknowledged) = {}
  /\ stopped \/ fifo \subseteq {current} \cup abandoned
=============================================================================
