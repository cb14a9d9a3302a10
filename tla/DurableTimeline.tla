---------------------------- MODULE DurableTimeline ----------------------------
(***************************************************************************)
(* What rrjj promises its readers, whichever sinks are behind it: a        *)
(* timeline that only grows, and a durable watermark that only advances    *)
(* and never passes an entry whose checkpoint content is not stored.       *)
(*                                                                         *)
(* An entry is the number of the commit it names, or 0 when it names none. *)
(* Commits are numbered along their one line of descent, so storing commit *)
(* c stores every commit up to c.                                          *)
(***************************************************************************)
EXTENDS Naturals, Sequences

VARIABLES
  log,      \* entries accepted, in order
  stored,   \* the newest commit whose content readers can fetch; 0 for none
  durable   \* how many entries the watermark covers

vars == <<log, stored, durable>>

\* Every commit named in the first n entries of l has its content stored.
Covers(l, n, commit) == \A i \in 1..n : l[i] <= commit

Init == log \in Seq(Nat) /\ stored = 0 /\ durable = 0

\* The coordinator accepts one more entry.
Record ==
  /\ Len(log') = Len(log) + 1
  /\ \A i \in 1..Len(log) : log'[i] = log[i]
  /\ UNCHANGED <<stored, durable>>

\* A flush stores checkpoint content, advances the watermark, or both.
Advance ==
  /\ UNCHANGED log
  /\ stored' >= stored
  /\ durable' \in durable..Len(log)
  /\ Covers(log, durable', stored')

Next == Record \/ Advance

Spec == Init /\ [][Next]_vars

\* What a reader relies on: the durable prefix exists and can be materialized.
Readable == durable <= Len(log) /\ Covers(log, durable, stored)

=============================================================================
