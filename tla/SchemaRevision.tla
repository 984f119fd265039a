---------------------------- MODULE SchemaRevision ----------------------------
(***************************************************************************)
(* What running migrations promises: the database is at one revision, and  *)
(* a migrator moves it from the revision it read to its target in one      *)
(* step, but only if the database is still at the revision it read.        *)
(***************************************************************************)
CONSTANTS Migrator, Revision, Base, NoJob

VARIABLES
  revision,   \* the revision of the database
  job         \* job[m]: <<the revision m read, its target>>, or NoJob

vars == <<revision, job>>

Init ==
  /\ revision = Base
  /\ job = [m \in Migrator |-> NoJob]

Read(m) ==
  /\ job[m] = NoJob
  /\ \E target \in Revision : job' = [job EXCEPT ![m] = <<revision, target>>]
  /\ UNCHANGED revision

Apply(m) ==
  /\ job[m] # NoJob
  /\ job[m][1] = revision
  /\ revision' = job[m][2]
  /\ job' = [job EXCEPT ![m] = NoJob]

GiveUp(m) ==
  /\ job[m] # NoJob
  /\ job' = [job EXCEPT ![m] = NoJob]
  /\ UNCHANGED revision

Next == \E m \in Migrator : Read(m) \/ Apply(m) \/ GiveUp(m)

Spec == Init /\ [][Next]_vars

===============================================================================
