---------------------------- MODULE JobLifecycle ----------------------------
(***************************************************************************)
(* What a queue driver promises about a job it accepted, whoever delivers  *)
(* it and whatever fails: the job stays on the queue until its work is     *)
(* done, it gives up into the dead letter state, or an operator removes    *)
(* it; a job that gave up stays there until an operator puts it back, its  *)
(* work is done after all, or it is removed.  It is the contract of        *)
(* jobs.Driver (queue/jobs/jobs.go) and queue.Queue's Retry and Clear.     *)
(***************************************************************************)
CONSTANT Ids

VARIABLES status,    \* status[id]: no job, on its queue, or given up
          done,      \* ids whose work was done
          removed    \* ids an operator removed

vars == <<status, done, removed>>

Init ==
  /\ status = [id \in Ids |-> "none"]
  /\ done = {}
  /\ removed = {}

Move(id, from, to) ==
  /\ status[id] = from
  /\ status' = [status EXCEPT ![id] = to]

Accept(id) == Move(id, "none", "live") /\ UNCHANGED <<done, removed>>

Finish(id) == done' = done \cup {id} /\ UNCHANGED <<status, removed>>

Delete(id) ==
  /\ id \in done
  /\ status' = [status EXCEPT ![id] = "none"]
  /\ UNCHANGED <<done, removed>>

FailJob(id) == Move(id, "live", "parked") /\ UNCHANGED <<done, removed>>

Retry(id) == Move(id, "parked", "live") /\ UNCHANGED <<done, removed>>

Remove(ids) ==
  /\ status' = [id \in Ids |-> IF id \in ids THEN "none" ELSE status[id]]
  /\ removed' = removed \cup ids
  /\ UNCHANGED done

Next ==
  \/ \E id \in Ids : \/ Accept(id) \/ Finish(id) \/ Delete(id)
                     \/ FailJob(id) \/ Retry(id)
  \/ \E ids \in SUBSET Ids : Remove(ids)

Spec == Init /\ [][Next]_vars

=============================================================================
