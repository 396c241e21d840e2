------------------------------ MODULE SysWorkQ ------------------------------
(***************************************************************************)
(* The Zephyr system work queue, as the code in quazi/src uses it.  It is  *)
(* not part of the repository (external).                                  *)
(*                                                                         *)
(* One cooperative thread takes the works in the order in which they were  *)
(* submitted.  A work is a static object that holds at most one place in   *)
(* the queue; submitting it again while it waits changes nothing, and a    *)
(* work that is being run has already left the queue, so that it can be    *)
(* submitted again.  The queue is a sequence of the names of the works.    *)
(*                                                                         *)
(* A delayable work is a work together with a timeout.  Rescheduling it    *)
(* replaces the timeout and leaves a place it already holds in the queue   *)
(* as it is; rescheduling with K_NO_WAIT also submits it at once; only     *)
(* k_work_cancel_delayable takes it out of the queue.                      *)
(***************************************************************************)
EXTENDS SequencesExt

(* k_work_submit *)
Submit(q, w) == IF Contains(q, w) THEN q ELSE Append(q, w)

(* k_work_cancel_delayable: its part that concerns the queue. *)
Cancel(q, w) == RemoveFirst(q, w)

(* The work thread is about to run w. *)
Runs(q, w) == q # <<>> /\ Head(q) = w
=============================================================================
