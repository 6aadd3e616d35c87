----------------------------- MODULE AesDevice -----------------------------
(***************************************************************************)
(* What the AES core promises to whoever drives its inputs, without saying *)
(* how: a job is taken when start is seen in the idle phase; its message   *)
(* must be held while it is loading and its key until it is done; if they  *)
(* were, the result is the decryption of the job.  The job is released     *)
(* only when start is seen in the done phase, and reset abandons it.       *)
(***************************************************************************)
CONSTANTS
  Decrypt(_, _),    (* the result due for a key and a message              *)
  Outcome           (* what a run may show whose inputs were not held      *)

VARIABLES
  reset, start, key, msg,   (* inputs                                      *)
  phase,                    (* "idle", "loading", "busy" or "done"         *)
  job,                      (* the key and message taken                   *)
  held,                     (* have the inputs kept showing them           *)
  result                    (* meaningful in phase "done" only             *)

vars == <<reset, start, key, msg, phase, job, held, result>>

Init ==
  /\ phase = "idle"
  /\ held = FALSE

Take ==
  /\ phase = "idle" /\ start /\ ~reset
  /\ phase' = "loading"
  /\ job' = [key |-> key', msg |-> msg']
  /\ held' = TRUE

Hold ==
  /\ job' = job
  /\ held' = (/\ held
              /\ phase' \in {"loading", "busy"} => key' = job.key
              /\ phase' = "loading" => msg' = job.msg)

Work ==
  /\ phase \in {"loading", "busy"} /\ ~reset
  /\ phase' \in IF phase = "loading" THEN {"loading", "busy"} ELSE {"busy"}
  /\ Hold

Complete ==
  /\ phase = "busy" /\ ~reset
  /\ phase' = "done"
  /\ Hold
  /\ result' \in IF held' THEN {Decrypt(job.key, job.msg)} ELSE Outcome

Rest ==
  /\ \/ phase = "idle" /\ ~start
     \/ phase = "done" /\ ~start /\ result' = result
  /\ ~reset
  /\ phase' = phase
  /\ Hold

Release ==
  /\ phase = "done" /\ start /\ ~reset
  /\ phase' = "idle"
  /\ Hold

Abandon ==
  /\ reset
  /\ phase' = "idle"
  /\ Hold

Next == Take \/ Work \/ Complete \/ Rest \/ Release \/ Abandon

Spec == Init /\ [][Next]_vars
=============================================================================
