----------------------------- MODULE MCConsole -----------------------------
(***************************************************************************)
(* JtagUartDriver for TLC, in one of three scripts: the program writes     *)
(* and closes, while the host comes and goes; it reads; or it does both,   *)
(* with a host that is there every second and ends that send no more than  *)
(* MaxSent bytes each.                                                     *)
(***************************************************************************)
EXTENDS JtagUartDriver

CONSTANT MaxSent
ASSUME MaxSentAssumption == MaxSent \in 0..(Period - 1)

VARIABLE script

Called == [out |-> {"w_copy", "c_spin"}, in |-> {"r_copy"}, both |-> {"w_copy", "r_copy"}]

Scripted ==
  /\ call.at = "idle" => call'.at \in Called[script] \cup {"idle"}
  /\ script # "out" => timeout' = timeout
  /\ script = "out" => sent' = sent /\ call'.left <= 2
  /\ script = "both" =>
       /\ connected' /\ host_inactive' = 0 /\ sent' \in sent..MaxSent
       /\ call.at = "idle" /\ call'.at = "w_copy" => wrote + call'.left <= MaxSent

MCInit == Init /\ script \in DOMAIN Called /\ (script = "both" => connected)
\* Fairness of the driver's steps, where the script leaves them possible.
InScript == Scripted /\ UNCHANGED script
MCNext == Next /\ InScript
MCSpec ==
  /\ MCInit /\ [][MCNext]_<<vars, script>>
  /\ WF_<<vars, script>>(Isr /\ InScript)
  /\ WF_<<vars, script>>(Working /\ InScript)
  /\ WF_<<vars, script>>(HostCheck /\ InScript)
  /\ WF_<<vars, script>>(Take /\ Host /\ InScript)
  /\ WF_<<vars, script>>(Pause /\ Host /\ InScript)
=============================================================================
