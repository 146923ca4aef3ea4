--------------------------- MODULE MCBackendProgress ---------------------------
(***************************************************************************)
(* The trigger of automatic dispatch and the binding saga under            *)
(* administrators, for what has to happen in the end.  The initial state   *)
(* chooses one of them; the other stands still.                            *)
(***************************************************************************)
EXTENDS DeviceBindingSaga, DispatchTrigger

VARIABLE job

ASSUME TriggerAssumption /\ NoEventAssumption

jobVars == <<job, vars, dispatchVars>>

JobInit ==
  /\ job \in {"trigger", "bind"}
  /\ DispatchInit /\ (job = "bind" => \A o \in Orders : stage[o] = "ABSENT")
  /\ Init /\ (job = "trigger" => \A d \in Devices : device[d] = "IDLE")

Triggering(A) == job = "trigger" /\ A /\ UNCHANGED <<job, vars>>
Binding(A) == job = "bind" /\ A /\ UNCHANGED <<job, dispatchVars>>

JobNext == Triggering(DispatchNext) \/ Binding(Next)

\* The fairness of the two modules: scanners run again and again, time passes, what was
\* begun ends, listeners consume.
JobSpec ==
  /\ JobInit /\ [][JobNext]_jobVars
  /\ WF_jobVars(Triggering(DeadlinePasses))
  /\ \A s \in Scanners :
       WF_jobVars(Triggering(Scan(s) \/ TriggerNext(s) \/ InsertEvent(s)))
  /\ \A a \in DispatchAdmins : WF_jobVars(Triggering(InsertEvent(a)))
  /\ \A t \in Consumers : WF_jobVars(Binding(Consume(t)))
================================================================================
