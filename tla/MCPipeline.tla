----------------------------- MODULE MCPipeline -----------------------------
(***************************************************************************)
(* Pipeline for TLC, with what an assertion of the code says and the code  *)
(* does not keep.                                                          *)
(***************************************************************************)
EXTENDS PipelineLog, TLC

(* Workers differ in nothing but their port.                               *)
Symmetry == Permutations(Worker)

(* TaskSchedule.cc:54, assert(running_tasks_.count(taskId)): a completion  *)
(* is applied only while its task runs.                                    *)
FinishFindsRunning == \A i \in Master : status[i] # "assert_finish"
=============================================================================
