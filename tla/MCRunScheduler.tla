----------------------------- MODULE MCRunScheduler -----------------------------
(* RunScheduler on a few slots: the constants no .cfg can write. *)
EXTENDS RunSchedulerInvariant, TLC

CONSTANTS GenerationLimit, AgentLimit, JudgeLimit

MCRoleLimit == [role \in Role |->
    CASE role = "task_generation" -> GenerationLimit
      [] role = "agent" -> AgentLimit
      [] role = "quality_judge" -> JudgeLimit]
MCOwner == (1 .. MaxInvocations) \X {"episode", "generation"} \X Sequence
MCVerdict == {"pass", "fail", "unavailable"}
KeySymmetry == Permutations(Key)
=================================================================================
