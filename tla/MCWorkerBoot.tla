---------------------------- MODULE MCWorkerBoot ----------------------------
\* Small instances of WorkerBoot.
EXTENDS WorkerBoot, TLC

CONSTANTS cwd1, prompt1, prompt2

AllShare == [id \in Worker |-> cwd1]
PromptSymmetry == Permutations(Prompt)

=============================================================================
