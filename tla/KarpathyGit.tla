----------------------------- MODULE KarpathyGit -----------------------------
(***************************************************************************)
(* The research loop and the replay of its decisions in git                *)
(* (agent/karpathy_git.py, called by agent/controller.py run).             *)
(*                                                                         *)
(* When a karpathy loop has stopped, the controller writes its record      *)
(* files and plans one git step per decision: a kept candidate becomes a   *)
(* commit, a discarded one restores the files from HEAD.  The first git    *)
(* command that fails raises, and no later step runs.                      *)
(*                                                                         *)
(* The record files (working, incumbent, ledger, git state, action plan)   *)
(* are always written, added and restored together: one version stands     *)
(* for them all.  The reports (git execution, agent-loop, phase5, model    *)
(* governance) are written after the replay and are listed in              *)
(* .git/info/exclude, but they are among the managed paths if an earlier   *)
(* run with the same run_id left them.  Nobody else uses the repository    *)
(* meanwhile, and it has an exclude file.                                  *)
(***************************************************************************)
EXTENDS ResearchLoop

VARIABLES
  replay, (* pc, and how many steps of the plan are executed               *)
  git,    (* the repository: head, index and the commits of this replay    *)
  disk    (* the managed files: version of the records, and the reports    *)

gitVars == <<replay, git, disk>>

(* A version of the record files: of no run, of an earlier run with this   *)
(* run_id, or of this one.                                                 *)
Version == {"none", "earlier", "this"}

GitInit ==
  /\ Init
  /\ replay = [pc |-> "loop", steps |-> 0]
  /\ git = [head |-> "none", index |-> "none", commits |-> <<>>]
  /\ disk = [records |-> "none", reports |-> FALSE]

(* What an earlier run may leave: it may have died, or git may have failed *)
(* it, before, between and after the add and the commit of a keep; a run   *)
(* that finished also left reports.                                        *)
Remains ==
  {r \in [head : {"none", "earlier"}, index : {"none", "earlier"}, reports : BOOLEAN] :
     r.head = "earlier" => r.index = "earlier"}

NoRemains == [head |-> "none", index |-> "none", reports |-> FALSE]

LoopStep == Step /\ UNCHANGED gitVars

(* auto means git-native where there is a repository.                      *)
EffectiveMode(requested, available) ==
  IF requested # "artifact-native" /\ available THEN "git-native" ELSE "artifact-native"

(* What becomes of the plan: execute is karpathy_git_execute_actions, which*)
(* may be left open; inside says that output_dir is in the workspace.      *)
PlanStatus(requested, available, execute, inside) ==
  LET native == EffectiveMode(requested, available) = "git-native" IN
  CASE execute = "no" -> "not_requested"
    [] execute = "open" /\ ~native -> IF requested = "artifact-native" THEN "not_requested" ELSE "blocked"
    [] execute = "yes" /\ ~native -> "blocked"
    [] execute # "no" /\ native -> IF inside THEN "checkout" ELSE "blocked"

(* The controller writes the records, resolves the git state and plans.    *)
(* Only a loop that found a working file can find other remains of an      *)
(* earlier run.                                                            *)
WriteRecords ==
  /\ pc = "stopped" /\ mode = "karpathy" /\ replay.pc = "loop"
  /\ \E r \in IF Leftover \in tried THEN Remains ELSE {NoRemains} :
       /\ disk' = [records |-> "this", reports |-> r.reports]
       /\ git' = [head |-> r.head, index |-> r.index, commits |-> <<>>]
  /\ \E requested \in {"auto", "git-native", "artifact-native"}, execute \in {"open", "yes", "no"},
        available, inside \in BOOLEAN :
       replay' = [pc |-> PlanStatus(requested, available, execute, inside), steps |-> 0]
  /\ UNCHANGED vars

(* The step of the plan that follows the checkout and those executed.      *)
NextDecision == decisions[replay.steps + 1]

Executing(keep) ==
  /\ replay.pc = "execute"
  /\ replay.steps < Len(decisions)
  /\ NextDecision.keep = keep

(* Mutant: the return code of git is not looked at.                        *)
CarriedOn ==
  [replay EXCEPT !.pc = "execute", !.steps = IF replay.pc = "execute" THEN @ + 1 ELSE @]

(* run_git_command raises, and the run with it: nothing more is written.   *)
Raised == [replay EXCEPT !.pc = "raised"]

Executed == [replay EXCEPT !.steps = @ + 1]

(* checkout -B autoresearch/<run_id>: the branch begins where HEAD is.     *)
CheckoutBranch ==
  /\ replay.pc = "checkout"
  /\ replay' \in {[replay EXCEPT !.pc = "execute"], Raised}
  /\ UNCHANGED <<vars, git, disk>>

-----------------------------------------------------------------------------
(* commit_candidate: add the managed paths, then commit --allow-empty.     *)

(* git add stages the records, but fails over paths that are excluded.     *)
AddFails == disk.reports \/ disk.records = "none"

Staged == [git EXCEPT !.index = IF disk.records = "none" THEN @ ELSE disk.records]

CommitCandidate ==
  /\ Executing(TRUE)
  /\ ~AddFails
  /\ git' = [Staged EXCEPT !.head = disk.records,
                           !.commits = Append(@, NextDecision.iteration)]
  /\ replay' = Executed
  /\ UNCHANGED <<vars, disk>>

(* The add fails, or the commit does (no identity, a hook, a lock): then   *)
(* the files stay staged.                                                  *)
CommitFails ==
  /\ Executing(TRUE)
  /\ git' = Staged
  /\ replay' = Raised
  /\ UNCHANGED <<vars, disk>>

-----------------------------------------------------------------------------
(* reset_to_incumbent: restore --source HEAD --staged --worktree.          *)

(* git restore knows only paths that HEAD or the index holds.              *)
RestoreFails == disk.reports \/ (git.head = "none" /\ git.index = "none")

(* A path that the index holds and HEAD does not is removed.               *)
ResetToIncumbent ==
  /\ Executing(FALSE)
  /\ ~RestoreFails
  /\ disk' = [disk EXCEPT !.records = git.head]
  /\ git' = [git EXCEPT !.index = git.head]
  /\ replay' = Executed
  /\ UNCHANGED vars

ResetFails ==
  /\ Executing(FALSE)
  /\ replay' = Raised
  /\ UNCHANGED <<vars, git, disk>>

(* The plan is executed; the reports are written.                          *)
WriteReports ==
  /\ \/ replay.pc = "execute" /\ replay.steps = Len(decisions)
     \/ replay.pc \in {"blocked", "not_requested"}
  /\ replay' = [replay EXCEPT !.pc = IF replay.pc = "execute" THEN "executed" ELSE "finished"]
  /\ disk' = [disk EXCEPT !.reports = TRUE]
  /\ UNCHANGED <<vars, git>>

(* The run is over.                                                        *)
GitDone ==
  /\ IF mode = "karpathy" THEN replay.pc \in {"executed", "finished", "raised"} ELSE pc = "stopped"
  /\ UNCHANGED <<vars, gitVars>>

GitStep ==
  \/ LoopStep
  \/ WriteRecords \/ CheckoutBranch
  \/ CommitCandidate \/ CommitFails
  \/ ResetToIncumbent \/ ResetFails
  \/ WriteReports

GitNext == GitStep \/ GitDone

(* The loop's fairness; a git command returns.                             *)
GitSpec == GitInit /\ [][GitNext]_<<vars, gitVars>> /\ WF_<<vars, gitVars>>(GitStep)

-----------------------------------------------------------------------------
KeptIterations == {d.iteration : d \in {e \in Range(decisions) : e.keep}}

(* The branch tells what the loop decided, whatever git command fails and  *)
(* whatever an earlier run left: the commits of a replay are its first     *)
(* keeps, in order.  A replay that is reported as executed has them all,   *)
(* so that HEAD is the incumbent unless the incumbent is a result no       *)
(* decision was taken on (a refinement that crashed); and if the first     *)
(* decision was a keep, HEAD, index and disk all hold the files of this    *)
(* run (execute_karpathy_git_action_plan).                                 *)
ReplayFollowsLoop ==
  LET committed == Range(git.commits) IN
  /\ committed \subseteq KeptIterations
  /\ \A i \in KeptIterations, c \in committed : i < c => i \in committed
  /\ \A i, j \in DOMAIN git.commits : i < j => git.commits[i] < git.commits[j]
  /\ replay.pc = "executed" /\ decisions # <<>> =>
       /\ committed = KeptIterations
       /\ LET incumbent == Last(decisions).kept IN
          (\E d \in Range(decisions) : d.iteration = incumbent)
             => Last(git.commits) = incumbent
       /\ decisions[1].keep => {git.head, git.index, disk.records} = {"this"}
=============================================================================
