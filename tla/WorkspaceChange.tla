---------------------------- MODULE WorkspaceChange ----------------------------
(***************************************************************************)
(* The coding agent and its two front ends (holyfitra_agent.py,              *)
(* holyfitra_hd.py, holyfitra_campaign.py): a plan is reviewed, applied       *)
(* action by action to files that others edit too, and rolled back when an    *)
(* action raises.  The copilot shows a plan with the files it would change,   *)
(* saves it with a digest of the workspace and applies it later; the campaign *)
(* applies the plan most providers proposed.  A process may die anywhere.     *)
(*                                                                         *)
(* The files that one preview or one digest reads are read in one step.  A    *)
(* reviewed plan has begun once the workspace has the digest of its packet:   *)
(* who writes after that is one of the others.                               *)
(***************************************************************************)
EXTENDS Integers, SequencesExt, FiniteSetsExt

CONSTANTS
  FileOrder,         \* the paths of the workspace, in the order files() sorts them
  Texts, TextSize, NoFile,
  Plans,             \* what providers propose: sequences of actions
  Providers,         \* a sequence, in the order of their names
  MAX_CONTEXT_BYTES, max_file_bytes, min_consensus, MaxRounds

VARIABLES workspace, run, packet, receipt, round

workspace_vars == <<workspace, run, packet, receipt, round>>
Nothing == [status |-> "none"]
AllFiles == Range(FileOrder)

(* What a plan may be made of, once it has been parsed.                      *)
ASSUME WorkspaceAssumption ==
  /\ Plans \subseteq Seq([kind : {"write_file"}, path : AllFiles, content : Texts]
                          \cup [kind : {"read_file"}, path : AllFiles] \cup [kind : {"run_check", "finish"}])
  /\ Providers \in Seq(Nat) /\ MaxRounds \in Nat

IsWrite(a) == a.kind = "write_file"
IsCheck(a) == a.kind = "run_check"
Written(plan) == {plan[i].path : i \in {j \in DOMAIN plan : IsWrite(plan[j])}}
FinalWrite(plan, p) ==
  plan[Max({i \in DOMAIN plan : IsWrite(plan[i]) /\ plan[i].path = p})].content

(* The last check follows the last write, and finish is the last action.     *)
review_plan(plan) ==
  LET last_write == Max({0} \cup {i \in DOMAIN plan : IsWrite(plan[i])})
      last_check == Max({0} \cup {i \in DOMAIN plan : IsCheck(plan[i])})
  IN  /\ \A i \in DOMAIN plan : plan[i].kind = "finish" => i = Len(plan)
      /\ last_write > 0 => last_check > last_write

(* The files a digest covers: none that is too large, and none after the      *)
(* budget of bytes is spent.                                                 *)
Visible(fs) ==
  LET eligible == SelectSeq(FileOrder, LAMBDA p : fs[p] # NoFile /\ TextSize[fs[p]] <= max_file_bytes)
      total(i) == FoldSeq(LAMBDA p, n : TextSize[fs[p]] + n, 0, SubSeq(eligible, 1, i))
  IN  {eligible[i] : i \in {j \in DOMAIN eligible : total(j) <= MAX_CONTEXT_BYTES}}

(* Variant with a fault: the names of the files, not what is in them.         *)
DigestOfNames(fs) == Visible(fs)

workspace_digest(fs) == [p \in Visible(fs) |-> fs[p]]

Readable(fs, p) == fs[p] # NoFile /\ TextSize[fs[p]] <= max_file_bytes
inspect_plan(fs, plan) ==
  review_plan(plan) /\ \A i \in DOMAIN plan : plan[i].kind = "read_file" => Readable(fs, plan[i].path)

Start(plan, from) ==
  run' = [status |-> "running", from |-> from, plan |-> plan, next |-> 1, backups |-> <<>>,
          before |-> workspace, checked |-> <<>>, others |-> {}]

WorkspaceInit ==
  /\ workspace \in [AllFiles -> Texts \cup {NoFile}]
  /\ run = Nothing /\ packet = Nothing /\ receipt = Nothing /\ round = 0
-----------------------------------------------------------------------------
(* The plan is accepted and the files are shown to the reviewer.  History:    *)
(* what others have edited since.                                            *)
inspect_review(plan) ==
  /\ run = Nothing /\ packet = Nothing /\ inspect_plan(workspace, plan)
  /\ packet' = [status |-> "inspected", plan |-> plan, seen |-> workspace, edited |-> {}]
  /\ UNCHANGED <<workspace, run, receipt, round>>

(* The digest is taken afterwards, of the files as they are then, and whoever  *)
(* holds it cannot tell them from those that were shown.  History: whether it  *)
(* reached every file it might have.                                         *)
prepare_review_packet ==
  /\ packet.status = "inspected"
  /\ packet' = [status |-> "saved", plan |-> packet.plan, seen |-> packet.seen, edited |-> packet.edited,
                digest |-> workspace_digest(workspace),
                whole |-> Visible(workspace) = {p \in AllFiles : Readable(workspace, p)}]
  /\ UNCHANGED <<workspace, run, receipt, round>>

apply_review_packet ==
  /\ run = Nothing /\ packet.status = "saved" /\ receipt = Nothing
  /\ workspace_digest(workspace) = packet.digest /\ inspect_plan(workspace, packet.plan)
  /\ Start(packet.plan, "packet")
  /\ UNCHANGED <<workspace, packet, receipt, round>>

(* CodingAgent.run with apply: a plan whose review fails changes nothing.    *)
apply_plan(plan) ==
  /\ run = Nothing /\ receipt = Nothing /\ round = 0 /\ packet = Nothing
  /\ IF review_plan(plan)
     THEN Start(plan, "run") /\ UNCHANGED receipt
     ELSE receipt' = [status |-> "rejected"] /\ UNCHANGED run
  /\ UNCHANGED <<workspace, packet, round>>

Multiset(s) == [a \in Range(s) |-> Cardinality({i \in DOMAIN s : s[i] = a})]
Signature(plan) == <<Multiset(SelectSeq(plan, IsWrite)), Multiset(SelectSeq(plan, IsCheck))>>

(* A candidate is ready with a plan that checks; <<>> stands for a provider     *)
(* that failed.                                                              *)
IsReady(plan) == \E i \in DOMAIN plan : IsCheck(plan[i])

(* The largest group of ready candidates that agree, the one with the first    *)
(* provider among equals, unless it is smaller than required.                *)
select_consensus(candidates) ==
  LET ready == {i \in DOMAIN candidates : IsReady(candidates[i])}
      group(i) == {j \in ready : Signature(candidates[j]) = Signature(candidates[i])}
      best == {i \in ready : \A j \in ready : Cardinality(group(j)) <= Cardinality(group(i))}
  IN  IF best = {} \/ Cardinality(group(Min(best))) < Min({min_consensus, Cardinality(ready)})
      THEN <<>> ELSE candidates[Min(best)]

(* A round: a plan is applied, or none is found.  After a plan that was not     *)
(* applied there is no other round.                                          *)
Round(plan) ==
  /\ run = Nothing /\ packet = Nothing /\ round < MaxRounds
  /\ receipt.status \in {"none", "applied"}
  /\ round' = round + 1
  /\ CASE plan = <<>> -> UNCHANGED <<run, receipt>>
       [] plan # <<>> /\ review_plan(plan) -> Start(plan, "round") /\ receipt' = Nothing
       [] OTHER -> receipt' = [status |-> "rejected"] /\ UNCHANGED run
  /\ UNCHANGED <<workspace, packet>>

(* MultiAICampaign.run, and CodingAgent.improve with one provider's plan.      *)
CampaignRound(candidates) == Round(select_consensus(candidates))
improve(plan) == Round(plan)
-----------------------------------------------------------------------------
Action == run.plan[run.next]
Advance(changed) == run' = [changed EXCEPT !.next = @ + 1] /\ UNCHANGED <<packet, receipt, round>>

read_file ==
  /\ Action.kind \in {"read_file", "finish"}
  /\ Action.kind = "read_file" => Readable(workspace, Action.path)
  /\ Advance(run) /\ UNCHANGED workspace

(* Variant with a fault: every write takes a new backup.                     *)
BackedAgain ==
  [p \in DOMAIN run.backups \cup {Action.path} |->
     IF p = Action.path THEN workspace[p] ELSE run.backups[p]]

(* What was there before the first write of a path is kept for the rollback;  *)
(* the content replaces the file at once.                                    *)
Backed ==
  [p \in DOMAIN run.backups \cup {Action.path} |->
     IF p \in DOMAIN run.backups THEN run.backups[p] ELSE workspace[p]]

write_file ==
  /\ IsWrite(Action) /\ TextSize[Action.content] <= max_file_bytes
  /\ workspace' = [workspace EXCEPT ![Action.path] = Action.content]
  /\ Advance([run EXCEPT !.backups = Backed])

run_check == IsCheck(Action) /\ Advance([run EXCEPT !.checked = workspace]) /\ UNCHANGED workspace

(* Something raised: a file that cannot be read or written, a check that       *)
(* failed.  What cannot be restored, for an error of the file system, stays.  *)
_rollback(backups, lost) == [p \in AllFiles |-> IF p \in DOMAIN backups \ lost THEN backups[p] ELSE workspace[p]]
Raise ==
  /\ Action.kind = "read_file" => ~Readable(workspace, Action.path)
  /\ Action.kind # "finish"
  /\ LET backups == IF IsWrite(Action) THEN Backed ELSE run.backups
     IN  \E lost \in SUBSET DOMAIN backups :
           /\ workspace' = _rollback(backups, lost)
           /\ receipt' = [status |-> "rolled_back",
                          wrong |-> {p \in AllFiles \ (run.others \cup lost) : workspace'[p] # run.before[p]}]
  /\ run' = Nothing /\ UNCHANGED <<packet, round>>

Applied ==
  /\ run.next > Len(run.plan)
  /\ receipt' = [status |-> "applied",
                 wrong |-> {p \in Written(run.plan) \ run.others : run.checked[p] # FinalWrite(run.plan, p)}]
  /\ run' = Nothing /\ UNCHANGED <<workspace, packet, round>>

Act == /\ run # Nothing
       /\ \/ run.next <= Len(run.plan) /\ (read_file \/ write_file \/ run_check \/ Raise)
          \/ Applied

(* The process dies: its backups go with it, the saved packet stays.          *)
Crash == /\ run # Nothing /\ run' = Nothing /\ receipt' = [status |-> "died"]
         /\ UNCHANGED <<workspace, packet, round>>

(* Somebody else changes a file: while a plan runs, after its packet was saved, *)
(* or, each file once, between the preview and the digest.                   *)
Edit(p, c) ==
  /\ workspace[p] # c /\ receipt = Nothing /\ workspace' = [workspace EXCEPT ![p] = c]
  /\ \/ run = Nothing /\ packet.status = "saved" /\ UNCHANGED <<run, packet>>
     \/ /\ packet.status = "inspected" /\ p \notin packet.edited
        /\ packet' = [packet EXCEPT !.edited = @ \cup {p}]
        /\ UNCHANGED run
     \/ /\ run # Nothing /\ p \notin run.others
        /\ run' = [run EXCEPT !.others = @ \cup {p}]
        /\ UNCHANGED packet
  /\ UNCHANGED <<receipt, round>>

WorkspaceNext ==
  \/ \E plan \in Plans : inspect_review(plan) \/ apply_plan(plan) \/ improve(plan)
  \/ prepare_review_packet \/ apply_review_packet
  \/ run = Nothing /\ \E candidates \in [DOMAIN Providers -> Plans \cup {<<>>}] : CampaignRound(candidates)
  \/ Act \/ Crash
  \/ \E p \in AllFiles, c \in Texts \cup {NoFile} : Edit(p, c)

WorkspaceSpec == WorkspaceInit /\ [][WorkspaceNext]_workspace_vars
-----------------------------------------------------------------------------
WorkspaceTypeOK ==
  /\ workspace \in [AllFiles -> Texts \cup {NoFile}] /\ round \in 0..MaxRounds
  /\ run # Nothing => run.plan \in Plans /\ review_plan(run.plan) /\ run.next \in 1..Len(run.plan) + 1

(* A plan that counts as applied had its last check pass on the very contents  *)
(* it leaves behind, and one that was rolled back leaves every file as it was  *)
(* when it began; save what others wrote and what could not be written back. *)
ChangesAreWhole == receipt.status \in {"applied", "rolled_back"} => receipt.wrong = {}

(* A reviewed plan begins on a file that is as the reviewer saw it, unless it  *)
(* was changed before the digest was taken.                                  *)
Reviewed(p) ==
  run # Nothing /\ run.from = "packet" /\ Readable(packet.seen, p) =>
    run.before[p] = packet.seen[p] \/ p \in packet.edited

(* When the digest reached every file it might have, that is so of all files:  *)
(* of what others edited after the review only a change between the preview   *)
(* and the digest can go unnoticed.                                          *)
ReviewHolds == packet.status = "saved" /\ packet.whole => \A p \in AllFiles : Reviewed(p)

(* A change is applied as it was checked or taken back whole, and a reviewed  *)
(* plan meets the files its reviewer saw, save what changed before the digest. *)
ChangesReviewed == WorkspaceTypeOK /\ ChangesAreWhole /\ ReviewHolds

(* HOLY_FITRA_HD.md:30: "The apply is rejected if any eligible workspace file  *)
(* has changed after review"; the review being over when the packet is saved. *)
EveryChangeRejects == \A p \in AllFiles : Reviewed(p)
=============================================================================
