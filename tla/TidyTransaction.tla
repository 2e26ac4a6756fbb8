-------------------------- MODULE TidyTransaction --------------------------
(***************************************************************************)
(* `emu-dev-cli tidy fix`: renames and repairs made by clang-tidy and by   *)
(* coding agents, kept as step commits in the user's Git repository        *)
(* (lib/git_transaction.py) by the Level 1 engine (lib/level1_engine.py)   *)
(* and the loop of Levels 2 to 4 (lib/tidy_engine.py), under the command   *)
(* of commands/tidy/fix_cmd.py.  The state of a transaction is in the      *)
(* trailers of the commits only: a process that is killed loses its        *)
(* anchor, its level and its failed symbols, and the repository stays as   *)
(* the last Git command left it.                                           *)
(*                                                                         *)
(* History is the sequence of commits on the branch and a commit hash is a *)
(* position in it: nobody rewrites history but the tool.  A tree is told   *)
(* by the replacements and renames in it, whether its target compiles,     *)
(* whether its test target passes, and the edits of the user in it.  Level *)
(* 2 stands for Levels 2 to 4, which differ in their diagnostics and       *)
(* compiled targets only.  The user does not touch the repository while    *)
(* the tool runs and stages nothing without committing it, agents add no   *)
(* untracked files, and the target lies in the repository of the source    *)
(* directory, whose HEAD --abort and --continue read.                      *)
(***************************************************************************)
EXTENDS Integers, Sequences

CONSTANTS
    Raw,        \* Level 1 diagnostics with replacements
    Plain,      \* Level 1 diagnostics without any
    Names,      \* Level 2 diagnostics: symbols to rename
    Goals,      \* the levels that are asked for
    WithTests,  \* whether runs are given a test target
    Sessions,   \* whether the tool runs in an agent session
    MaxFixes,   \* bound: how often a fix is started
    MaxContinues, \* bound: how often one is continued
    MaxUpsets   \* bound: how often the user edits the tree, an agent of a session
                \* writes to it, or git status fails

ASSUME TidyAssumption ==
    /\ Raw \cap Plain = {} /\ (Raw \cup Plain) \cap Names = {}
    /\ Goals \subseteq 1..2 /\ WithTests \subseteq BOOLEAN /\ Sessions \subseteq BOOLEAN
    /\ {MaxFixes, MaxContinues, MaxUpsets} \subseteq Nat

VARIABLES
    commits,    \* the branch, from the first commit to HEAD
    index,      \* the staged tree
    work,       \* the working tree
    pc,         \* where the tool is, "idle" when none runs
    job,        \* what the running command holds in memory
    asked,      \* what conversations with agents were started about
    misled,     \* history: a check's answer was wrong or out of date when used
    fixes, continues, upsets

repo == <<commits, index, work>>
counts == <<fixes, continues, upsets>>
vars == <<commits, index, work, pc, job, asked, misled, fixes, continues, upsets>>

Diagnosed == Raw \cup Plain \cup Names
NoTx == [anchor |-> 0, level |-> 0]     \* a commit without Tidy trailers
Idle == [cmd |-> "none", level |-> 0, goal |-> 0, force |-> FALSE, test |-> FALSE,
         session |-> FALSE, anchor |-> 0, failed |-> {}, todo |-> {}, cur |-> {},
         step |-> "none"]

HEAD == commits[Len(commits)]
TreeClean == index = HEAD.tree /\ work = HEAD.tree

Init ==
    /\ commits = <<[tree |-> [done |-> {}, compiles |-> TRUE, passes |-> TRUE, user |-> 0],
                    tx |-> NoTx]>>
    /\ index = HEAD.tree /\ work = HEAD.tree
    /\ pc = "idle" /\ job = Idle
    /\ asked = {} /\ misled = FALSE
    /\ fixes = 0 /\ continues = 0 /\ upsets = 0

\* What t may have become after a change that leaves done in it.
Changed(t, done) ==
    [done : {done}, compiles : BOOLEAN, passes : BOOLEAN, user : {t.user}]

(***************************************************************************)
(* Git, as the transaction uses it.                                        *)
(***************************************************************************)
Exit == pc' = "idle" /\ job' = Idle

Commit(tree, tx) == commits' = Append(commits, [tree |-> tree, tx |-> tx])

\* reset --hard to the commit at position n
ResetHard(n) ==
    /\ commits' = SubSeq(commits, 1, n)
    /\ index' = commits[n].tree /\ work' = commits[n].tree

Rollback == ResetHard(Len(commits))

\* Mutant: the latest step commit is found below the user's own commits too.
AnyStep ==
    LET steps == {i \in DOMAIN commits : commits[i].tx # NoTx}
    IN  IF steps = {} THEN NoTx
        ELSE commits[CHOOSE i \in steps : \A j \in steps : j <= i].tx

\* The transaction whose trailers the last commit carries.
ActiveTransaction == HEAD.tx

(***************************************************************************)
(* The user between two runs, and the agents of a session, which work on   *)
(* while the tool goes on, ends or is killed.                              *)
(***************************************************************************)
UserEdits ==
    /\ pc = "idle" /\ upsets < MaxUpsets
    /\ work' \in Changed([work EXCEPT !.user = upsets + 1], work.done)
    /\ upsets' = upsets + 1
    /\ UNCHANGED <<commits, index, pc, job, asked, misled, fixes, continues>>

UserCommits ==
    /\ pc = "idle" /\ ~TreeClean
    /\ Commit(work, NoTx)
    /\ index' = work
    /\ UNCHANGED <<work, pc, job, asked, misled, counts>>

UserDiscards ==
    /\ pc = "idle" /\ ~TreeClean
    /\ Rollback
    /\ UNCHANGED <<pc, job, asked, misled, counts>>

\* Where the tool relies on what it last knew of the tree.
Relying == {"staged", "compile", "tests", "commitFix", "commitTests", "commitPlain",
            "testGate", "commitSeed"}

AgentWrites ==
    /\ upsets < MaxUpsets
    /\ \E about \in asked :
           \E done \in {work.done, work.done \cup (about \cap Names), work.done \ about} :
               work' \in Changed(work, done) \ {work}
    /\ upsets' = upsets + 1
    /\ misled' = (misled \/ pc \in Relying)
    /\ UNCHANGED <<commits, index, pc, job, asked, fixes, continues>>

(***************************************************************************)
(* The command: fresh from Level 1 up to a goal, --continue, --abort.      *)
(***************************************************************************)
\* Level 1 looks at the tree before it builds its report.
Start(level) == IF level = 1 THEN "check" ELSE "report"

Fix ==
    /\ pc = "idle" /\ fixes < MaxFixes
    /\ \E goal \in Goals, force \in BOOLEAN, test \in WithTests, session \in Sessions :
           job' = [Idle EXCEPT !.cmd = "fix", !.level = 1, !.goal = goal,
                               !.force = force, !.test = test, !.session = session]
    /\ pc' = Start(1) /\ fixes' = fixes + 1
    /\ UNCHANGED <<repo, asked, misled, continues, upsets>>

Continue ==
    /\ pc = "idle" /\ continues < MaxContinues /\ ActiveTransaction # NoTx
    /\ \E force \in BOOLEAN, test \in WithTests, session \in Sessions :
           job' = [Idle EXCEPT !.cmd = "continue", !.level = ActiveTransaction.level,
                               !.goal = ActiveTransaction.level,
                               !.anchor = ActiveTransaction.anchor,
                               !.force = force, !.test = test, !.session = session]
    /\ pc' = Start(ActiveTransaction.level) /\ continues' = continues + 1
    /\ UNCHANGED <<repo, asked, misled, fixes, upsets>>

Abort ==
    /\ pc = "idle" /\ ActiveTransaction # NoTx
    /\ ResetHard(ActiveTransaction.anchor)
    /\ UNCHANGED <<pc, job, asked, misled, counts>>

\* A level returned: the next one up to the goal runs with a new context.
LevelEnds ==
    IF job.level < job.goal
    THEN /\ pc' = Start(job.level + 1)
         /\ job' = [job EXCEPT !.level = @ + 1, !.anchor = 0, !.failed = {},
                               !.todo = {}, !.cur = {}, !.step = "none"]
    ELSE Exit

OfLevel == IF job.level = 1 THEN Raw \cup Plain ELSE Names

\* What a report may list: the diagnostics of the tree or, as its build may fail
\* unseen, those an earlier build has left in the file, of whatever tree.
Diagnostics == SUBSET OfLevel

\* Mutant: only what is staged counts as an uncommitted change.
StagedOnly == job.force \/ index = HEAD.tree

MayStart == job.force \/ TreeClean

\* A git status that fails reads as a clean tree.
Reads(clean) ==
    \/ clean /\ UNCHANGED <<misled, upsets>>
    \/ ~clean /\ upsets < MaxUpsets /\ upsets' = upsets + 1 /\ misled' = TRUE

\* start_transaction takes HEAD as the anchor.
StartAnchor == Len(commits)

CheckTree ==
    /\ pc = "check" /\ pc' = "report"
    /\ Reads(MayStart)
    /\ UNCHANGED <<repo, job, asked, fixes, continues>>

\* Level 1 refuses a dirty tree before its report, even to continue; a fresh
\* start of a transaction refuses it after.
RefuseDirty ==
    /\ ~MayStart /\ Exit
    /\ pc = "check" \/ (pc = "report" /\ job.cmd = "fix" /\ OfLevel # {})
    /\ UNCHANGED <<repo, asked, misled, counts>>

NothingToFix ==
    /\ pc = "report" /\ LevelEnds
    /\ UNCHANGED <<repo, asked, misled, counts>>

StartTransaction ==
    /\ pc = "report"
    /\ Reads(job.cmd = "fix" => MayStart)
    /\ \E found \in Diagnostics \ {{}} :
           job' = [job EXCEPT !.anchor = IF job.cmd = "continue" THEN @ ELSE StartAnchor,
                              !.todo = IF job.level = 1 THEN found ELSE {}]
    /\ pc' = IF job.level = 1 THEN "apply" ELSE "loop"
    /\ UNCHANGED <<repo, asked, fixes, continues>>

(***************************************************************************)
(* Steps the two engines share.                                            *)
(***************************************************************************)
Goto(at, to) == pc = at /\ pc' = to

\* Where an engine goes on after a step commit, by what the step was.
After == [raw |-> "compile", fix |-> "tests", tests |-> "plain", plain |-> "plain",
          rename |-> "loop"]

\* The symbol at hand is done with; Level 2 takes it off the failed ones.
Stepped(j) == [j EXCEPT !.failed = @ \ j.cur, !.cur = {}]

\* commit_step: nothing to commit in a clean tree, add -u else.
CommitStep(at, step) ==
    /\ pc = at
    /\ \/ /\ Reads(TreeClean)
          /\ pc' = After[step] /\ job' = Stepped(job)
          /\ UNCHANGED index
       \/ /\ ~TreeClean /\ index' = work
          /\ pc' = "staged" /\ job' = [job EXCEPT !.step = step]
          /\ UNCHANGED <<misled, upsets>>
    /\ UNCHANGED <<commits, work, asked, fixes, continues>>

\* ... and git commit, of what is staged.
CommitStaged ==
    /\ pc = "staged" /\ index # HEAD.tree
    /\ Commit(index, [anchor |-> job.anchor, level |-> job.level])
    /\ pc' = After[job.step] /\ job' = Stepped(job)
    /\ UNCHANGED <<index, work, asked, misled, counts>>

\* git commit fails, by a hook or for want of changes: the exception ends
\* Level 1 where it is and has Level 2 roll back.
CommitFails ==
    /\ pc = "staged" /\ Exit
    /\ IF job.level = 1 THEN UNCHANGED repo ELSE Rollback
    /\ UNCHANGED <<asked, misled, counts>>

\* dispatch_refactor_step.  A standalone agent is waited for: it leaves any tree
\* behind, and may undo the rename it was given.  In a session a conversation is
\* started, or not, and nothing is waited for.
Agent(at, to) ==
    /\ Goto(at, to)
    /\ IF job.session
       THEN asked' \in {asked, asked \cup {job.cur}} /\ UNCHANGED work
       ELSE /\ \E done \in {work.done, work.done \ (job.cur \ HEAD.tree.done)} :
                   work' \in Changed(work, done)
            /\ UNCHANGED asked
    /\ UNCHANGED <<commits, index, job, misled, counts>>

\* A gate: what has passed goes on, the rest is rolled back and the command ends.
Gate(at, passed, to) ==
    /\ pc = at
    /\ \/ passed /\ pc' = to /\ UNCHANGED <<repo, job>>
       \/ ~passed /\ Rollback /\ Exit
    /\ UNCHANGED <<asked, misled, counts>>

\* A check that calls an agent when it fails.
Try(at, passed, to, agent) ==
    /\ Goto(at, IF passed THEN to ELSE agent)
    /\ UNCHANGED <<repo, job, asked, misled, counts>>

Compiles == work.compiles

\* Mutant: the test target is built and not run.
TestsBuild == job.test => work.compiles

TestsPass == job.test => work.passes

(***************************************************************************)
(* Level 1: all replacements in one raw commit, then build, tests, and an  *)
(* agent for each diagnostic without replacements (compiled, not tested).  *)
(***************************************************************************)
\* Replacements may apply or not; those of an old report hit what is there now.
Apply ==
    /\ Goto("apply", "commitRaw")
    /\ IF job.todo \cap Raw = {} THEN UNCHANGED work
       ELSE \E fixed \in SUBSET (job.todo \cap Raw) : work' \in Changed(work, work.done \cup fixed)
    /\ job' = [job EXCEPT !.todo = @ \ Raw]
    /\ UNCHANGED <<commits, index, asked, misled, counts>>

NextPlain ==
    /\ pc = "plain"
    /\ \/ job.todo = {} /\ pc' = "finalize" /\ UNCHANGED job
       \/ \E d \in job.todo :
              /\ job' = [job EXCEPT !.todo = @ \ {d}, !.cur = {d}]
              /\ pc' = "agentPlain"
    /\ UNCHANGED <<repo, asked, misled, counts>>

Level1 ==
    \/ Apply
    \/ CommitStep("commitRaw", "raw")
    \/ Try("compile", Compiles, "tests", "agentFix")
    \/ Agent("agentFix", "recompile")
    \/ Gate("recompile", Compiles, "commitFix")
    \/ CommitStep("commitFix", "fix")
    \/ Try("tests", TestsPass, "plain", "agentTests")
    \/ Agent("agentTests", "retest")
    \/ Gate("retest", TestsPass, "commitTests")
    \/ CommitStep("commitTests", "tests")
    \/ NextPlain
    \/ Agent("agentPlain", "compilePlain")
    \/ Gate("compilePlain", Compiles, "commitPlain")
    \/ CommitStep("commitPlain", "plain")

(***************************************************************************)
(* Levels 2 to 4: one symbol at a time, from a report built each time.     *)
(***************************************************************************)
\* Mutant: a symbol that could not be seeded is not remembered.
Forgets(s) == job.failed

Failed(s) == job.failed \cup {s}

NextSymbol ==
    /\ pc = "loop"
    /\ \E found \in Diagnostics : LET valid == found \ job.failed IN
           \/ valid = {} /\ pc' = "finalize" /\ UNCHANGED job
           \/ \E s \in valid :
                  /\ job' = [job EXCEPT !.failed = Failed(s), !.cur = {s}]
                  /\ pc' = "seed"
    /\ UNCHANGED <<repo, asked, misled, counts>>

\* A symbol whose declaration cannot be changed is skipped.  The bytes at the
\* reported offset are replaced whatever they are.
Seed ==
    /\ pc = "seed"
    /\ \/ pc' = "loop" /\ UNCHANGED work
       \/ /\ pc' = "seeded"
          /\ work' \in Changed(work, work.done \cup job.cur)
    /\ UNCHANGED <<commits, index, job, asked, misled, counts>>

Level2 ==
    \/ NextSymbol
    \/ Seed
    \/ Try("seeded", Compiles, "testGate", "agentSeed")
    \/ Agent("agentSeed", "verify")
    \/ Gate("verify", Compiles, "testGate")
    \/ Gate("testGate", TestsPass, "commitSeed")
    \/ CommitStep("commitSeed", "rename")

(***************************************************************************)
(* Squashing: a soft reset to the anchor and one commit without trailers.  *)
(***************************************************************************)
SoftReset ==
    /\ pc = "finalize"
    /\ IF Len(commits) = job.anchor
       THEN LevelEnds /\ UNCHANGED repo
       ELSE /\ commits' = SubSeq(commits, 1, job.anchor)
            /\ pc' = "squash" /\ UNCHANGED <<index, work, job>>
    /\ UNCHANGED <<asked, misled, counts>>

Squash ==
    /\ pc = "squash" /\ index # HEAD.tree
    /\ Commit(index, NoTx)
    /\ LevelEnds
    /\ UNCHANGED <<index, work, asked, misled, counts>>

\* The commit fails, by a hook or for want of changes: Level 1 says so and
\* returns, Level 2 raises.
SquashFails ==
    /\ pc = "squash"
    /\ IF job.level = 1 THEN LevelEnds ELSE Exit
    /\ UNCHANGED <<repo, asked, misled, counts>>

(***************************************************************************)
(* Failures.  An exception or an interrupt in the loop of Level 2 rolls    *)
(* back; anywhere else, like a kill, it leaves everything where it is.     *)
(***************************************************************************)
InLoop == {"loop", "seed", "seeded", "agentSeed", "verify", "testGate", "commitSeed"}

Interrupted ==
    /\ pc \in InLoop \/ (pc = "staged" /\ job.level = 2)
    /\ Rollback /\ Exit
    /\ UNCHANGED <<asked, misled, counts>>

Crash ==
    /\ pc # "idle"
    /\ Exit
    /\ UNCHANGED <<repo, asked, misled, counts>>

Step == \/ CheckTree \/ RefuseDirty \/ NothingToFix \/ StartTransaction
        \/ Level1 \/ Level2 \/ CommitStaged \/ CommitFails
        \/ SoftReset \/ Squash \/ SquashFails

Next == \/ UserEdits \/ UserCommits \/ UserDiscards \/ AgentWrites
        \/ Fix \/ Continue \/ Abort
        \/ Step \/ Interrupted \/ Crash

\* A tool that is not killed takes its next step.
Spec == Init /\ [][Next]_vars /\ WF_vars(Step)

-----------------------------------------------------------------------------

Tree == [done : SUBSET Diagnosed, compiles : BOOLEAN, passes : BOOLEAN, user : Nat]
CommitType == [tree : Tree, tx : [anchor : Nat, level : Nat]]
JobType == [cmd : {"none", "fix", "continue"}, level : Nat, goal : Nat, force : BOOLEAN,
            test : BOOLEAN, session : BOOLEAN, anchor : Nat, failed : SUBSET Diagnosed,
            todo : SUBSET Diagnosed, cur : SUBSET Diagnosed,
            step : {"none"} \cup DOMAIN After]

\* Every variable has its type, and there is always a commit to return to.
TypeOK ==
    /\ commits \in Seq(CommitType) /\ commits # <<>>
    /\ index \in Tree /\ work \in Tree
    /\ job \in JobType /\ (pc = "idle" => job = Idle)
    /\ asked \subseteq SUBSET Diagnosed
    /\ misled \in BOOLEAN /\ upsets \in Nat

\* What was verified is what is committed, though compiler and tests do not
\* follow from each other and agents change the tree in between.  A rename
\* compiles and passes its tests, a repair of the build and a fix without
\* replacements compile, a repair of the tests passes them.  What is squashed
\* does both, but for what the last step of Level 1 leaves unchecked: the
\* compiler after a repair of the tests, the tests after a fix without
\* replacements.  A continued Level 2 that adds no step squashes what it found.
StepsVerified ==
    [][~misled /\ pc \in {"staged", "squash"} /\ Len(commits') > Len(commits) =>
           LET tree == commits'[Len(commits')].tree
               step == job.step
           IN  IF pc = "staged"
               THEN /\ step \in {"rename", "fix", "plain"} => tree.compiles
                    /\ step \in {"rename", "tests"} /\ job.test => tree.passes
               ELSE job.level = 1 \/ step = "rename" =>
                    /\ step # "tests" => tree.compiles
                    /\ step # "plain" /\ job.test => tree.passes]_vars

\* The anchor in the trailers of a step commit lies below it, and nothing but
\* steps with that anchor in between: however often the tool is killed,
\* continued or started again, abort and squash give up step commits only.
StepsFollowAnchor ==
    \A i \in DOMAIN commits : commits[i].tx # NoTx =>
        /\ commits[i].tx.anchor \in 1..(i - 1)
        /\ \A j \in commits[i].tx.anchor + 1..i : commits[j].tx = commits[i].tx

\* No command takes a commit of the user, or one the tool has finished, off the
\* branch: --abort after the user committed on top of a transaction does not.
CommitsKept ==
    [][\A i \in DOMAIN commits : commits[i].tx = NoTx =>
           i \in DOMAIN commits' /\ commits'[i] = commits[i]]_vars

\* A fresh run without --force never commits and never resets a tree that holds
\* edits of the user that are not committed, whatever an agent that is still at
\* work from an earlier run does to it meanwhile.
EditsKept ==
    [][job.cmd = "fix" /\ ~job.force /\ ~misled /\ work.user # HEAD.tree.user
           => UNCHANGED <<commits, index>> /\ work'.user = work.user]_vars

Undone == pc = "agentSeed" /\ ~(work.done \subseteq work'.done)
OldReport == pc = "loop" /\ pc' = "seed" /\ job'.cur \subseteq work.done

\* A command ends, also when seeds cannot be applied and agents fail, unless
\* agents undo renames, or the build of the report fails, again and again: then
\* the loop goes on with the same symbols for ever.
RunEnds ==
    ((pc # "idle") ~> (pc = "idle")) \/ []<><<Undone>>_vars \/ []<><<OldReport>>_vars
=============================================================================
