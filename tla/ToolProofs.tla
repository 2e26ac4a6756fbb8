----------------------------- MODULE ToolProofs -----------------------------
(***************************************************************************)
(* The tools outside the library.  TidyTransaction for every set of        *)
(* diagnostics and every bound: types, the anchors of the step commits,    *)
(* that no command takes a commit off the branch that the tool has not     *)
(* made as a step, that edits of the user stay, and that what is committed *)
(* is what was verified.  At the end Signaling, for any number of starts   *)
(* and messages.                                                           *)
(***************************************************************************)
EXTENDS TidyTransaction, Signaling, SequenceTheorems, FiniteSetTheorems, TLAPS

StepTx == [anchor |-> job.anchor, level |-> job.level]

\* Where no transaction is under way.
Outside == {"idle", "check", "report"}

\* What the running command knows: above its anchor there are its own steps only,
\* from the start of the transaction to the squash, and already before a
\* continued one has looked at the diagnostics.
JobInv ==
    /\ pc \notin Outside \/ job.cmd = "continue" =>
           /\ job.anchor \in 1..Len(commits)
           /\ \A k \in job.anchor + 1..Len(commits) : commits[k].tx = StepTx
    /\ job.cmd = "continue" => job.goal = job.level
    /\ pc = "squash" => job.anchor = Len(commits)
    /\ pc = "staged" => job.step \in DOMAIN After

IInv == TypeOK /\ StepsFollowAnchor /\ JobInv

\* What is typed and nothing else.
Noted == asked \subseteq SUBSET Diagnosed /\ misled \in BOOLEAN /\ upsets \in Nat

\* A step leaves what the command was given.
SameJob ==
    /\ job'.anchor = job.anchor /\ job'.level = job.level /\ job'.goal = job.goal
    /\ job'.cmd = job.cmd /\ job'.force = job.force /\ job'.test = job.test

-----------------------------------------------------------------------------
(* The branch as a sequence.                                               *)

Chain(c) ==
    \A i \in 1..Len(c) : c[i].tx # NoTx =>
        /\ c[i].tx.anchor \in 1..(i - 1)
        /\ \A j \in c[i].tx.anchor + 1..i : c[j].tx = c[i].tx

Above(c, tx) ==
    /\ tx.anchor \in 1..Len(c)
    /\ \A k \in tx.anchor + 1..Len(c) : c[k].tx = tx

\* StepsFollowAnchor says that the branch is a chain (git_transaction.py:191).
LEMMA BranchIsChain ==
    ASSUME TypeOK PROVE StepsFollowAnchor <=> Chain(commits)
<1>1. DOMAIN commits = 1..Len(commits)
    BY DEF TypeOK
<1>. QED BY <1>1 DEF StepsFollowAnchor, Chain

\* A step commit on top of the steps of its own transaction keeps the chain
\* (commit_step, git_transaction.py:202).
LEMMA StepKeepsChain ==
    ASSUME NEW c \in Seq(CommitType), NEW n \in CommitType, Chain(c), Above(c, n.tx)
    PROVE  /\ Chain(Append(c, n))
           /\ Above(Append(c, n), n.tx)
<1>. DEFINE d == Append(c, n)
<1>1. /\ Len(d) = Len(c) + 1 /\ Len(c) \in Nat /\ d[Len(c) + 1] = n
      /\ \A i \in 1..Len(c) : d[i] = c[i]
    OBVIOUS
<1>2. n.tx.anchor \in Nat
    BY DEF CommitType
<1>. HIDE DEF d
<1>3. Above(d, n.tx)
    BY <1>1, <1>2 DEF Above
<1>4. ASSUME NEW i \in 1..Len(d), d[i].tx # NoTx
      PROVE  /\ d[i].tx.anchor \in 1..(i - 1)
             /\ \A j \in d[i].tx.anchor + 1..i : d[j].tx = d[i].tx
    <2>1. CASE i = Len(c) + 1
        BY <2>1, <1>1, <1>2, <1>3 DEF Above
    <2>2. CASE i \in 1..Len(c)
        <3>1. /\ c[i].tx.anchor \in 1..(i - 1)
              /\ \A j \in c[i].tx.anchor + 1..i : c[j].tx = c[i].tx
            BY <2>2, <1>1, <1>4 DEF Chain
        <3>. QED BY <3>1, <2>2, <1>1
    <2>. QED BY <2>1, <2>2, <1>1
<1>. QED BY <1>3, <1>4 DEF Chain, d

\* A commit without trailers keeps the chain: the user's, or the squashed one.
LEMMA PlainKeepsChain ==
    ASSUME NEW c \in Seq(CommitType), NEW n \in CommitType, Chain(c), n.tx = NoTx
    PROVE  Chain(Append(c, n))
<1>. DEFINE d == Append(c, n)
<1>1. /\ Len(d) = Len(c) + 1 /\ Len(c) \in Nat /\ d[Len(c) + 1] = n
      /\ \A i \in 1..Len(c) : d[i] = c[i]
    OBVIOUS
<1>. HIDE DEF d
<1>2. ASSUME NEW i \in 1..Len(d), d[i].tx # NoTx
      PROVE  /\ d[i].tx.anchor \in 1..(i - 1)
             /\ \A j \in d[i].tx.anchor + 1..i : d[j].tx = d[i].tx
    <2>1. i \in 1..Len(c) /\ c[i].tx # NoTx /\ d[i] = c[i]
        BY <1>1, <1>2
    <2>2. /\ c[i].tx.anchor \in 1..(i - 1)
          /\ \A j \in c[i].tx.anchor + 1..i : c[j].tx = c[i].tx
        BY <2>1 DEF Chain
    <2>. QED BY <2>1, <2>2, <1>1
<1>. QED BY <1>2 DEF Chain, d

\* A reset to an earlier commit keeps the chain below it.
LEMMA PrefixIsChain ==
    ASSUME NEW c \in Seq(CommitType), NEW n \in 1..Len(c), Chain(c)
    PROVE  /\ SubSeq(c, 1, n) \in Seq(CommitType) /\ Len(SubSeq(c, 1, n)) = n
           /\ \A i \in 1..n : SubSeq(c, 1, n)[i] = c[i]
           /\ Chain(SubSeq(c, 1, n))
<1>. DEFINE d == SubSeq(c, 1, n)
<1>1. d \in Seq(CommitType) /\ Len(d) = n /\ \A i \in 1..n : d[i] = c[i]
    OBVIOUS
<1>. HIDE DEF d
<1>2. ASSUME NEW i \in 1..Len(d), d[i].tx # NoTx
      PROVE  /\ d[i].tx.anchor \in 1..(i - 1)
             /\ \A j \in d[i].tx.anchor + 1..i : d[j].tx = d[i].tx
    <2>1. i \in 1..Len(c) /\ d[i] = c[i] /\ i \in 1..n
        BY <1>1
    <2>2. /\ c[i].tx.anchor \in 1..(i - 1)
          /\ \A j \in c[i].tx.anchor + 1..i : c[j].tx = c[i].tx
        BY <2>1, <1>2 DEF Chain
    <2>. QED BY <2>1, <2>2, <1>1
<1>. QED BY <1>1, <1>2 DEF Chain, d

-----------------------------------------------------------------------------
(* Steps by what they do to the branch and to the running command.         *)

\* The last commit has the type of a commit.
LEMMA HeadTyped ==
    ASSUME TypeOK
    PROVE  Len(commits) \in Nat \ {0} /\ HEAD \in CommitType /\ HEAD.tree \in Tree
<1>1. Len(commits) \in Nat \ {0}
    BY DEF TypeOK
<1>2. commits[Len(commits)] \in CommitType
    BY <1>1 DEF TypeOK
<1>. QED BY <1>1, <1>2 DEF HEAD, CommitType

\* rollback_step leaves the branch alone (git_transaction.py:223).
LEMMA RollbackKeepsBranch ==
    ASSUME TypeOK, Rollback
    PROVE  commits' = commits /\ index' \in Tree /\ work' \in Tree
<1>1. commits' = SubSeq(commits, 1, Len(commits)) /\ index' = HEAD.tree /\ work' = HEAD.tree
    BY DEF Rollback, ResetHard, HEAD
<1>2. commits' = commits
    BY <1>1 DEF TypeOK
<1>. QED BY <1>1, <1>2, HeadTyped

\* What a change leaves of a tree.
LEMMA ChangedFacts ==
    ASSUME NEW t \in Tree, NEW done \in SUBSET Diagnosed, NEW u \in Changed(t, done)
    PROVE  u \in Tree /\ u.user = t.user
BY DEF Changed, Tree

\* Where the engines go on after a step.
LEMMA AfterFacts ==
    /\ DOMAIN After = {"raw", "fix", "tests", "plain", "rename"}
    /\ After["raw"] = "compile" /\ After["fix"] = "tests" /\ After["tests"] = "plain"
    /\ After["plain"] = "plain" /\ After["rename"] = "loop"
BY DEF After

\* What a done step changes of the command.
LEMMA SteppedFacts ==
    ASSUME job \in JobType, job' = Stepped(job)
    PROVE  job' \in JobType /\ SameJob /\ job'.step = job.step
BY DEF Stepped, JobType, SameJob

\* The counters and the history variable, in every step.
LEMMA NotedKeeps ==
    ASSUME TypeOK, [Next]_vars PROVE Noted'
<1>1. Noted /\ job.cur \in SUBSET Diagnosed
    BY DEF TypeOK, Noted, JobType
<1>2. ASSUME NEW clean, Reads(clean), asked' = asked PROVE Noted'
    <2>1. CASE UNCHANGED <<misled, upsets>>
        BY <1>1, <1>2, <2>1 DEF Noted
    <2>2. CASE upsets' = upsets + 1 /\ misled' = TRUE
        <3>1. misled' \in BOOLEAN
            BY <2>2, Zenon
        <3>. QED BY <1>1, <1>2, <2>2, <3>1 DEF Noted
    <2>. QED BY <1>2, <2>1, <2>2 DEF Reads
<1>3. ASSUME NEW at, NEW step, CommitStep(at, step) PROVE Noted'
    <2>1. CASE Reads(TreeClean)
        BY <1>2, <1>3, <2>1 DEF CommitStep
    <2>2. CASE UNCHANGED <<misled, upsets>>
        BY <1>1, <1>3, <2>2 DEF CommitStep, Noted
    <2>. QED BY <1>3, <2>1, <2>2 DEF CommitStep
<1>4. ASSUME NEW at, NEW to, Agent(at, to) PROVE Noted'
    BY <1>1, <1>4 DEF Agent, Noted, counts
<1>5. CASE CheckTree
    BY <1>2, <1>5 DEF CheckTree
<1>6. CASE StartTransaction
    BY <1>2, <1>6 DEF StartTransaction
<1>7. CASE UserEdits \/ AgentWrites
    <2>1. misled' \in BOOLEAN
        BY <1>1, <1>7, Zenon DEF UserEdits, AgentWrites, Noted
    <2>2. upsets' = upsets + 1 /\ asked' = asked
        BY <1>7 DEF UserEdits, AgentWrites
    <2>. QED BY <1>1, <2>1, <2>2 DEF Noted
<1>8. CASE Level1
    BY <1>1, <1>3, <1>4, <1>8 DEF Level1, Apply, Try, Gate, NextPlain, Noted, counts
<1>9. CASE Level2
    BY <1>1, <1>3, <1>4, <1>9 DEF Level2, NextSymbol, Seed, Try, Gate, Noted, counts
<1>10. CASE UserCommits \/ UserDiscards \/ Fix \/ Continue \/ Abort \/ RefuseDirty \/ NothingToFix
    BY <1>1, <1>10 DEF UserCommits, UserDiscards, Fix, Continue, Abort, RefuseDirty,
                       NothingToFix, Noted, counts
<1>11. CASE \/ CommitStaged \/ CommitFails \/ SoftReset \/ Squash \/ SquashFails
            \/ Interrupted \/ Crash \/ UNCHANGED vars
    BY <1>1, <1>11 DEF CommitStaged, CommitFails, SoftReset, Squash, SquashFails,
                       Interrupted, Crash, vars, Noted, counts
<1>. QED BY <1>5, <1>6, <1>7, <1>8, <1>9, <1>10, <1>11 DEF Next, Step

\* A step that leaves the branch and does not end the command.
LEMMA InsideKeeps ==
    ASSUME IInv, Noted', commits' = commits, index' \in Tree, work' \in Tree,
           job' \in JobType, SameJob,
           pc \in Outside => pc' \in Outside,
           pc' = "idle" => job' = Idle,
           pc' = "squash" => pc = "squash",
           pc' = "staged" => job'.step \in DOMAIN After
    PROVE  IInv'
<1>1. TypeOK'
    BY DEF IInv, TypeOK, Noted
<1>2. StepsFollowAnchor'
    BY DEF IInv, StepsFollowAnchor
<1>3. JobInv'
    BY DEF IInv, JobInv, StepTx, SameJob
<1>. QED BY <1>1, <1>2, <1>3 DEF IInv

\* A command that ends.
LEMMA ExitKeeps ==
    ASSUME IInv, Noted', commits' = commits, index' \in Tree, work' \in Tree, Exit
    PROVE  IInv'
<1>1. Idle \in JobType /\ Idle.cmd = "none"
    BY DEF Idle, JobType
<1>2. TypeOK'
    BY <1>1 DEF IInv, TypeOK, Exit, Noted
<1>3. StepsFollowAnchor'
    BY DEF IInv, StepsFollowAnchor
<1>4. JobInv'
    BY <1>1 DEF JobInv, Exit, Outside
<1>. QED BY <1>2, <1>3, <1>4 DEF IInv

\* A command that ends with the repository as it is.
LEMMA ExitHere ==
    ASSUME IInv, Noted', Exit, UNCHANGED repo PROVE IInv'
<1>1. commits' = commits /\ index' \in Tree /\ work' \in Tree
    BY DEF repo, IInv, TypeOK
<1>. QED BY <1>1, ExitKeeps

\* A command that ends and rolls back.
LEMMA ExitBack ==
    ASSUME IInv, Noted', Exit, Rollback PROVE IInv'
<1>1. commits' = commits /\ index' \in Tree /\ work' \in Tree
    BY RollbackKeepsBranch DEF IInv
<1>. QED BY <1>1, ExitKeeps

\* A level that returns, whatever it left on the branch: the next level has a
\* context of its own.
LEMMA LevelEndsKeeps ==
    ASSUME IInv, Noted', LevelEnds, commits' \in Seq(CommitType), commits' # <<>>,
           Chain(commits'), index' \in Tree, work' \in Tree
    PROVE  IInv'
<1>1. Idle \in JobType /\ Idle.cmd = "none"
    BY DEF Idle, JobType
<1>2. CASE job.level < job.goal
    <2>1. job.cmd # "continue" /\ job \in JobType
        BY <1>2 DEF IInv, JobInv, TypeOK, JobType
    <2>2. /\ pc' \in {"check", "report"}
          /\ job' = [job EXCEPT !.level = @ + 1, !.anchor = 0, !.failed = {},
                                !.todo = {}, !.cur = {}, !.step = "none"]
        BY <1>2 DEF LevelEnds, Start
    <2>3. job' = [cmd |-> job.cmd, level |-> job.level + 1, goal |-> job.goal,
                  force |-> job.force, test |-> job.test, session |-> job.session,
                  anchor |-> 0, failed |-> {}, todo |-> {}, cur |-> {}, step |-> "none"]
        BY <2>1, <2>2 DEF JobType
    <2>3a. job' \in JobType /\ job'.cmd = job.cmd
        BY <2>1, <2>3 DEF JobType
    <2>4. TypeOK'
        BY <2>2, <2>3a DEF IInv, TypeOK, Noted
    <2>5. JobInv'
        BY <2>1, <2>2, <2>3a DEF JobInv, Outside
    <2>6. Chain(commits)'
        OBVIOUS
    <2>7. StepsFollowAnchor'
        BY <2>4, <2>6 DEF TypeOK, StepsFollowAnchor, Chain
    <2>. QED BY <2>4, <2>5, <2>7 DEF IInv
<1>3. CASE ~(job.level < job.goal)
    <2>1. Exit
        BY <1>3 DEF LevelEnds
    <2>2. TypeOK'
        BY <1>1, <2>1 DEF IInv, TypeOK, Exit, Noted
    <2>3. StepsFollowAnchor'
        BY <2>2 DEF TypeOK, StepsFollowAnchor, Chain
    <2>4. JobInv'
        BY <1>1, <2>1 DEF JobInv, Exit, Outside
    <2>. QED BY <2>2, <2>3, <2>4 DEF IInv
<1>. QED BY <1>2, <1>3

\* A level that ends before it has touched anything, or without steps to squash.
LEMMA LevelEndsHere ==
    ASSUME IInv, Noted', LevelEnds, UNCHANGED repo PROVE IInv'
<1>1. commits' = commits /\ index' = index /\ work' = work
    BY DEF repo
<1>2. commits \in Seq(CommitType) /\ commits # <<>> /\ Chain(commits)
      /\ index \in Tree /\ work \in Tree
    BY BranchIsChain DEF IInv, TypeOK
<1>3. /\ commits' \in Seq(CommitType) /\ commits' # <<>> /\ Chain(commits')
      /\ index' \in Tree /\ work' \in Tree
    BY <1>1, <1>2
<1>. QED BY <1>3, LevelEndsKeeps

-----------------------------------------------------------------------------
(* The steps the two engines share.                                        *)

\* commit_step, wherever it is called: nothing to commit, or the tree is staged
\* (git_transaction.py:175, :201).
LEMMA CommitStepKeeps ==
    ASSUME IInv, Noted', NEW at, at \notin Outside, NEW step \in DOMAIN After,
           CommitStep(at, step)
    PROVE  IInv'
<1>1. /\ TypeOK /\ index \in Tree /\ work \in Tree /\ job \in JobType /\ pc = at
      /\ commits' = commits /\ work' = work
    BY DEF IInv, TypeOK, CommitStep
<1>2. CASE pc' = After[step] /\ job' = Stepped(job) /\ UNCHANGED index
    <2>1. pc' \notin Outside /\ pc' # "squash" /\ pc' # "staged"
        BY <1>2, AfterFacts DEF Outside
    <2>2. job' \in JobType /\ SameJob
        BY <1>1, <1>2, SteppedFacts
    <2>. QED BY <1>1, <1>2, <2>1, <2>2, InsideKeeps DEF Outside
<1>3. CASE index' = work /\ pc' = "staged" /\ job' = [job EXCEPT !.step = step]
    <2>1. job' \in JobType /\ SameJob /\ job'.step = step
        BY <1>1, <1>3 DEF JobType, SameJob
    <2>. QED BY <1>1, <1>3, <2>1, InsideKeeps
<1>. QED BY <1>2, <1>3 DEF CommitStep

\* The step commit goes on top of those of its transaction
\* (git_transaction.py:202).
LEMMA CommitStagedKeeps == ASSUME IInv, Noted', CommitStaged PROVE IInv'
<1>. DEFINE n == [tree |-> index, tx |-> StepTx]
<1>1. /\ pc = "staged" /\ commits' = Append(commits, n) /\ index' = index /\ work' = work
      /\ pc' = After[job.step] /\ job' = Stepped(job)
    BY DEF CommitStaged, Commit, StepTx
<1>2. /\ index \in Tree /\ work \in Tree /\ job \in JobType /\ commits \in Seq(CommitType)
      /\ job.step \in DOMAIN After
    BY <1>1 DEF IInv, TypeOK, JobInv
<1>3. n \in CommitType /\ n.tx = StepTx
    BY <1>2 DEF JobType, CommitType, StepTx
<1>4. Chain(commits) /\ Above(commits, StepTx)
    BY <1>1, BranchIsChain DEF IInv, JobInv, Above, StepTx, Outside
<1>. HIDE DEF n
<1>5. Chain(commits') /\ Above(commits', StepTx)
    BY <1>1, <1>2, <1>3, <1>4, StepKeepsChain
<1>6. commits' \in Seq(CommitType) /\ commits' # <<>>
    BY <1>1, <1>2, <1>3
<1>7. pc' \notin Outside /\ pc' # "squash" /\ pc' # "staged"
    BY <1>1, <1>2, AfterFacts DEF Outside
<1>8. job' \in JobType /\ SameJob
    BY <1>1, <1>2, SteppedFacts
<1>9. TypeOK'
    BY <1>1, <1>2, <1>6, <1>7, <1>8 DEF TypeOK, Noted, Outside
<1>10. StepsFollowAnchor'
    BY <1>5, <1>9 DEF TypeOK, StepsFollowAnchor, Chain
<1>11. StepTx' = StepTx
    BY <1>8 DEF StepTx, SameJob
<1>12. JobInv'
    BY <1>5, <1>7, <1>8, <1>11 DEF IInv, JobInv, Above, StepTx, SameJob
<1>. QED BY <1>9, <1>10, <1>12 DEF IInv

\* An agent changes the working tree only, and in a session not even that.
LEMMA AgentKeeps ==
    ASSUME IInv, Noted', NEW at, NEW to, Agent(at, to), at \notin Outside,
           to \notin Outside, to # "squash", to # "staged"
    PROVE  IInv'
<1>1. /\ pc = at /\ pc' = to /\ commits' = commits /\ index' = index /\ job' = job
    BY DEF Agent, Goto
<1>2. work \in Tree /\ job.cur \in SUBSET Diagnosed /\ index \in Tree /\ job \in JobType
    BY DEF IInv, TypeOK, JobType
<1>3. work' \in Tree
    <2>1. CASE work' = work
        BY <1>2, <2>1
    <2>2. CASE \E done \in {work.done, work.done \ (job.cur \ HEAD.tree.done)} :
                   work' \in Changed(work, done)
        <3>1. PICK done \in {work.done, work.done \ (job.cur \ HEAD.tree.done)} :
                  work' \in Changed(work, done)
            BY <2>2
        <3>2. done \in SUBSET Diagnosed
            BY <1>2, <3>1 DEF Tree
        <3>. QED BY <1>2, <3>1, <3>2, ChangedFacts
    <2>. QED BY <2>1, <2>2 DEF Agent
<1>. QED BY <1>1, <1>2, <1>3, InsideKeeps DEF SameJob, Outside

\* A gate rolls back to the branch as it is, or changes nothing.
LEMMA GateKeeps ==
    ASSUME IInv, Noted', NEW at, NEW passed \in BOOLEAN, NEW to, Gate(at, passed, to),
           at \notin Outside, to \notin Outside, to # "squash", to # "staged"
    PROVE  IInv'
<1>1. TypeOK /\ index \in Tree /\ work \in Tree /\ job \in JobType
    BY DEF IInv, TypeOK
<1>2. CASE passed
    BY <1>1, <1>2, InsideKeeps DEF Gate, repo, SameJob, Outside
<1>3. CASE ~passed
    BY <1>1, <1>3, ExitBack DEF Gate
<1>. QED BY <1>2, <1>3

\* A check changes nothing: it decides where the level goes on.
LEMMA TryKeeps ==
    ASSUME IInv, Noted', NEW at, NEW passed \in BOOLEAN, NEW to, NEW agent,
           Try(at, passed, to, agent), at \notin Outside,
           to \notin Outside, to # "squash", to # "staged",
           agent \notin Outside, agent # "squash", agent # "staged"
    PROVE  IInv'
<1>1. index \in Tree /\ work \in Tree /\ job \in JobType
    BY DEF IInv, TypeOK
<1>2. commits' = commits /\ index' = index /\ work' = work /\ job' = job /\ pc = at
      /\ (pc' = to \/ pc' = agent)
    BY DEF Try, Goto, repo
<1>. QED BY <1>1, <1>2, InsideKeeps DEF SameJob, Outside

-----------------------------------------------------------------------------
(* The user, the agents of a session, and the commands.                    *)

\* A clean repository of one commit and no command.
LEMMA InitKeeps == Init => IInv
<1>. SUFFICES ASSUME Init PROVE IInv
    OBVIOUS
<1>. DEFINE tree == [done |-> {}, compiles |-> TRUE, passes |-> TRUE, user |-> 0]
            first == [tree |-> tree, tx |-> NoTx]
<1>1. tree \in Tree
    BY DEF Tree
<1>2. first \in CommitType /\ first.tx = NoTx
    BY <1>1 DEF CommitType, NoTx
<1>3. /\ commits = <<first>> /\ index = tree /\ work = tree /\ pc = "idle" /\ job = Idle
      /\ asked = {} /\ misled = FALSE /\ upsets = 0
    BY DEF Init, HEAD
<1>4. Idle \in JobType /\ Idle.cmd = "none"
    BY DEF Idle, JobType
<1>. HIDE DEF tree, first
<1>4a. misled \in BOOLEAN
    BY <1>3, Zenon
<1>5. TypeOK
    BY <1>1, <1>2, <1>3, <1>4, <1>4a DEF TypeOK
<1>6. StepsFollowAnchor
    BY <1>2, <1>3 DEF StepsFollowAnchor
<1>7. JobInv
    BY <1>3, <1>4 DEF JobInv, Outside
<1>. QED BY <1>5, <1>6, <1>7 DEF IInv

\* A late agent leaves the edits of the user in the tree.
LEMMA AgentWritesTyped ==
    ASSUME TypeOK, AgentWrites PROVE work' \in Tree /\ work'.user = work.user
<1>1. work \in Tree /\ work.done \in SUBSET Diagnosed
    BY DEF TypeOK, Tree
<1>2. PICK about \in asked :
          \E done \in {work.done, work.done \cup (about \cap Names), work.done \ about} :
              work' \in Changed(work, done) \ {work}
    BY DEF AgentWrites
<1>3. PICK done \in {work.done, work.done \cup (about \cap Names), work.done \ about} :
          work' \in Changed(work, done)
    BY <1>2
<1>4. done \in SUBSET Diagnosed
    BY <1>1, <1>3 DEF Diagnosed
<1>. QED BY <1>1, <1>3, <1>4, ChangedFacts

\* The user between two runs: the command is idle, and what the user commits
\* carries no trailers.
LEMMA UserKeeps ==
    ASSUME IInv, Noted', UserEdits \/ UserCommits \/ UserDiscards PROVE IInv'
<1>a. pc = "idle"
    BY DEF UserEdits, UserCommits, UserDiscards
<1>1. /\ TypeOK /\ index \in Tree /\ work \in Tree /\ job = Idle /\ pc = "idle"
      /\ job \in JobType /\ job.cmd = "none"
    BY <1>a DEF IInv, TypeOK, Idle
<1>2. CASE UserEdits
    <2>. DEFINE t == [work EXCEPT !.user = upsets + 1]
    <2>1. t \in Tree /\ work.done \in SUBSET Diagnosed
        BY <1>1 DEF Tree, TypeOK
    <2>2. work' \in Changed(t, work.done)
        BY <1>2 DEF UserEdits
    <2>. HIDE DEF t
    <2>3. work' \in Tree
        BY <2>1, <2>2, ChangedFacts
    <2>. QED BY <1>1, <1>2, <2>3, InsideKeeps DEF UserEdits, SameJob, Outside
<1>3. CASE UserCommits
    <2>. DEFINE n == [tree |-> work, tx |-> NoTx]
    <2>1. n \in CommitType /\ n.tx = NoTx
        BY <1>1 DEF CommitType, NoTx
    <2>2. commits' = Append(commits, n) /\ UNCHANGED <<pc, job, work>> /\ index' = work
        BY <1>3 DEF UserCommits, Commit
    <2>3. commits \in Seq(CommitType) /\ Chain(commits)
        BY BranchIsChain DEF IInv, TypeOK
    <2>. HIDE DEF n
    <2>4. Chain(commits') /\ commits' \in Seq(CommitType) /\ commits' # <<>>
        BY <2>1, <2>2, <2>3, PlainKeepsChain
    <2>5. TypeOK'
        BY <1>1, <2>2, <2>4 DEF TypeOK, Noted
    <2>6. StepsFollowAnchor'
        BY <2>4, <2>5 DEF TypeOK, StepsFollowAnchor, Chain
    <2>7. JobInv'
        BY <1>1, <2>2 DEF JobInv, Outside
    <2>. QED BY <2>5, <2>6, <2>7 DEF IInv
<1>4. CASE UserDiscards
    <2>1. commits' = commits /\ index' \in Tree /\ work' \in Tree
        BY <1>1, <1>4, RollbackKeepsBranch DEF UserDiscards
    <2>. QED BY <1>1, <1>4, <2>1, InsideKeeps DEF UserDiscards, SameJob, Outside
<1>. QED BY <1>2, <1>3, <1>4

\* An agent of a session at any time.
LEMMA AgentWritesKeeps == ASSUME IInv, Noted', AgentWrites PROVE IInv'
<1>1. work' \in Tree /\ index \in Tree /\ job \in JobType /\ (pc = "idle" => job = Idle)
      /\ (pc = "staged" => job.step \in DOMAIN After)
    BY AgentWritesTyped DEF IInv, TypeOK, JobInv
<1>2. commits' = commits /\ index' = index /\ pc' = pc /\ job' = job
    BY DEF AgentWrites
<1>. QED BY <1>1, <1>2, InsideKeeps DEF SameJob

\* An active transaction: its anchor lies below HEAD, its own steps above.
LEMMA ActiveIsAbove ==
    ASSUME IInv, ActiveTransaction # NoTx
    PROVE  /\ ActiveTransaction.anchor \in 1..Len(commits) - 1
           /\ ActiveTransaction.level \in Nat
           /\ \A k \in ActiveTransaction.anchor + 1..Len(commits) :
                  commits[k].tx = ActiveTransaction
<1>1. TypeOK /\ StepsFollowAnchor
    BY DEF IInv
<1>2. Len(commits) \in 1..Len(commits) /\ DOMAIN commits = 1..Len(commits)
    BY <1>1, HeadTyped DEF TypeOK
<1>3. ActiveTransaction = commits[Len(commits)].tx
    BY DEF ActiveTransaction, HEAD
<1>4. ActiveTransaction.level \in Nat
    BY <1>1, HeadTyped DEF ActiveTransaction, CommitType
<1>. QED BY <1>1, <1>2, <1>3, <1>4 DEF StepsFollowAnchor

\* `tidy fix` starts at Level 1 with no transaction (fix_cmd.py:254).
LEMMA FixKeeps == ASSUME IInv, Noted', Fix PROVE IInv'
<1>1. PICK goal \in Goals, force \in BOOLEAN, test \in WithTests, session \in Sessions :
          job' = [Idle EXCEPT !.cmd = "fix", !.level = 1, !.goal = goal,
                              !.force = force, !.test = test, !.session = session]
    BY DEF Fix
<1>2. goal \in Nat /\ test \in BOOLEAN /\ session \in BOOLEAN
    BY TidyAssumption
<1>2a. job' = [cmd |-> "fix", level |-> 1, goal |-> goal, force |-> force, test |-> test,
               session |-> session, anchor |-> 0, failed |-> {}, todo |-> {}, cur |-> {},
               step |-> "none"]
    BY <1>1 DEF Idle
<1>3. job' \in JobType /\ job'.cmd = "fix"
    BY <1>2, <1>2a DEF JobType
<1>4. pc' = "check" /\ commits' = commits /\ index' = index /\ work' = work
    BY DEF Fix, Start, repo
<1>5. TypeOK'
    BY <1>3, <1>4 DEF IInv, TypeOK, Noted
<1>6. StepsFollowAnchor'
    BY <1>4 DEF IInv, StepsFollowAnchor
<1>7. JobInv'
    BY <1>3, <1>4 DEF JobInv, Outside
<1>. QED BY <1>5, <1>6, <1>7 DEF IInv

\* --continue takes level and anchor from HEAD's trailers (fix_cmd.py:75).
LEMMA ContinueKeeps == ASSUME IInv, Noted', Continue PROVE IInv'
<1>. DEFINE a == ActiveTransaction.anchor
            l == ActiveTransaction.level
<1>1. PICK force \in BOOLEAN, test \in WithTests, session \in Sessions :
          job' = [Idle EXCEPT !.cmd = "continue", !.level = l, !.goal = l, !.anchor = a,
                              !.force = force, !.test = test, !.session = session]
    BY DEF Continue
<1>2. /\ a \in 1..Len(commits) - 1 /\ l \in Nat
      /\ \A k \in a + 1..Len(commits) : commits[k].tx = ActiveTransaction
    BY ActiveIsAbove DEF Continue
<1>3. Len(commits) \in Nat /\ ActiveTransaction = [anchor |-> a, level |-> l]
    BY HeadTyped DEF IInv, CommitType, ActiveTransaction
<1>4. test \in BOOLEAN /\ session \in BOOLEAN
    BY TidyAssumption
<1>5. pc' \in {"check", "report"} /\ commits' = commits /\ index' = index /\ work' = work
    BY DEF Continue, Start, repo
<1>. HIDE DEF a, l
<1>5a. job' = [cmd |-> "continue", level |-> l, goal |-> l, force |-> force, test |-> test,
               session |-> session, anchor |-> a, failed |-> {}, todo |-> {}, cur |-> {},
               step |-> "none"]
    BY <1>1 DEF Idle
<1>6. /\ job' \in JobType /\ job'.cmd = "continue" /\ job'.goal = job'.level
      /\ job'.anchor = a /\ job'.level = l
    BY <1>2, <1>3, <1>4, <1>5a DEF JobType
<1>7. TypeOK'
    BY <1>5, <1>6 DEF IInv, TypeOK, Noted
<1>8. StepsFollowAnchor'
    BY <1>5 DEF IInv, StepsFollowAnchor
<1>9. JobInv'
    BY <1>2, <1>3, <1>5, <1>6 DEF JobInv, StepTx, Outside
<1>. QED BY <1>7, <1>8, <1>9 DEF IInv

\* --abort resets to the anchor, below which nothing changes
\* (git_transaction.py:241).
LEMMA AbortKeeps == ASSUME IInv, Noted', Abort PROVE IInv'
<1>. DEFINE a == ActiveTransaction.anchor
<1>1. a \in 1..Len(commits) - 1 /\ Len(commits) \in Nat
    BY ActiveIsAbove, HeadTyped DEF Abort, IInv
<1>2. commits \in Seq(CommitType) /\ Chain(commits) /\ a \in 1..Len(commits)
    BY <1>1, BranchIsChain DEF IInv, TypeOK
<1>3. /\ commits' = SubSeq(commits, 1, a) /\ index' = commits[a].tree
      /\ work' = commits[a].tree /\ pc' = pc /\ job' = job /\ pc = "idle"
    BY DEF Abort, ResetHard
<1>. HIDE DEF a
<1>4. commits[a] \in CommitType
    BY <1>2
<1>4a. commits[a].tree \in Tree
    BY <1>4 DEF CommitType
<1>5. commits' \in Seq(CommitType) /\ Len(commits') = a /\ Chain(commits')
    BY <1>2, <1>3, PrefixIsChain
<1>6. commits' # <<>>
    BY <1>1, <1>5
<1>7. TypeOK'
    BY <1>3, <1>4a, <1>5, <1>6 DEF IInv, TypeOK, Noted
<1>8. StepsFollowAnchor'
    BY <1>5, <1>7 DEF TypeOK, StepsFollowAnchor, Chain
<1>9. job = Idle
    BY <1>3 DEF IInv, TypeOK
<1>10. job'.cmd = "none"
    BY <1>3, <1>9 DEF Idle
<1>11. JobInv'
    BY <1>3, <1>10 DEF JobInv, Outside
<1>. QED BY <1>7, <1>8, <1>11 DEF IInv

\* Level 1's first look at the tree (level1_engine.py:82).
LEMMA CheckTreeKeeps == ASSUME IInv, Noted', CheckTree PROVE IInv'
<1>1. /\ index \in Tree /\ work \in Tree /\ job \in JobType /\ pc' = "report"
      /\ commits' = commits /\ index' = index /\ work' = work /\ job' = job
    BY DEF IInv, TypeOK, CheckTree, repo
<1>. QED BY <1>1, InsideKeeps DEF SameJob, Outside

\* A transaction starts at HEAD; a continued one keeps its anchor
\* (git_transaction.py:145, level1_engine.py:120).
LEMMA StartKeeps == ASSUME IInv, Noted', StartTransaction PROVE IInv'
<1>. DEFINE a == IF job.cmd = "continue" THEN job.anchor ELSE StartAnchor
<1>1. /\ job \in JobType /\ commits \in Seq(CommitType) /\ Len(commits) \in Nat \ {0}
      /\ index \in Tree /\ work \in Tree
    BY HeadTyped DEF IInv, TypeOK
<1>2. /\ pc' \in {"apply", "loop"}
      /\ commits' = commits /\ index' = index /\ work' = work
    BY DEF StartTransaction, repo
<1>3. PICK found \in Diagnostics \ {{}} :
          job' = [job EXCEPT !.anchor = a, !.todo = IF job.level = 1 THEN found ELSE {}]
    BY DEF StartTransaction
<1>4. /\ a \in 1..Len(commits) /\ found \in SUBSET Diagnosed
      /\ \A k \in a + 1..Len(commits) : commits[k].tx = [anchor |-> a, level |-> job.level]
    BY <1>1 DEF IInv, JobInv, StepTx, StartAnchor, Diagnosed, Diagnostics, OfLevel
<1>5. job.cmd = "continue" => job.goal = job.level
    BY DEF IInv, JobInv
<1>. HIDE DEF a
<1>5a. PICK todo \in SUBSET Diagnosed : job' = [job EXCEPT !.anchor = a, !.todo = todo]
    <2>1. CASE job.level = 1
        BY <1>3, <1>4, <2>1
    <2>2. CASE job.level # 1
        BY <1>3, <2>2
    <2>. QED BY <2>1, <2>2
<1>5b. job' = [cmd |-> job.cmd, level |-> job.level, goal |-> job.goal,
               force |-> job.force, test |-> job.test, session |-> job.session,
               anchor |-> a, failed |-> job.failed, todo |-> todo, cur |-> job.cur,
               step |-> job.step]
    BY <1>1, <1>5a DEF JobType
<1>5c. a \in Nat
    BY <1>1, <1>4
<1>6. /\ job' \in JobType /\ job'.cmd = job.cmd /\ job'.goal = job.goal
      /\ job'.level = job.level /\ job'.anchor = a
    BY <1>1, <1>5a, <1>5b, <1>5c DEF JobType
<1>7. TypeOK'
    BY <1>1, <1>2, <1>6 DEF IInv, TypeOK, Noted
<1>8. StepsFollowAnchor'
    BY <1>2 DEF IInv, StepsFollowAnchor
<1>9. JobInv'
    BY <1>2, <1>4, <1>5, <1>6 DEF JobInv, StepTx
<1>. QED BY <1>7, <1>8, <1>9 DEF IInv

-----------------------------------------------------------------------------
(* The levels.                                                             *)

\* Level 1 applies the replacements to the working tree.
LEMMA ApplyTyped ==
    ASSUME TypeOK, Apply
    PROVE  /\ work' \in Tree /\ work'.user = work.user
           /\ job' \in JobType /\ SameJob /\ job'.step = job.step
<1>1. work \in Tree /\ job \in JobType /\ work.done \in SUBSET Diagnosed
      /\ job.todo \in SUBSET Diagnosed
    BY DEF TypeOK, Tree, JobType
<1>2. job' = [job EXCEPT !.todo = @ \ Raw]
    BY DEF Apply
<1>3. job' \in JobType /\ SameJob /\ job'.step = job.step
    BY <1>1, <1>2 DEF JobType, SameJob
<1>4. CASE work' = work
    BY <1>1, <1>3, <1>4
<1>5. CASE \E fixed \in SUBSET (job.todo \cap Raw) : work' \in Changed(work, work.done \cup fixed)
    <2>1. PICK fixed \in SUBSET (job.todo \cap Raw) :
              work' \in Changed(work, work.done \cup fixed)
        BY <1>5
    <2>2. work.done \cup fixed \in SUBSET Diagnosed
        BY <1>1, <2>1
    <2>. QED BY <1>1, <1>3, <2>1, <2>2, ChangedFacts
<1>. QED BY <1>4, <1>5 DEF Apply

LEMMA ApplyKeeps == ASSUME IInv, Noted', Apply PROVE IInv'
<1>1. work' \in Tree /\ index \in Tree /\ job' \in JobType /\ SameJob
    BY ApplyTyped DEF IInv, TypeOK
<1>2. pc = "apply" /\ pc' = "commitRaw" /\ commits' = commits /\ index' = index
    BY DEF Apply, Goto
<1>. QED BY <1>1, <1>2, InsideKeeps DEF Outside

\* The next diagnostic or symbol changes what the command has at hand.
LEMMA PickTyped ==
    ASSUME TypeOK, NextPlain \/ NextSymbol
    PROVE  job' \in JobType /\ SameJob /\ job'.step = job.step
<1>1. job \in JobType /\ job.todo \in SUBSET Diagnosed /\ job.failed \in SUBSET Diagnosed
    BY DEF TypeOK, JobType
<1>2. CASE job' = job
    BY <1>1, <1>2 DEF SameJob
<1>3. CASE \E d \in job.todo : job' = [job EXCEPT !.todo = @ \ {d}, !.cur = {d}]
    <2>1. PICK d \in job.todo : job' = [job EXCEPT !.todo = @ \ {d}, !.cur = {d}]
        BY <1>3
    <2>2. job.todo \ {d} \in SUBSET Diagnosed /\ {d} \in SUBSET Diagnosed
        BY <1>1
    <2>. QED BY <1>1, <2>1, <2>2 DEF JobType, SameJob
<1>4. CASE \E found \in Diagnostics : \E s \in found :
               job' = [job EXCEPT !.failed = Failed(s), !.cur = {s}]
    <2>1. PICK s \in Diagnosed : job' = [job EXCEPT !.failed = Failed(s), !.cur = {s}]
        BY <1>4 DEF Diagnostics, OfLevel, Diagnosed
    <2>2. Failed(s) \in SUBSET Diagnosed
        BY <1>1, <2>1 DEF Failed
    <2>. QED BY <1>1, <2>1, <2>2 DEF JobType, SameJob
<1>. QED BY <1>2, <1>3, <1>4 DEF NextPlain, NextSymbol

\* One diagnostic, one symbol at a time (level1_engine.py:220, tidy_engine.py:125).
LEMMA PickKeeps == ASSUME IInv, Noted', NextPlain \/ NextSymbol PROVE IInv'
<1>1. job' \in JobType /\ SameJob /\ index \in Tree /\ work \in Tree
    BY PickTyped DEF IInv, TypeOK
<1>2. /\ pc \in {"plain", "loop"} /\ pc' \in {"finalize", "agentPlain", "seed"}
      /\ commits' = commits /\ index' = index /\ work' = work
    BY DEF NextPlain, NextSymbol, repo
<1>. QED BY <1>1, <1>2, InsideKeeps DEF Outside

\* The seed of a rename (tidy_engine.py:136).
LEMMA SeedTyped ==
    ASSUME TypeOK, Seed PROVE work' \in Tree /\ work'.user = work.user
<1>1. work \in Tree /\ work.done \cup job.cur \in SUBSET Diagnosed
    BY DEF TypeOK, JobType, Tree
<1>2. work' = work \/ work' \in Changed(work, work.done \cup job.cur)
    BY DEF Seed
<1>. QED BY <1>1, <1>2, ChangedFacts

LEMMA SeedKeeps == ASSUME IInv, Noted', Seed PROVE IInv'
<1>1. work' \in Tree /\ index \in Tree /\ job \in JobType
    BY SeedTyped DEF IInv, TypeOK
<1>2. /\ pc = "seed" /\ pc' \in {"loop", "seeded"} /\ commits' = commits
      /\ index' = index /\ job' = job
    BY DEF Seed
<1>. QED BY <1>1, <1>2, InsideKeeps DEF SameJob, Outside

-----------------------------------------------------------------------------
(* Squashing, failures, and the whole next-state relation.                 *)

\* The soft reset gives up the steps above the anchor (git_transaction.py:277).
LEMMA SoftResetKeeps == ASSUME IInv, Noted', SoftReset PROVE IInv'
<1>1. CASE Len(commits) = job.anchor
    BY <1>1, LevelEndsHere DEF SoftReset
<1>2. CASE Len(commits) # job.anchor
    <2>. DEFINE a == job.anchor
    <2>1. /\ commits' = SubSeq(commits, 1, a) /\ pc' = "squash" /\ job' = job
          /\ index' = index /\ work' = work /\ pc = "finalize"
        BY <1>2 DEF SoftReset
    <2>2. a \in 1..Len(commits)
        BY <2>1 DEF IInv, JobInv, Outside
    <2>3. commits \in Seq(CommitType) /\ Chain(commits)
        BY BranchIsChain DEF IInv, TypeOK
    <2>4. commits' \in Seq(CommitType) /\ Len(commits') = a /\ Chain(commits')
        BY <2>1, <2>2, <2>3, PrefixIsChain
    <2>5. commits' # <<>>
        BY <2>2, <2>4
    <2>6. TypeOK'
        BY <2>1, <2>4, <2>5 DEF IInv, TypeOK, Noted
    <2>7. StepsFollowAnchor'
        BY <2>4, <2>6 DEF TypeOK, StepsFollowAnchor, Chain
    <2>8. JobInv'
        BY <2>1, <2>2, <2>4 DEF IInv, JobInv
    <2>. QED BY <2>6, <2>7, <2>8 DEF IInv
<1>. QED BY <1>1, <1>2

\* One commit without trailers takes the place of the steps
\* (git_transaction.py:280).
LEMMA SquashKeeps == ASSUME IInv, Noted', Squash PROVE IInv'
<1>. DEFINE n == [tree |-> index, tx |-> NoTx]
<1>1. commits' = Append(commits, n) /\ LevelEnds /\ index' = index /\ work' = work
    BY DEF Squash, Commit
<1>2. n \in CommitType /\ n.tx = NoTx
    BY DEF IInv, TypeOK, JobType, CommitType, NoTx
<1>3. commits \in Seq(CommitType) /\ Chain(commits) /\ index \in Tree /\ work \in Tree
    BY BranchIsChain DEF IInv, TypeOK
<1>. HIDE DEF n
<1>4. commits' \in Seq(CommitType) /\ commits' # <<>> /\ Chain(commits')
    BY <1>1, <1>2, <1>3, PlainKeepsChain
<1>. QED BY <1>1, <1>3, <1>4, LevelEndsKeeps

\* Each step of Level 1.
LEMMA Level1Keeps == ASSUME IInv, Noted', Level1 PROVE IInv'
<1>1. Compiles \in BOOLEAN /\ TestsPass \in BOOLEAN
    BY DEF IInv, TypeOK, Tree, JobType, Compiles, TestsPass
<1>2. CASE Apply
    BY <1>2, ApplyKeeps
<1>3. CASE \/ CommitStep("commitRaw", "raw") \/ CommitStep("commitFix", "fix")
           \/ CommitStep("commitTests", "tests") \/ CommitStep("commitPlain", "plain")
    BY <1>3, CommitStepKeeps, AfterFacts DEF Outside
<1>4. CASE \/ Try("compile", Compiles, "tests", "agentFix")
           \/ Try("tests", TestsPass, "plain", "agentTests")
    BY <1>1, <1>4, TryKeeps DEF Outside
<1>5. CASE \/ Agent("agentFix", "recompile") \/ Agent("agentTests", "retest")
           \/ Agent("agentPlain", "compilePlain")
    BY <1>5, AgentKeeps DEF Outside
<1>6. CASE \/ Gate("recompile", Compiles, "commitFix")
           \/ Gate("retest", TestsPass, "commitTests")
           \/ Gate("compilePlain", Compiles, "commitPlain")
    BY <1>1, <1>6, GateKeeps DEF Outside
<1>7. CASE NextPlain
    BY <1>7, PickKeeps
<1>. QED BY <1>2, <1>3, <1>4, <1>5, <1>6, <1>7 DEF Level1

\* Each step of the loop of Levels 2 to 4.
LEMMA Level2Keeps == ASSUME IInv, Noted', Level2 PROVE IInv'
<1>1. Compiles \in BOOLEAN /\ TestsPass \in BOOLEAN
    BY DEF IInv, TypeOK, Tree, JobType, Compiles, TestsPass
<1>2. CASE NextSymbol
    BY <1>2, PickKeeps
<1>3. CASE Seed
    BY <1>3, SeedKeeps
<1>4. CASE Try("seeded", Compiles, "testGate", "agentSeed")
    BY <1>1, <1>4, TryKeeps DEF Outside
<1>5. CASE Agent("agentSeed", "verify")
    BY <1>5, AgentKeeps DEF Outside
<1>6. CASE Gate("verify", Compiles, "testGate") \/ Gate("testGate", TestsPass, "commitSeed")
    BY <1>1, <1>6, GateKeeps DEF Outside
<1>7. CASE CommitStep("commitSeed", "rename")
    BY <1>7, CommitStepKeeps, AfterFacts DEF Outside
<1>. QED BY <1>2, <1>3, <1>4, <1>5, <1>6, <1>7 DEF Level2

\* Every step of the user, of the commands and of a failure keeps the invariant.
LEMMA NextKeeps == IInv /\ [Next]_vars => IInv'
<1>. SUFFICES ASSUME IInv, [Next]_vars PROVE IInv'
    OBVIOUS
<1>0. Noted'
    BY NotedKeeps DEF IInv
<1>1. CASE UserEdits \/ UserCommits \/ UserDiscards \/ AgentWrites
    BY <1>0, <1>1, UserKeeps, AgentWritesKeeps
<1>2. CASE Fix \/ Continue \/ Abort
    BY <1>0, <1>2, FixKeeps, ContinueKeeps, AbortKeeps
<1>3. CASE CheckTree \/ StartTransaction
    BY <1>0, <1>3, CheckTreeKeeps, StartKeeps
<1>4. CASE RefuseDirty \/ Crash
    BY <1>0, <1>4, ExitHere DEF RefuseDirty, Crash
<1>5. CASE NothingToFix
    BY <1>0, <1>5, LevelEndsHere DEF NothingToFix
<1>6. CASE Level1 \/ Level2 \/ CommitStaged
    BY <1>0, <1>6, Level1Keeps, Level2Keeps, CommitStagedKeeps
<1>7. CASE SoftReset \/ Squash
    BY <1>0, <1>7, SoftResetKeeps, SquashKeeps
<1>8. CASE SquashFails
    BY <1>0, <1>8, LevelEndsHere, ExitHere DEF SquashFails
<1>9. CASE CommitFails \/ Interrupted
    BY <1>0, <1>9, ExitHere, ExitBack DEF CommitFails, Interrupted
<1>10. CASE UNCHANGED vars
    <2>1. /\ commits' = commits /\ index' = index /\ work' = work /\ pc' = pc
          /\ job' = job
        BY <1>10 DEF vars
    <2>. QED BY <1>0, <2>1 DEF IInv, TypeOK, StepsFollowAnchor, JobInv, StepTx, Noted
<1>. QED BY <1>1, <1>2, <1>3, <1>4, <1>5, <1>6, <1>7, <1>8, <1>9, <1>10 DEF Next, Step

\* The anchor of every step commit lies below it, with only steps of the same
\* transaction in between, whatever is killed, continued, aborted or forced
\* (git_transaction.py:145, :191, :245).
THEOREM Anchored == Spec => []StepsFollowAnchor
<1>1. IInv => StepsFollowAnchor
    BY DEF IInv
<1>. QED BY InitKeeps, NextKeeps, <1>1, PTL DEF Spec

-----------------------------------------------------------------------------
(* What leaves the branch.                                                 *)

\* Most steps of the engines leave the branch alone.
LEMMA EnginesKeepBranch ==
    ASSUME TypeOK, Level1 \/ Level2 PROVE commits' = commits
<1>1. ASSUME NEW at, NEW passed, NEW to, Gate(at, passed, to) PROVE commits' = commits
    BY <1>1, RollbackKeepsBranch DEF Gate, repo
<1>2. CASE Level1
    BY <1>1, <1>2 DEF Level1, Apply, CommitStep, Try, Agent, NextPlain, repo
<1>3. CASE Level2
    BY <1>1, <1>3 DEF Level2, NextSymbol, Seed, CommitStep, Try, Agent, repo
<1>. QED BY <1>2, <1>3

\* A step that shortens the branch goes down to the anchor of the transaction
\* whose steps lie above it; every other step only appends.
LEMMA BranchMoves ==
    ASSUME IInv, [Next]_vars
    PROVE  \/ commits' = commits
           \/ \E n \in CommitType : commits' = Append(commits, n)
           \/ \E a \in 1..Len(commits) : \E tx :
                  /\ tx # NoTx /\ commits' = SubSeq(commits, 1, a)
                  /\ \A k \in a + 1..Len(commits) : commits[k].tx = tx
<1>1. CASE Abort
    <2>. DEFINE a == ActiveTransaction.anchor
    <2>1. /\ a \in 1..Len(commits) - 1
          /\ \A k \in a + 1..Len(commits) : commits[k].tx = ActiveTransaction
        BY <1>1, ActiveIsAbove DEF Abort
    <2>2. Len(commits) \in Nat
        BY HeadTyped DEF IInv
    <2>3. commits' = SubSeq(commits, 1, a) /\ ActiveTransaction # NoTx
        BY <1>1 DEF Abort, ResetHard
    <2>. HIDE DEF a
    <2>4. a \in 1..Len(commits)
        BY <2>1, <2>2
    <2>. QED BY <2>1, <2>3, <2>4
<1>2. CASE SoftReset
    <2>1. pc = "finalize"
        BY <1>2 DEF SoftReset
    <2>2. /\ job.anchor \in 1..Len(commits)
          /\ \A k \in job.anchor + 1..Len(commits) : commits[k].tx = StepTx
        BY <2>1 DEF IInv, JobInv, Outside
    <2>3. StepTx # NoTx
        BY <2>2 DEF StepTx, NoTx
    <2>4. commits' = commits \/ commits' = SubSeq(commits, 1, job.anchor)
        BY <1>2 DEF SoftReset, repo
    <2>. QED BY <2>2, <2>3, <2>4
<1>3. CASE UserDiscards \/ Interrupted \/ CommitFails
    BY <1>3, RollbackKeepsBranch DEF UserDiscards, Interrupted, CommitFails, IInv, repo
<1>4. CASE Level1 \/ Level2
    BY <1>4, EnginesKeepBranch DEF IInv
<1>5. CASE CommitStaged
    <2>. DEFINE n == [tree |-> index, tx |-> StepTx]
    <2>1. n \in CommitType
        BY DEF IInv, TypeOK, JobType, CommitType, StepTx
    <2>2. commits' = Append(commits, n)
        BY <1>5 DEF CommitStaged, Commit, StepTx
    <2>. HIDE DEF n
    <2>. QED BY <2>1, <2>2
<1>6. CASE UserCommits
    <2>. DEFINE n == [tree |-> work, tx |-> NoTx]
    <2>1. n \in CommitType
        BY DEF IInv, TypeOK, CommitType, NoTx
    <2>2. commits' = Append(commits, n)
        BY <1>6 DEF UserCommits, Commit
    <2>. HIDE DEF n
    <2>. QED BY <2>1, <2>2
<1>7. CASE Squash
    <2>. DEFINE n == [tree |-> index, tx |-> NoTx]
    <2>1. n \in CommitType
        BY DEF IInv, TypeOK, CommitType, NoTx
    <2>2. commits' = Append(commits, n)
        BY <1>7 DEF Squash, Commit
    <2>. HIDE DEF n
    <2>. QED BY <2>1, <2>2
<1>8. CASE \/ UserEdits \/ AgentWrites \/ Fix \/ Continue \/ CheckTree \/ RefuseDirty
           \/ NothingToFix \/ StartTransaction \/ SquashFails \/ Crash \/ UNCHANGED vars
    BY <1>8 DEF UserEdits, AgentWrites, Fix, Continue, CheckTree, RefuseDirty,
                NothingToFix, StartTransaction, SquashFails, Crash, vars, repo
<1>. QED BY <1>1, <1>2, <1>3, <1>4, <1>5, <1>6, <1>7, <1>8 DEF Next, Step

\* Commits of the user and finished commits of the tool stay on the branch:
\* abort and squash only give up steps (git_transaction.py:245, :277, :341).
THEOREM Kept == Spec => CommitsKept
<1>1. ASSUME IInv, [Next]_vars
      PROVE  [\A i \in DOMAIN commits : commits[i].tx = NoTx =>
                  i \in DOMAIN commits' /\ commits'[i] = commits[i]]_vars
    <2>1. commits \in Seq(CommitType) /\ DOMAIN commits = 1..Len(commits)
          /\ Len(commits) \in Nat
        BY <1>1 DEF IInv, TypeOK
    <2>2. CASE commits' = commits
        BY <2>2
    <2>3. CASE \E n \in CommitType : commits' = Append(commits, n)
        BY <2>1, <2>3
    <2>4. CASE \E a \in 1..Len(commits) : \E tx :
                  /\ tx # NoTx /\ commits' = SubSeq(commits, 1, a)
                  /\ \A k \in a + 1..Len(commits) : commits[k].tx = tx
        <3>0. PICK a \in 1..Len(commits) : \E tx :
                  /\ tx # NoTx /\ commits' = SubSeq(commits, 1, a)
                  /\ \A k \in a + 1..Len(commits) : commits[k].tx = tx
            BY <2>4
        <3>1. PICK tx :
                  /\ tx # NoTx /\ commits' = SubSeq(commits, 1, a)
                  /\ \A k \in a + 1..Len(commits) : commits[k].tx = tx
            BY <3>0
        <3>2. DOMAIN commits' = 1..a /\ \A i \in 1..a : commits'[i] = commits[i]
            BY <2>1, <3>1
        <3>3. \A i \in DOMAIN commits : commits[i].tx = NoTx => i \in 1..a
            BY <2>1, <3>1
        <3>. QED BY <3>2, <3>3
    <2>. QED BY <1>1, <2>2, <2>3, <2>4, BranchMoves
<1>. QED BY InitKeeps, NextKeeps, <1>1, PTL DEF Spec, CommitsKept

-----------------------------------------------------------------------------
(* The user's uncommitted edits, and a run that was not forced.            *)

\* From the start of a fresh transaction on, what is committed since its anchor,
\* what is staged for a step and what is in the tree hold the same edits of the
\* user, unless git status failed or an agent came in between.
EditInv ==
    pc \notin Outside /\ job.cmd = "fix" /\ ~job.force /\ ~misled =>
        /\ \A k \in job.anchor..Len(commits) : commits[k].tree.user = work.user
        /\ pc = "staged" => index.user = work.user

\* A run that has been misled stays so.
LEMMA MisledStays == ASSUME [Next]_vars, misled PROVE misled'
<1>1. ASSUME NEW clean, Reads(clean) PROVE misled'
    BY <1>1 DEF Reads
<1>2. ASSUME NEW at, NEW step, CommitStep(at, step) PROVE misled'
    BY <1>1, <1>2 DEF CommitStep
<1>3. CASE CheckTree \/ StartTransaction
    BY <1>1, <1>3 DEF CheckTree, StartTransaction
<1>4. CASE Level1
    BY <1>2, <1>4 DEF Level1, Apply, Try, Gate, Agent, NextPlain
<1>5. CASE Level2
    BY <1>2, <1>5 DEF Level2, NextSymbol, Seed, Try, Gate, Agent
<1>6. CASE \/ UserEdits \/ UserCommits \/ UserDiscards \/ AgentWrites
           \/ Fix \/ Continue \/ Abort \/ RefuseDirty \/ NothingToFix
    BY <1>6 DEF UserEdits, UserCommits, UserDiscards, AgentWrites, Fix, Continue, Abort,
                RefuseDirty, NothingToFix
<1>7. CASE \/ CommitStaged \/ CommitFails \/ SoftReset \/ Squash \/ SquashFails
           \/ Interrupted \/ Crash \/ UNCHANGED vars
    BY <1>7 DEF CommitStaged, CommitFails, SoftReset, Squash, SquashFails, Interrupted,
                Crash, vars
<1>. QED BY <1>3, <1>4, <1>5, <1>6, <1>7 DEF Next, Step

\* A step inside a transaction that leaves the branch and the user's edits alone.
LEMMA InsideKeepsEdits ==
    ASSUME EditInv, misled => misled', pc \notin Outside, commits' = commits,
           work'.user = work.user, SameJob, pc' = "staged" => index'.user = work.user
    PROVE  EditInv'
BY DEF EditInv, SameJob

\* An agent leaves the user's edits in the tree.
LEMMA AgentUser ==
    ASSUME TypeOK, NEW at, NEW to, Agent(at, to) PROVE work'.user = work.user
<1>1. CASE work' = work
    BY <1>1
<1>2. CASE \E done \in {work.done, work.done \ (job.cur \ HEAD.tree.done)} :
               work' \in Changed(work, done)
    BY <1>2 DEF Changed
<1>. QED BY <1>1, <1>2 DEF Agent

\* commit_step stages the tree with the edits it holds.
LEMMA CommitStepEdits ==
    ASSUME IInv, EditInv, misled => misled', NEW at, at \notin Outside,
           NEW step \in DOMAIN After, CommitStep(at, step)
    PROVE  EditInv'
<1>1. /\ pc = at /\ commits' = commits /\ work' = work /\ job \in JobType
    BY DEF IInv, TypeOK, CommitStep
<1>2. CASE pc' = After[step] /\ job' = Stepped(job)
    <2>1. SameJob /\ pc' # "staged"
        BY <1>1, <1>2, SteppedFacts, AfterFacts
    <2>. QED BY <1>1, <2>1, InsideKeepsEdits
<1>3. CASE index' = work /\ pc' = "staged" /\ job' = [job EXCEPT !.step = step]
    <2>1. SameJob
        BY <1>1, <1>3 DEF JobType, SameJob
    <2>. QED BY <1>1, <1>3, <2>1, InsideKeepsEdits
<1>. QED BY <1>2, <1>3 DEF CommitStep

\* ... and git commit takes them.
LEMMA CommitStagedEdits ==
    ASSUME IInv, EditInv, misled => misled', CommitStaged PROVE EditInv'
<1>. DEFINE n == [tree |-> index, tx |-> StepTx]
<1>1. /\ pc = "staged" /\ commits' = Append(commits, n) /\ n.tree.user = index.user
      /\ work' = work /\ pc' = After[job.step] /\ job' = Stepped(job)
    BY DEF CommitStaged, Commit, StepTx
<1>2. /\ commits \in Seq(CommitType) /\ Len(commits) \in Nat /\ job \in JobType
      /\ job.step \in DOMAIN After /\ job.anchor \in 1..Len(commits)
    BY <1>1, HeadTyped DEF IInv, TypeOK, JobInv, Outside
<1>. HIDE DEF n
<1>3. /\ Len(commits') = Len(commits) + 1 /\ commits'[Len(commits) + 1] = n
      /\ \A k \in 1..Len(commits) : commits'[k] = commits[k]
    BY <1>1, <1>2
<1>4. SameJob /\ pc' # "staged"
    BY <1>1, <1>2, SteppedFacts, AfterFacts
<1>5. ASSUME job.cmd = "fix", ~job.force, ~misled, NEW k \in job.anchor..Len(commits')
      PROVE  commits'[k].tree.user = work.user
    <2>1. CASE k = Len(commits) + 1
        BY <1>1, <1>3, <1>5, <2>1 DEF EditInv, Outside
    <2>2. CASE k \in job.anchor..Len(commits)
        BY <1>1, <1>2, <1>3, <1>5, <2>2 DEF EditInv, Outside
    <2>. QED BY <1>2, <1>3, <2>1, <2>2
<1>. QED BY <1>1, <1>4, <1>5 DEF EditInv, SameJob

\* The transaction starts in a clean tree, unless it is forced or misled.
LEMMA StartEdits == ASSUME IInv, StartTransaction PROVE EditInv'
<1>1. job \in JobType /\ Len(commits) \in Nat
    BY HeadTyped DEF IInv, TypeOK
<1>2. /\ commits' = commits /\ work' = work /\ job'.cmd = job.cmd
      /\ job'.force = job.force /\ pc' # "staged"
      /\ job.cmd = "fix" => job'.anchor = Len(commits)
    BY <1>1 DEF StartTransaction, JobType, StartAnchor, repo
<1>3. ASSUME ~misled', job.cmd = "fix", ~job.force PROVE work = commits[Len(commits)].tree
    BY <1>3 DEF StartTransaction, Reads, MayStart, TreeClean, HEAD
<1>. QED BY <1>1, <1>2, <1>3 DEF EditInv

\* Below the squash there are the same edits as above it.
LEMMA SoftResetEdits ==
    ASSUME IInv, EditInv, misled => misled', SoftReset PROVE EditInv'
<1>1. CASE Len(commits) = job.anchor
    <2>1. pc' \in Outside
        BY <1>1 DEF SoftReset, LevelEnds, Exit, Start, Outside
    <2>. QED BY <2>1 DEF EditInv
<1>2. CASE Len(commits) # job.anchor
    <2>. DEFINE a == job.anchor
    <2>1. /\ commits' = SubSeq(commits, 1, a) /\ job' = job /\ work' = work
          /\ pc = "finalize" /\ pc' = "squash"
        BY <1>2 DEF SoftReset
    <2>2. a \in 1..Len(commits) /\ commits \in Seq(CommitType) /\ Len(commits) \in Nat
        BY <2>1 DEF IInv, TypeOK, JobInv, Outside
    <2>3. Len(commits') = a /\ commits'[a] = commits[a]
        BY <2>1, <2>2
    <2>4. \A k \in a..Len(commits') : k = a /\ k \in a..Len(commits)
        BY <2>2, <2>3
    <2>. QED BY <2>1, <2>3, <2>4 DEF EditInv, Outside
<1>. QED BY <1>1, <1>2

\* Each step of the engines.
LEMMA EngineEdits ==
    ASSUME IInv, EditInv, misled => misled', Level1 \/ Level2 PROVE EditInv'
<1>0. TypeOK /\ job \in JobType
    BY DEF IInv, TypeOK
<1>1. ASSUME NEW at, at \notin Outside, NEW passed, NEW to, to # "staged", Gate(at, passed, to)
      PROVE  EditInv'
    <2>1. CASE UNCHANGED <<repo, job>> /\ pc' = to
        BY <1>1, <2>1, InsideKeepsEdits DEF Gate, repo, SameJob
    <2>2. CASE Exit
        BY <2>2 DEF Exit, EditInv, Outside
    <2>. QED BY <1>1, <2>1, <2>2 DEF Gate
<1>2. ASSUME NEW at, at \notin Outside, NEW passed, NEW to, to # "staged",
             NEW agent, agent # "staged", Try(at, passed, to, agent)
      PROVE  EditInv'
    BY <1>2, InsideKeepsEdits DEF Try, Goto, repo, SameJob
<1>3. ASSUME NEW at, at \notin Outside, NEW to, to # "staged", Agent(at, to)
      PROVE  EditInv'
    <2>1. work'.user = work.user
        BY <1>0, <1>3, AgentUser
    <2>. QED BY <1>3, <2>1, InsideKeepsEdits DEF Agent, Goto, SameJob
<1>4. CASE NextPlain \/ NextSymbol
    <2>1. SameJob
        BY <1>0, <1>4, PickTyped
    <2>2. /\ pc \notin Outside /\ commits' = commits /\ work' = work /\ pc' # "staged"
        BY <1>4 DEF NextPlain, NextSymbol, repo, Outside
    <2>. QED BY <2>1, <2>2, InsideKeepsEdits
<1>5. CASE Apply
    <2>1. SameJob /\ work'.user = work.user
        BY <1>0, <1>5, ApplyTyped
    <2>. QED BY <1>5, <2>1, InsideKeepsEdits DEF Apply, Goto, Outside
<1>6. CASE Seed
    <2>1. work'.user = work.user
        BY <1>0, <1>6, SeedTyped
    <2>. QED BY <1>6, <2>1, InsideKeepsEdits DEF Seed, SameJob, Outside
<1>7. CASE Level1
    BY <1>1, <1>2, <1>3, <1>4, <1>5, <1>7, CommitStepEdits, AfterFacts DEF Level1, Outside
<1>8. CASE Level2
    BY <1>1, <1>2, <1>3, <1>4, <1>6, <1>8, CommitStepEdits, AfterFacts DEF Level2, Outside
<1>. QED BY <1>7, <1>8

\* Every step keeps the user's edits where they are.
LEMMA EditsInside == IInv /\ EditInv /\ [Next]_vars => EditInv'
<1>. SUFFICES ASSUME IInv, EditInv, [Next]_vars PROVE EditInv'
    OBVIOUS
<1>0. misled => misled'
    BY MisledStays
<1>1. CASE pc' \in Outside
    BY <1>1 DEF EditInv
<1>2. CASE \/ UserEdits \/ UserCommits \/ UserDiscards \/ Fix \/ Continue \/ Abort
           \/ CheckTree \/ RefuseDirty \/ NothingToFix
    <2>1. pc' \in Outside
        BY <1>2 DEF UserEdits, UserCommits, UserDiscards, Fix, Continue, Abort, CheckTree,
                    RefuseDirty, NothingToFix, LevelEnds, Exit, Start, Outside
    <2>. QED BY <1>1, <2>1
<1>3. CASE Squash \/ SquashFails \/ CommitFails \/ Interrupted \/ Crash
    <2>1. pc' \in Outside
        BY <1>3 DEF Squash, SquashFails, CommitFails, Interrupted, Crash, LevelEnds, Exit,
                    Start, Outside
    <2>. QED BY <1>1, <2>1
<1>4. CASE StartTransaction
    BY <1>4, StartEdits
<1>5. CASE SoftReset
    BY <1>0, <1>5, SoftResetEdits
<1>6. CASE Level1 \/ Level2
    BY <1>0, <1>6, EngineEdits
<1>7. CASE CommitStaged
    BY <1>0, <1>7, CommitStagedEdits
<1>8. CASE AgentWrites
    <2>1. work'.user = work.user
        BY <1>8, AgentWritesTyped DEF IInv
    <2>2. commits' = commits /\ index' = index /\ pc' = pc /\ job' = job
        BY <1>8 DEF AgentWrites
    <2>. QED BY <1>0, <2>1, <2>2 DEF EditInv
<1>9. CASE UNCHANGED vars
    BY <1>9 DEF vars, EditInv
<1>. QED BY <1>2, <1>3, <1>4, <1>5, <1>6, <1>7, <1>8, <1>9 DEF Next, Step

\* A fresh run without --force leaves branch and index alone while the tree holds
\* edits that are not committed, and so do the agents of an earlier one
\* (level1_engine.py:82, git_transaction.py:140).
THEOREM EditsUntouched == Spec => EditsKept
<1>. DEFINE Both == IInv /\ EditInv
<1>1. Init => Both
    BY InitKeeps DEF Init, EditInv, Outside
<1>2. Both /\ [Next]_vars => Both'
    BY NextKeeps, EditsInside
<1>3. ASSUME Both, [Next]_vars
      PROVE  [job.cmd = "fix" /\ ~job.force /\ ~misled /\ work.user # HEAD.tree.user
                  => UNCHANGED <<commits, index>> /\ work'.user = work.user]_vars
    <2>. SUFFICES ASSUME job.cmd = "fix", ~job.force, ~misled, work.user # HEAD.tree.user,
                         ~UNCHANGED vars
                  PROVE  UNCHANGED <<commits, index>> /\ work'.user = work.user
        OBVIOUS
    <2>1. pc # "idle"
        BY <1>3 DEF IInv, TypeOK, Idle
    <2>2. pc \in Outside
        <3>1. SUFFICES ASSUME pc \notin Outside PROVE FALSE
            OBVIOUS
        <3>2. job.anchor \in 1..Len(commits) /\ Len(commits) \in Nat
            BY <1>3, <3>1, HeadTyped DEF IInv, JobInv
        <3>3. Len(commits) \in job.anchor..Len(commits)
            BY <3>2
        <3>. QED BY <1>3, <3>1, <3>3 DEF EditInv, HEAD
    <2>3. pc \in {"check", "report"}
        BY <2>1, <2>2 DEF Outside
    <2>4. ~Level1 /\ ~Level2
        BY <2>3 DEF Level1, Level2, Apply, CommitStep, Try, Agent, Gate, Goto, NextPlain,
                    NextSymbol, Seed
    <2>5. ~CommitStaged /\ ~CommitFails /\ ~SoftReset /\ ~Squash /\ ~SquashFails /\ ~Interrupted
        BY <2>3 DEF CommitStaged, CommitFails, SoftReset, Squash, SquashFails, Interrupted,
                    InLoop
    <2>6. ~UserEdits /\ ~UserCommits /\ ~UserDiscards /\ ~Fix /\ ~Continue /\ ~Abort
        BY <2>3 DEF UserEdits, UserCommits, UserDiscards, Fix, Continue, Abort
    <2>7. CASE AgentWrites
        BY <1>3, <2>7, AgentWritesTyped DEF AgentWrites, IInv
    <2>8. CASE CheckTree \/ RefuseDirty \/ NothingToFix \/ StartTransaction \/ Crash
        BY <2>8 DEF CheckTree, RefuseDirty, NothingToFix, StartTransaction, Crash, repo
    <2>. QED BY <1>3, <2>4, <2>5, <2>6, <2>7, <2>8 DEF Next, Step
<1>. HIDE DEF Both
<1>. QED BY <1>1, <1>2, <1>3, PTL DEF Spec, EditsKept

-----------------------------------------------------------------------------
(* What is committed has been verified.                                    *)

InLevel1 == {"apply", "commitRaw", "compile", "agentFix", "recompile", "commitFix",
             "tests", "agentTests", "retest", "commitTests",
             "plain", "agentPlain", "compilePlain", "commitPlain"}

\* Each engine has its places and its steps.
PlaceInv ==
    /\ pc \in Outside => job.step = "none"
    /\ pc \in InLevel1 => job.level = 1
    /\ pc \in InLoop => job.level # 1
    /\ pc = "staged" => (job.step = "rename" <=> job.level # 1)

\* From where the next thing to happen to the transaction may be its squash.
Promised == InLoop \cup {"plain", "agentPlain", "compilePlain", "commitPlain",
                         "finalize", "squash"}

\* What a squash may say of the tree, by the step that came last.
Verified(tree) ==
    /\ job.step # "tests" => tree.compiles
    /\ job.step # "plain" /\ job.test => tree.passes

\* What the checks have told of the working tree, and what has become of it in
\* the index.
KnownInv ==
    ~misled =>
        /\ pc \in {"compile", "tests", "staged"} => index = work
        /\ pc \in {"tests", "agentTests", "retest", "commitTests"} => index.compiles
        /\ pc \in {"commitFix", "commitPlain", "testGate", "commitSeed"} => work.compiles
        /\ pc \in {"commitTests", "commitSeed"} /\ job.test => work.passes
        /\ pc = "staged" =>
               /\ job.step \in {"rename", "fix", "plain"} => index.compiles
               /\ job.step \in {"rename", "tests"} /\ job.test => index.passes
        /\ pc \in Promised /\ (job.level = 1 \/ job.step = "rename") => Verified(index)

VInv == PlaceInv /\ KnownInv

\* A command that ends has nothing left to know, and a level that starts nothing yet.
LEMMA OutsideKnows ==
    ASSUME job \in JobType, LevelEnds \/ Exit PROVE VInv'
<1>1. pc' \in Outside
    BY DEF LevelEnds, Exit, Start, Outside
<1>2. job'.step = "none"
    <2>1. CASE Exit
        BY <2>1 DEF Exit, Idle
    <2>2. CASE job' = [job EXCEPT !.level = @ + 1, !.anchor = 0, !.failed = {},
                                  !.todo = {}, !.cur = {}, !.step = "none"]
        BY <2>2 DEF JobType
    <2>. QED BY <2>1, <2>2 DEF LevelEnds
<1>. QED BY <1>1, <1>2 DEF VInv, PlaceInv, KnownInv, Outside, InLevel1, InLoop, Promised

\* Nothing is left to do, or the tree is staged as it was checked
\* (git_transaction.py:175, :201).
LEMMA CommitStepKnows ==
    ASSUME TypeOK, VInv, misled => misled', NEW at, NEW step, CommitStep(at, step),
           <<at, step>> \in {<<"commitRaw", "raw">>, <<"commitFix", "fix">>,
                             <<"commitTests", "tests">>, <<"commitPlain", "plain">>,
                             <<"commitSeed", "rename">>}
    PROVE  VInv'
<1>1. pc = at /\ job \in JobType /\ work' = work
    BY DEF TypeOK, CommitStep
<1>2. CASE Reads(TreeClean) /\ pc' = After[step] /\ job' = Stepped(job) /\ UNCHANGED index
    <2>1. job'.step = job.step /\ SameJob
        BY <1>1, <1>2, SteppedFacts
    <2>2. ~misled' => index = work
        BY <1>2 DEF Reads, TreeClean
    <2>3. PlaceInv'
        BY <1>1, <1>2, <2>1, AfterFacts DEF VInv, PlaceInv, SameJob, InLevel1, InLoop, Outside
    <2>4. KnownInv'
        BY <1>1, <1>2, <2>1, <2>2, AfterFacts
           DEF VInv, PlaceInv, KnownInv, SameJob, Promised, InLevel1, InLoop, Verified
    <2>. QED BY <2>3, <2>4 DEF VInv
<1>3. CASE index' = work /\ pc' = "staged" /\ job' = [job EXCEPT !.step = step]
    <2>1. job'.step = step /\ SameJob
        BY <1>1, <1>3 DEF JobType, SameJob
    <2>2. PlaceInv'
        BY <1>1, <1>3, <2>1 DEF VInv, PlaceInv, SameJob, InLevel1, InLoop, Outside
    <2>3. KnownInv'
        BY <1>1, <1>3, <2>1 DEF VInv, KnownInv, SameJob, Promised, InLoop
    <2>. QED BY <2>2, <2>3 DEF VInv
<1>. QED BY <1>2, <1>3 DEF CommitStep

\* The step is committed as it was staged (git_transaction.py:202).
LEMMA CommitStagedKnows ==
    ASSUME IInv, VInv, misled => misled', CommitStaged PROVE VInv'
<1>1. /\ pc = "staged" /\ index' = index /\ work' = work
      /\ pc' = After[job.step] /\ job' = Stepped(job)
    BY DEF CommitStaged
<1>2. job \in JobType /\ job.step \in DOMAIN After
    BY <1>1 DEF IInv, TypeOK, JobInv
<1>3. job'.step = job.step /\ SameJob
    BY <1>1, <1>2, SteppedFacts
<1>4. PlaceInv'
    BY <1>1, <1>2, <1>3, AfterFacts DEF VInv, PlaceInv, SameJob, InLevel1, InLoop, Outside
<1>5. KnownInv'
    BY <1>1, <1>2, <1>3, AfterFacts
       DEF VInv, PlaceInv, KnownInv, SameJob, Promised, InLoop, Verified
<1>. QED BY <1>4, <1>5 DEF VInv

\* An agent of a session may come anywhere, but not where its work is relied on.
LEMMA AgentWritesKnows ==
    ASSUME VInv, AgentWrites PROVE VInv'
<1>1. /\ index' = index /\ pc' = pc /\ job' = job
      /\ misled' = (misled \/ pc \in Relying)
    BY DEF AgentWrites
<1>. QED BY <1>1 DEF VInv, PlaceInv, KnownInv, Relying, Verified

\* A gate passes what it has checked, and the rest ends the command.
LEMMA GateKnows ==
    ASSUME TypeOK, VInv, misled => misled', NEW at, NEW passed, NEW to, Gate(at, passed, to),
           \/ at = "recompile" /\ to = "commitFix" /\ passed = Compiles
           \/ at = "retest" /\ to = "commitTests" /\ passed = TestsPass
           \/ at = "compilePlain" /\ to = "commitPlain" /\ passed = Compiles
           \/ at = "verify" /\ to = "testGate" /\ passed = Compiles
           \/ at = "testGate" /\ to = "commitSeed" /\ passed = TestsPass
    PROVE  VInv'
<1>1. CASE Exit
    BY <1>1, OutsideKnows DEF TypeOK
<1>2. CASE passed /\ pc' = to /\ UNCHANGED <<repo, job>>
    <2>1. pc = at /\ index' = index /\ work' = work /\ job' = job
        BY <1>2 DEF Gate, repo
    <2>2. PlaceInv'
        BY <1>2, <2>1 DEF VInv, PlaceInv, InLevel1, InLoop, Outside
    <2>3. KnownInv'
        BY <1>2, <2>1 DEF VInv, KnownInv, Promised, InLoop, Verified, Compiles, TestsPass
    <2>. QED BY <2>2, <2>3 DEF VInv
<1>. QED BY <1>1, <1>2 DEF Gate

\* A check sends what it has found good on, the rest to an agent.
LEMMA TryKnows ==
    ASSUME VInv, misled => misled', NEW at, NEW passed, NEW to, NEW agent,
           Try(at, passed, to, agent),
           \/ at = "compile" /\ to = "tests" /\ agent = "agentFix" /\ passed = Compiles
           \/ at = "tests" /\ to = "plain" /\ agent = "agentTests" /\ passed = TestsPass
           \/ at = "seeded" /\ to = "testGate" /\ agent = "agentSeed" /\ passed = Compiles
    PROVE  VInv'
<1>1. /\ pc = at /\ index' = index /\ work' = work /\ job' = job
      /\ pc' = IF passed THEN to ELSE agent
    BY DEF Try, Goto, repo
<1>2. PlaceInv'
    BY <1>1 DEF VInv, PlaceInv, InLevel1, InLoop, Outside
<1>3. KnownInv'
    BY <1>1 DEF VInv, KnownInv, Promised, InLoop, Verified, Compiles, TestsPass
<1>. QED BY <1>2, <1>3 DEF VInv

\* An agent is followed by a check.
LEMMA AgentKnows ==
    ASSUME VInv, misled => misled', NEW at, NEW to, Agent(at, to),
           <<at, to>> \in {<<"agentFix", "recompile">>, <<"agentTests", "retest">>,
                           <<"agentPlain", "compilePlain">>, <<"agentSeed", "verify">>}
    PROVE  VInv'
<1>1. pc = at /\ pc' = to /\ index' = index /\ job' = job
    BY DEF Agent, Goto
<1>. QED BY <1>1 DEF VInv, PlaceInv, KnownInv, Promised, InLevel1, InLoop, Outside, Verified

\* Each step of Level 1.
LEMMA Level1Knows == ASSUME TypeOK, VInv, misled => misled', Level1 PROVE VInv'
<1>1. CASE Apply
    <2>1. SameJob /\ job'.step = job.step
        BY <1>1, ApplyTyped
    <2>2. pc = "apply" /\ pc' = "commitRaw"
        BY <1>1 DEF Apply, Goto
    <2>. QED BY <2>1, <2>2 DEF VInv, PlaceInv, KnownInv, SameJob, Promised, InLevel1, InLoop,
                               Outside
<1>2. CASE NextPlain
    <2>1. SameJob /\ job'.step = job.step
        BY <1>2, PickTyped
    <2>2. pc = "plain" /\ pc' \in {"finalize", "agentPlain"} /\ index' = index
        BY <1>2 DEF NextPlain, repo
    <2>. QED BY <2>1, <2>2 DEF VInv, PlaceInv, KnownInv, SameJob, Promised, InLevel1, InLoop,
                               Outside, Verified
<1>3. CASE \/ Agent("agentFix", "recompile") \/ Agent("agentTests", "retest")
           \/ Agent("agentPlain", "compilePlain")
    BY <1>3, AgentKnows
<1>4. CASE \/ Try("compile", Compiles, "tests", "agentFix")
           \/ Try("tests", TestsPass, "plain", "agentTests")
    BY <1>4, TryKnows
<1>5. CASE \/ Gate("recompile", Compiles, "commitFix")
           \/ Gate("retest", TestsPass, "commitTests")
           \/ Gate("compilePlain", Compiles, "commitPlain")
    BY <1>5, GateKnows
<1>6. CASE \/ CommitStep("commitRaw", "raw") \/ CommitStep("commitFix", "fix")
           \/ CommitStep("commitTests", "tests") \/ CommitStep("commitPlain", "plain")
    BY <1>6, CommitStepKnows
<1>. QED BY <1>1, <1>2, <1>3, <1>4, <1>5, <1>6 DEF Level1

\* Each step of the loop of Levels 2 to 4.
LEMMA Level2Knows == ASSUME TypeOK, VInv, misled => misled', Level2 PROVE VInv'
<1>1. CASE NextSymbol
    <2>1. SameJob /\ job'.step = job.step
        BY <1>1, PickTyped
    <2>2. pc = "loop" /\ pc' \in {"finalize", "seed"} /\ index' = index
        BY <1>1 DEF NextSymbol, repo
    <2>. QED BY <2>1, <2>2 DEF VInv, PlaceInv, KnownInv, SameJob, Promised, InLevel1, InLoop,
                               Outside, Verified
<1>2. CASE Seed
    <2>1. pc = "seed" /\ pc' \in {"loop", "seeded"} /\ index' = index /\ job' = job
        BY <1>2 DEF Seed
    <2>. QED BY <2>1 DEF VInv, PlaceInv, KnownInv, Promised, InLevel1, InLoop, Outside, Verified
<1>3. CASE Try("seeded", Compiles, "testGate", "agentSeed")
    BY <1>3, TryKnows
<1>4. CASE Agent("agentSeed", "verify")
    BY <1>4, AgentKnows
<1>5. CASE Gate("verify", Compiles, "testGate") \/ Gate("testGate", TestsPass, "commitSeed")
    BY <1>5, GateKnows
<1>6. CASE CommitStep("commitSeed", "rename")
    BY <1>6, CommitStepKnows
<1>. QED BY <1>1, <1>2, <1>3, <1>4, <1>5, <1>6 DEF Level2

\* A transaction starts, or goes on, with a step of its own still to come.
LEMMA StartKnows == ASSUME TypeOK, VInv, StartTransaction PROVE VInv'
<1>1. job \in JobType /\ pc = "report" /\ job.step = "none"
    BY DEF TypeOK, VInv, PlaceInv, Outside, StartTransaction
<1>2. /\ job'.step = "none" /\ job'.level = job.level
      /\ pc' = IF job.level = 1 THEN "apply" ELSE "loop"
    BY <1>1 DEF StartTransaction, JobType
<1>. QED BY <1>1, <1>2 DEF VInv, PlaceInv, KnownInv, Promised, InLevel1, InLoop, Outside

\* Every step keeps what is known.
LEMMA NextKnows == IInv /\ VInv /\ [Next]_vars => VInv'
<1>. SUFFICES ASSUME IInv, VInv, [Next]_vars PROVE VInv'
    OBVIOUS
<1>0. (misled => misled') /\ TypeOK /\ job \in JobType /\ (pc = "idle" => job = Idle)
    BY MisledStays DEF IInv, TypeOK
<1>1. CASE UserEdits \/ UserCommits \/ UserDiscards \/ Abort
    <2>1. pc' = "idle" /\ job' = Idle
        BY <1>0, <1>1 DEF UserEdits, UserCommits, UserDiscards, Abort
    <2>. QED BY <1>0, <2>1, OutsideKnows DEF Exit
<1>2. CASE Fix \/ Continue
    <2>1. pc' \in Outside /\ job'.step = "none"
        BY <1>2 DEF Fix, Continue, Start, Outside, Idle
    <2>. QED BY <2>1 DEF VInv, PlaceInv, KnownInv, Outside, InLevel1, InLoop, Promised
<1>3. CASE AgentWrites
    BY <1>3, AgentWritesKnows
<1>4. CASE CheckTree
    <2>1. pc = "check" /\ pc' = "report" /\ job' = job
        BY <1>4 DEF CheckTree
    <2>. QED BY <2>1 DEF VInv, PlaceInv, KnownInv, Outside, InLevel1, InLoop, Promised
<1>5. CASE StartTransaction
    BY <1>0, <1>5, StartKnows
<1>6. CASE \/ RefuseDirty \/ NothingToFix \/ Squash \/ SquashFails \/ CommitFails
           \/ Interrupted \/ Crash
    <2>1. LevelEnds \/ Exit
        BY <1>6 DEF RefuseDirty, NothingToFix, Squash, SquashFails, CommitFails,
                    Interrupted, Crash
    <2>. QED BY <1>0, <2>1, OutsideKnows
<1>7. CASE Level1 \/ Level2
    BY <1>0, <1>7, Level1Knows, Level2Knows
<1>8. CASE CommitStaged
    BY <1>0, <1>8, CommitStagedKnows
<1>9. CASE SoftReset
    <2>1. CASE LevelEnds
        BY <1>0, <2>1, OutsideKnows
    <2>2. CASE pc' = "squash" /\ UNCHANGED <<index, work, job>>
        <3>1. pc = "finalize"
            BY <1>9 DEF SoftReset
        <3>. QED BY <1>0, <2>2, <3>1 DEF VInv, PlaceInv, KnownInv, Promised, InLevel1,
                                         InLoop, Outside, Verified
    <2>. QED BY <1>9, <2>1, <2>2 DEF SoftReset
<1>10. CASE UNCHANGED vars
    BY <1>10 DEF vars, VInv, PlaceInv, KnownInv, Verified
<1>. QED BY <1>1, <1>2, <1>3, <1>4, <1>5, <1>6, <1>7, <1>8, <1>9, <1>10 DEF Next, Step

\* What was verified is what is committed, and what is squashed, as far as the
\* last step goes, whatever agents and tests do to each other's work, unless one
\* came between a check and its use (level1_engine.py:199, tidy_engine.py:185,
\* git_transaction.py:201 and :277).
THEOREM CommitsVerified == Spec => StepsVerified
<1>. DEFINE Both == IInv /\ VInv
<1>1. Init => Both
    <2>. SUFFICES ASSUME Init PROVE VInv
        BY InitKeeps
    <2>1. pc = "idle" /\ job.step = "none"
        BY DEF Init, Idle
    <2>. QED BY <2>1 DEF VInv, PlaceInv, KnownInv, Outside, InLevel1, InLoop, Promised
<1>2. Both /\ [Next]_vars => Both'
    BY NextKeeps, NextKnows
<1>3. ASSUME Both, [Next]_vars
      PROVE  [~misled /\ pc \in {"staged", "squash"} /\ Len(commits') > Len(commits) =>
                  LET tree == commits'[Len(commits')].tree
                      step == job.step
                  IN  IF pc = "staged"
                      THEN /\ step \in {"rename", "fix", "plain"} => tree.compiles
                           /\ step \in {"rename", "tests"} /\ job.test => tree.passes
                      ELSE job.level = 1 \/ step = "rename" =>
                           /\ step # "tests" => tree.compiles
                           /\ step # "plain" /\ job.test => tree.passes]_vars
    <2>. SUFFICES ASSUME ~misled, pc \in {"staged", "squash"}, Len(commits') > Len(commits)
                  PROVE  LET tree == commits'[Len(commits')].tree
                             step == job.step
                         IN  IF pc = "staged"
                             THEN /\ step \in {"rename", "fix", "plain"} => tree.compiles
                                  /\ step \in {"rename", "tests"} /\ job.test => tree.passes
                             ELSE job.level = 1 \/ step = "rename" =>
                                  /\ step # "tests" => tree.compiles
                                  /\ step # "plain" /\ job.test => tree.passes
        OBVIOUS
    <2>1. commits \in Seq(CommitType) /\ Len(commits) \in Nat /\ TypeOK
        BY <1>3 DEF IInv, TypeOK
    <2>2. commits' # commits
        OBVIOUS
    <2>3. CommitStaged \/ Squash
        <3>1. ~Level1 /\ ~Level2
            BY <2>1, <2>2, EnginesKeepBranch
        <3>2. ~UserDiscards /\ ~Interrupted /\ ~CommitFails
            BY <2>1, <2>2, RollbackKeepsBranch
               DEF UserDiscards, Interrupted, CommitFails, repo
        <3>3. ~UserCommits /\ ~Abort /\ ~SoftReset
            BY DEF UserCommits, Abort, SoftReset
        <3>. QED BY <1>3, <2>2, <3>1, <3>2, <3>3
                 DEF Next, Step, UserEdits, AgentWrites, Fix, Continue, CheckTree, RefuseDirty,
                     NothingToFix, StartTransaction, SquashFails, Crash, vars, repo
    <2>4. \E tx : commits' = Append(commits, [tree |-> index, tx |-> tx])
        BY <2>3 DEF CommitStaged, Squash, Commit
    <2>5. PICK tx : commits' = Append(commits, [tree |-> index, tx |-> tx])
        BY <2>4
    <2>6. commits'[Len(commits')].tree = index
        BY <2>1, <2>5
    <2>. QED BY <1>3, <2>6 DEF VInv, KnownInv, Promised, Verified
<1>. HIDE DEF Both
<1>. QED BY <1>1, <1>2, <1>3, PTL DEF Spec, StepsVerified

----------------------------------------------------------------------------
(* Signaling: for any number of starts, reconnects and messages nothing is  *)
(* left open, signals are processed one at a time, and what is sent and set *)
(* belongs to the session it is for.                                        *)

Driver ==
    [connected : BOOLEAN, ws : Sockets \cup {None}, pc : Nat, timer : BOOLEAN,
     reconnectAttempts : Nat, signalQueue : Seq(Signals \cup {"start"}),
     isProcessingSignal : BOOLEAN, pendingCandidates : Nat, remoteDescriptionSet : BOOLEAN,
     view : {"connecting", "connected", "disconnected"}]
Peer == [open : BOOLEAN, socket : Sockets \cup {None}, remote : BOOLEAN, early : BOOLEAN, ice : BOOLEAN]
Handler == [stage : {"none", "request", "serving", "done"}, reader : {"none", "reading", "ended"}]
Call == [at : Awaiting \cup {"idle", "loop"}, pc : Nat, sdp : {"none", "offer", "answer"}]
Message == [type : {"offer", "answer", "candidate"}, pc : Nat]

Typed ==
    /\ js \in Driver
    /\ procs \in [Procs -> Call]
    /\ sock \in [Sockets -> {"none", "connecting", "open", "failed", "over", "closed"}]
    /\ toClient \in [Sockets -> Seq(Signals \cup {"start"})]
    /\ toServer \in [Sockets -> Seq(Message)]
    /\ pcs \in Seq(Peer)
    /\ gw \in [Sockets -> Handler]
    /\ js.pc \in 0 .. Len(pcs)

\* The driver's socket and connection are the open ones, and they go together.
Held ==
    /\ \A s \in Sockets : sock[s] \in {"connecting", "open", "failed", "over"} => s = js.ws
    /\ \A c \in 1 .. Len(pcs) : pcs[c].open <=> c = js.pc
    /\ ~js.connected => js.ws = None /\ ~js.timer
    /\ js.ws = None => js.pc = None /\ js.signalQueue = <<>>
    /\ js.pc # None => pcs[js.pc].socket = js.ws

\* A session starts once: until its handler has sent "start" the browser has nothing of it,
\* and "start" is the first that it gets, before there is a connection.
StartsOnce ==
    /\ \A s \in Sockets :
          /\ sock[s] \in {"none", "connecting"} => gw[s].stage = "none"
          /\ gw[s].stage \in {"none", "request"} => toClient[s] = <<>> /\ gw[s].reader = "none"
          /\ gw[s].stage \in {"none", "request"} /\ s = js.ws => js.pc = None /\ js.signalQueue = <<>>
          /\ \A i \in 1 .. Len(toClient[s]) : toClient[s][i] = "start" =>
                 i = 1 /\ (s = js.ws => js.pc = None /\ js.signalQueue = <<>>)
    /\ \A i \in 1 .. Len(js.signalQueue) : js.signalQueue[i] = "start" => i = 1 /\ js.pc = None

\* One call is under way at most; one that awaits does so on the driver's connection, and
\* one that runs without the flag has nothing left to process.
OneCall ==
    /\ \A p, q \in Procs : procs[p].at # "idle" /\ procs[q].at # "idle" => p = q
    /\ \A p \in Procs : procs[p].at \in Awaiting => procs[p].pc = js.pc /\ js.pc # None
    /\ \A p \in Procs : procs[p].at = "loop" => js.isProcessingSignal \/ js.signalQueue = <<>>
    /\ Quiescent => (js.isProcessingSignal <=> \E p \in Procs : procs[p].at # "idle")

\* What was sent on a socket is of a connection of its session; no candidate came early.
Session ==
    /\ \A s \in Sockets : \A i \in 1 .. Len(toServer[s]) :
          /\ toServer[s][i].pc \in 1 .. Len(pcs)
          /\ pcs[toServer[s][i].pc].socket = s
    /\ js.remoteDescriptionSet => js.pc # None /\ pcs[js.pc].remote
    /\ \A c \in 1 .. Len(pcs) : ~pcs[c].early

SInv == Typed /\ Held /\ StartsOnce /\ OneCall /\ Session

\* Two states of the driver that differ at most in what is queued and shown, and in counters.
SameSession(d, e) ==
    /\ d.ws = e.ws /\ d.pc = e.pc /\ d.connected = e.connected /\ d.timer = e.timer
    /\ d.isProcessingSignal = e.isProcessingSignal /\ d.remoteDescriptionSet = e.remoteDescriptionSet

----------------------------------------------------------------------------
(* Facts about the sockets and about the calls.                             *)

\* A socket is a positive number, so none of them is None.
LEMMA SocketsFact == Sockets \subseteq Nat /\ None \notin Sockets
  BY DEF Sockets, None

\* Where "start" can only be the first of the messages, what is appended to none of them may
\* be "start", and after the first is taken there is none.
LEMMA Taken ==
    ASSUME NEW q \in Seq(Signals \cup {"start"}), q # <<>>,
           \A i \in 1 .. Len(q) : q[i] = "start" => i = 1
    PROVE  /\ Head(q) \in Signals \cup {"start"}
           /\ Tail(q) \in Seq(Signals \cup {"start"})
           /\ \A i \in 1 .. Len(Tail(q)) : Tail(q)[i] # "start"
  BY DEF Signals

LEMMA Put ==
    ASSUME NEW q \in Seq(Signals \cup {"start"}), NEW m \in Signals \cup {"start"},
           m = "start" => q = <<>>,
           \A i \in 1 .. Len(q) : q[i] = "start" => i = 1
    PROVE  /\ Append(q, m) \in Seq(Signals \cup {"start"})
           /\ Append(q, m) # <<>>
           /\ Len(Append(q, m)) = Len(q) + 1
           /\ \A i \in 1 .. Len(q) : Append(q, m)[i] = q[i]
           /\ Append(q, m)[Len(q) + 1] = m
           /\ \A i \in 1 .. Len(Append(q, m)) : Append(q, m)[i] = "start" => i = 1
  BY DEF Signals

\* What is left of the driver when the first signal is taken from its queue.
LEMMA ShiftedFacts ==
    ASSUME SInv, js.signalQueue # <<>>
    PROVE  /\ Signal \in Signals \cup {"start"}
           /\ Signal = "start" => js.pc = None
           /\ Shifted \in Driver
           /\ \A i \in 1 .. Len(Shifted.signalQueue) : Shifted.signalQueue[i] # "start"
           /\ SameSession(Shifted, js)
<1> DEFINE q == js.signalQueue
<1>1. q \in Seq(Signals \cup {"start"}) /\ (\A i \in 1 .. Len(q) : q[i] = "start" => i = 1)
  BY DEF SInv, Typed, StartsOnce, Driver
<1>2. /\ Head(q) \in Signals \cup {"start"}
      /\ Tail(q) \in Seq(Signals \cup {"start"})
      /\ \A i \in 1 .. Len(Tail(q)) : Tail(q)[i] # "start"
  BY <1>1, Taken
<1>3. Shifted.signalQueue = Tail(q) /\ Shifted \in Driver /\ SameSession(Shifted, js)
  BY <1>2 DEF Shifted, SInv, Typed, Driver, SameSession
<1>4. Head(q) = "start" => js.pc = None
  BY <1>1 DEF SInv, StartsOnce
<1> QED BY <1>2, <1>3, <1>4 DEF Signal

\* With a signal in the queue the driver has a socket, and "start" has been sent on it.
LEMMA QueueFilled ==
    ASSUME SInv, js.signalQueue # <<>>
    PROVE  /\ js.ws \in Sockets /\ js.connected
           /\ gw[js.ws].stage \notin {"none", "request"}
           /\ \A i \in 1 .. Len(toClient[js.ws]) : toClient[js.ws][i] # "start"
  BY DEF SInv, Typed, Held, StartsOnce, Driver

\* One connection is changed, the others stay.
LEMMA Replaced ==
    ASSUME NEW c \in 1 .. Len(pcs), pcs \in Seq(Peer), NEW v \in Peer
    PROVE  /\ [pcs EXCEPT ![c] = v] \in Seq(Peer) /\ Len([pcs EXCEPT ![c] = v]) = Len(pcs)
           /\ [pcs EXCEPT ![c] = v][c] = v
           /\ \A k \in 1 .. Len(pcs) : k # c => [pcs EXCEPT ![c] = v][k] = pcs[k]
  OBVIOUS

\* A call that awaits, or goes on: nothing else changes for the calls.
LEMMA AwaitFacts ==
    ASSUME Typed, NEW p \in Procs, NEW what \in Awaiting \cup {"loop"}, NEW on \in Nat,
           NEW sdp \in {"none", "offer", "answer"}, Await(p, what, on, sdp)
    PROVE  /\ procs' \in [Procs -> Call]
           /\ procs'[p].at = what /\ procs'[p].pc = on /\ procs'[p].sdp = sdp
           /\ \A q \in Procs : q # p => procs'[q] = procs[q]
  BY DEF Typed, Await, Call

----------------------------------------------------------------------------
(* The steps of the run loop.                                               *)

\* The loop ends.
LEMMA QueueDoneKeeps == ASSUME SInv, NEW p \in Procs, QueueDone(p) PROVE SInv'
<1>1. Typed'
  BY DEF SInv, Typed, QueueDone, NoCall, Driver, Call, None
<1>2. Held'
  BY DEF SInv, Typed, Held, QueueDone, Driver
<1>3. StartsOnce'
  BY DEF SInv, Typed, StartsOnce, QueueDone, Driver
<1>4. OneCall'
  BY DEF SInv, Typed, OneCall, QueueDone, NoCall, Driver, Quiescent, Awaiting
<1>5. Session'
  BY DEF SInv, Typed, Session, QueueDone, Driver
<1> QED BY <1>1, <1>2, <1>3, <1>4, <1>5 DEF SInv

\* A description of the bridge is given to the connection, if there is one.
LEMMA HandleSDPKeeps == ASSUME SInv, NEW p \in Procs, HandleSDP(p) PROVE SInv'
<1>1. js.signalQueue # <<>> /\ procs[p].at = "loop"
  BY DEF HandleSDP, ProcessSignal
<1>2. /\ js' \in Driver /\ SameSession(js', js)
      /\ \A i \in 1 .. Len(js'.signalQueue) : js'.signalQueue[i] # "start"
  BY <1>1, ShiftedFacts DEF HandleSDP
<1>3. js.isProcessingSignal
  BY <1>1 DEF SInv, OneCall
<1>4. /\ procs' \in [Procs -> Call]
      /\ procs'[p].at # "loop" => procs'[p].at \in Awaiting /\ procs'[p].pc = js.pc /\ js.pc # None
      /\ \A q \in Procs : q # p => procs'[q] = procs[q]
  <2>1. CASE js.pc = None
    <3>1. procs' = procs
      BY <2>1 DEF HandleSDP
    <3> QED BY <1>1, <3>1 DEF SInv, Typed
  <2>2. CASE js.pc # None
    <3>1. Await(p, "remote", js.pc, Signal) /\ Signal \in {"none", "offer", "answer"}
      BY <2>2 DEF HandleSDP
    <3>2. js.pc \in Nat /\ "remote" \in Awaiting
      BY DEF SInv, Typed, Driver, Awaiting
    <3> QED BY <2>2, <3>1, <3>2, AwaitFacts DEF SInv
  <2> QED BY <2>1, <2>2
<1>5. Typed'
  BY <1>2, <1>4 DEF SInv, Typed, HandleSDP, SameSession
<1>6. Held'
  BY <1>1, <1>2, QueueFilled, SocketsFact DEF SInv, Held, HandleSDP, SameSession
<1>7. StartsOnce'
  BY <1>1, <1>2, QueueFilled DEF SInv, StartsOnce, HandleSDP, SameSession
<1>8. OneCall'
  BY <1>1, <1>2, <1>3, <1>4 DEF SInv, OneCall, SameSession, Quiescent, Awaiting
<1>9. Session'
  BY <1>2 DEF SInv, Session, HandleSDP, SameSession
<1> QED BY <1>5, <1>6, <1>7, <1>8, <1>9 DEF SInv

\* A remote candidate is kept until the remote description is set, then given to the connection.
LEMMA HandleCandidateKeeps == ASSUME SInv, NEW p \in Procs, HandleCandidate(p) PROVE SInv'
<1>1. js.signalQueue # <<>> /\ procs[p].at = "loop"
  BY DEF HandleCandidate, ProcessSignal
<1>2. /\ js' \in Driver /\ SameSession(js', js)
      /\ \A i \in 1 .. Len(js'.signalQueue) : js'.signalQueue[i] # "start"
  <2>1. js' = Shifted \/ js' = [Shifted EXCEPT !.pendingCandidates = @ + 1]
    BY DEF HandleCandidate
  <2>2. /\ Shifted \in Driver /\ SameSession(Shifted, js)
        /\ \A i \in 1 .. Len(Shifted.signalQueue) : Shifted.signalQueue[i] # "start"
    BY <1>1, ShiftedFacts
  <2>3. ASSUME js' = [Shifted EXCEPT !.pendingCandidates = @ + 1]
        PROVE  js' \in Driver /\ SameSession(js', Shifted) /\ js'.signalQueue = Shifted.signalQueue
    BY <2>2, <2>3 DEF Driver, SameSession
  <2> QED BY <2>1, <2>2, <2>3 DEF SameSession
<1>3. pcs' = pcs
  <2>1. ASSUME js.remoteDescriptionSet, AddIceCandidate(js.pc) PROVE pcs' = pcs
    <3>1. js.pc \in 1 .. Len(pcs) /\ pcs[js.pc].remote /\ ~pcs[js.pc].early /\ pcs \in Seq(Peer)
      BY <2>1 DEF SInv, Typed, Session, None
    <3> DEFINE r == pcs[js.pc]
    <3>2. r \in Peer /\ r.remote /\ ~r.early
      BY <3>1
    <3>3. [r EXCEPT !.early = r.early \/ ~r.remote] = r
      BY <3>2 DEF Peer
    <3>4. pcs' = [pcs EXCEPT ![js.pc] = [r EXCEPT !.early = r.early \/ ~r.remote]]
      BY <2>1 DEF AddIceCandidate
    <3> HIDE DEF r
    <3>5. pcs' = [pcs EXCEPT ![js.pc] = r]
      BY <3>3, <3>4
    <3> QED BY <3>1, <3>5 DEF r
  <2> QED BY <2>1 DEF HandleCandidate
<1>4. Typed'
  BY <1>2, <1>3 DEF SInv, Typed, HandleCandidate, SameSession
<1>5. Held'
  BY <1>1, <1>2, <1>3, QueueFilled, SocketsFact DEF SInv, Held, HandleCandidate, SameSession
<1>6. StartsOnce'
  BY <1>1, <1>2, QueueFilled DEF SInv, StartsOnce, HandleCandidate, SameSession
<1>7. OneCall'
  BY <1>1, <1>2 DEF SInv, OneCall, HandleCandidate, SameSession, Quiescent
<1>8. Session'
  BY <1>2, <1>3 DEF SInv, Session, HandleCandidate, SameSession
<1> QED BY <1>4, <1>5, <1>6, <1>7, <1>8 DEF SInv

\* "start" makes a connection; there is none before.
LEMMA HandleStartKeeps == ASSUME SInv, NEW p \in Procs, HandleStart(p) PROVE SInv'
<1> DEFINE c == [open |-> TRUE, socket |-> js.ws, remote |-> FALSE, early |-> FALSE, ice |-> FALSE]
           n == Len(pcs) + 1
<1>1. js.signalQueue # <<>> /\ procs[p].at = "loop" /\ Signal = "start"
  BY DEF HandleStart, ProcessSignal
<1>2. /\ Shifted \in Driver /\ SameSession(Shifted, js)
      /\ \A i \in 1 .. Len(Shifted.signalQueue) : Shifted.signalQueue[i] # "start"
      /\ js.pc = None
  BY <1>1, ShiftedFacts
<1>3. js.ws \in Sockets /\ js.ws # None /\ js.isProcessingSignal
  BY <1>1, QueueFilled, SocketsFact DEF SInv, OneCall
<1>4. c \in Peer /\ n \in Nat /\ n # None /\ pcs \in Seq(Peer) /\ Len(pcs) \in Nat
  BY <1>3 DEF SInv, Typed, Peer, None
<1>5. /\ pcs' \in Seq(Peer) /\ Len(pcs') = n /\ pcs'[n] = c
      /\ \A k \in 1 .. Len(pcs) : pcs'[k] = pcs[k]
  BY <1>4 DEF HandleStart
<1>6. /\ js' \in Driver /\ js'.pc = n /\ js'.ws = js.ws /\ js'.connected /\ js'.timer = js.timer
      /\ js'.isProcessingSignal /\ js'.remoteDescriptionSet = js.remoteDescriptionSet
      /\ js'.signalQueue = Shifted.signalQueue
  BY <1>2, <1>3, <1>4 DEF HandleStart, Driver, SameSession
<1>7. /\ procs' \in [Procs -> Call]
      /\ procs'[p].at \in Awaiting /\ procs'[p].pc = n
      /\ \A q \in Procs : q # p => procs'[q] = procs[q]
  <2>1. Await(p, "createOffer", n, "none") /\ "createOffer" \in Awaiting
    BY DEF HandleStart, Awaiting
  <2> QED BY <1>4, <2>1, AwaitFacts DEF SInv
<1> HIDE DEF n, c
<1>8. Typed'
  BY <1>4, <1>5, <1>6, <1>7 DEF SInv, Typed, HandleStart, n
<1>9. Held'
  <2>1. \A k \in 1 .. n : pcs'[k].open <=> k = n
    BY <1>2, <1>4, <1>5 DEF SInv, Held, n, c, None
  <2>2. pcs'[n].socket = js.ws
    BY <1>5 DEF c
  <2> QED BY <1>3, <1>4, <1>5, <1>6, <2>1, <2>2 DEF SInv, Held, HandleStart
<1>10. StartsOnce'
  BY <1>1, <1>2, <1>6, QueueFilled DEF SInv, StartsOnce, HandleStart
<1>11. OneCall'
  BY <1>1, <1>2, <1>4, <1>6, <1>7 DEF SInv, OneCall, Quiescent, Awaiting
<1>12. Session'
  <2>1. \A k \in 1 .. n : ~pcs'[k].early
    BY <1>4, <1>5 DEF SInv, Session, n, c
  <2>2. ~js.remoteDescriptionSet
    BY <1>2 DEF SInv, Session
  <2>3. ASSUME NEW s \in Sockets, NEW i \in 1 .. Len(toServer[s])
        PROVE  toServer[s][i].pc \in 1 .. n /\ pcs'[toServer[s][i].pc].socket = s
    <3>1. /\ toServer[s][i].pc \in 1 .. Len(pcs)
          /\ pcs[toServer[s][i].pc].socket = s
      BY DEF SInv, Session
    <3> QED BY <3>1, <1>4, <1>5 DEF n
  <2> QED BY <1>5, <1>6, <2>1, <2>2, <2>3 DEF Session, HandleStart
<1> QED BY <1>8, <1>9, <1>10, <1>11, <1>12 DEF SInv

----------------------------------------------------------------------------
(* Letting go of the socket and of the connection, and opening anew.        *)

Live == {"connecting", "open", "failed", "over"}

\* A driver with nothing left of a session.
Released(d) ==
    /\ d \in Driver /\ d.pc = None /\ d.signalQueue = <<>>
    /\ ~d.isProcessingSignal /\ ~d.remoteDescriptionSet

\* What is let go: no socket stays open and no connection, and no call that awaits.
LEMMA DropFacts ==
    ASSUME SInv
    PROVE  /\ SocketLet \in [Sockets -> {"none", "connecting", "open", "failed", "over", "closed"}]
           /\ \A s \in Sockets : SocketLet[s] \notin Live /\ (SocketLet[s] = "none" => sock[s] = "none")
           /\ Unsent \in [Sockets -> Seq(Signals \cup {"start"})]
           /\ \A s \in Sockets : Unsent[s] = <<>> \/ (Unsent[s] = toClient[s] /\ s # js.ws)
           /\ PcLet \in Seq(Peer) /\ Len(PcLet) = Len(pcs)
           /\ \A c \in 1 .. Len(pcs) : /\ ~PcLet[c].open /\ PcLet[c].socket = pcs[c].socket
                                       /\ PcLet[c].early = pcs[c].early
           /\ Stranded \in [Procs -> Call]
           /\ \A p \in Procs : /\ Stranded[p].at \in {"idle", "loop"}
                               /\ Stranded[p].at = "loop" => procs[p].at = "loop"
<1>1. /\ SocketLet \in [Sockets -> {"none", "connecting", "open", "failed", "over", "closed"}]
      /\ \A s \in Sockets : SocketLet[s] \notin Live /\ (SocketLet[s] = "none" => sock[s] = "none")
  BY DEF SInv, Typed, Held, SocketLet, Live
<1>2. /\ Unsent \in [Sockets -> Seq(Signals \cup {"start"})]
      /\ \A s \in Sockets : Unsent[s] = <<>> \/ (Unsent[s] = toClient[s] /\ s # js.ws)
  BY DEF SInv, Typed, Unsent
<1>3. /\ PcLet \in Seq(Peer) /\ Len(PcLet) = Len(pcs)
      /\ \A c \in 1 .. Len(pcs) : /\ ~PcLet[c].open /\ PcLet[c].socket = pcs[c].socket
                                  /\ PcLet[c].early = pcs[c].early
  <2>1. pcs \in Seq(Peer) /\ \A c \in 1 .. Len(pcs) : pcs[c].open <=> c = js.pc
    BY DEF SInv, Typed, Held
  <2>2. PcLet = [c \in 1 .. Len(pcs) |-> IF c = js.pc
                    THEN [pcs[c] EXCEPT !.open = FALSE, !.remote = FALSE, !.ice = FALSE] ELSE pcs[c]]
    BY <2>1 DEF PcLet
  <2>3. ASSUME NEW c \in 1 .. Len(pcs)
        PROVE  /\ PcLet[c] \in Peer /\ ~PcLet[c].open
               /\ PcLet[c].socket = pcs[c].socket /\ PcLet[c].early = pcs[c].early
    <3>1. pcs[c] \in Peer /\ (pcs[c].open <=> c = js.pc)
      BY <2>1
    <3>2. CASE c = js.pc
      BY <2>2, <3>1, <3>2 DEF Peer
    <3>3. CASE c # js.pc
      BY <2>2, <3>1, <3>3
    <3> QED BY <3>2, <3>3
  <2>4. Len(pcs) \in Nat
    BY <2>1
  <2>5. PcLet \in Seq(Peer) /\ Len(PcLet) = Len(pcs)
    <3>1. PcLet \in [1 .. Len(pcs) -> Peer] /\ DOMAIN PcLet = 1 .. Len(pcs)
      BY <2>2, <2>3
    <3>2. PcLet \in Seq(Peer)
      BY <2>4, <3>1, SeqDef
    <3> QED BY <2>4, <3>1, <3>2
  <2> QED BY <2>3, <2>5
<1>4. /\ Stranded \in [Procs -> Call]
      /\ \A p \in Procs : /\ Stranded[p].at \in {"idle", "loop"}
                          /\ Stranded[p].at = "loop" => procs[p].at = "loop"
  <2>1. NoCall \in Call /\ NoCall.at = "idle"
    BY DEF NoCall, Call, None
  <2>2. procs \in [Procs -> Call] /\ \A p \in Procs : procs[p].at \in Awaiting => procs[p].pc = js.pc
    BY DEF SInv, Typed, OneCall
  <2>3. \A p \in Procs : procs[p].at \in Awaiting \cup {"idle", "loop"}
    BY <2>2 DEF Call
  <2> QED BY <2>1, <2>2, <2>3 DEF Stranded
<1> QED BY <1>1, <1>2, <1>3, <1>4

\* What was sent stays with its session when the connections are closed.
LEMMA SessionLet ==
    ASSUME SInv, pcs' = PcLet, toServer' = toServer, Released(js')
    PROVE  Session'
<1>1. /\ Len(PcLet) = Len(pcs)
      /\ \A c \in 1 .. Len(pcs) : PcLet[c].socket = pcs[c].socket /\ PcLet[c].early = pcs[c].early
  BY DropFacts
<1> QED BY <1>1 DEF SInv, Session, Released

\* The driver lets go and keeps nothing.
LEMMA LetGo ==
    ASSUME SInv, Drop, UNCHANGED <<toServer, gw>>, Released(js'), js'.ws = None,
           ~js'.connected => ~js'.timer
    PROVE  SInv'
<1>1. Typed'
  BY DropFacts DEF SInv, Typed, Drop, Released, None
<1>2. Held'
  BY DropFacts DEF Held, Drop, Released, Live, None, SInv, Typed
<1>3. StartsOnce'
  BY DropFacts DEF SInv, StartsOnce, Drop, Released, Live
<1>4. OneCall'
  <2>1. procs' = Stranded /\ ~js'.isProcessingSignal /\ js'.signalQueue = <<>>
    BY DEF Drop, Released
  <2>2. \A p \in Procs : /\ Stranded[p].at \in {"idle", "loop"}
                         /\ Stranded[p].at = "loop" => procs[p].at = "loop"
    BY DropFacts
  <2> QED BY <2>1, <2>2 DEF SInv, OneCall, Quiescent, Awaiting
<1>5. Session'
  BY SessionLet DEF Drop
<1> QED BY <1>1, <1>2, <1>3, <1>4, <1>5 DEF SInv

\* The driver lets go and opens a new socket.
LEMMA ConnectKeeps ==
    ASSUME SInv, NEW d, Released(d), d.connected, Quiescent, Connect(d), UNCHANGED <<toServer, gw>>
    PROVE  SInv'
<1>1. PICK s \in Sockets : /\ sock[s] = "none" /\ sock' = [SocketLet EXCEPT ![s] = "connecting"]
                           /\ js' = [d EXCEPT !.ws = s, !.timer = FALSE]
  BY DEF Connect
<1>2. pcs' = PcLet /\ toClient' = Unsent /\ procs' = Stranded
  BY DEF Connect
<1>3. Released(js') /\ js'.ws = s /\ js'.connected
  BY <1>1 DEF Released, Driver
<1>4. /\ sock' \in [Sockets -> {"none", "connecting", "open", "failed", "over", "closed"}]
      /\ sock'[s] = "connecting" /\ \A t \in Sockets : t # s => sock'[t] = SocketLet[t]
  BY <1>1, DropFacts
<1>5. gw[s].stage = "none" /\ Unsent[s] = <<>>
  BY <1>1, DropFacts DEF SInv, StartsOnce
<1>6. Typed'
  BY <1>2, <1>3, <1>4, DropFacts DEF SInv, Typed, Released, None
<1>7. Held'
  <2>1. \A t \in Sockets : sock'[t] \in {"connecting", "open", "failed", "over"} => t = s
    BY <1>4, DropFacts DEF Live
  <2>2. js'.pc = None /\ js'.ws = s /\ js'.connected /\ s # None /\ js'.signalQueue = <<>>
    BY <1>3, SocketsFact DEF Released
  <2>3. \A c \in 1 .. Len(PcLet) : ~PcLet[c].open /\ c # None
    <3>1. \A c \in 1 .. Len(pcs) : c # None
      BY DEF None
    <3> QED BY <3>1, DropFacts
  <2> QED BY <1>2, <2>1, <2>2, <2>3 DEF Held
<1>8. StartsOnce'
  <2>1. ASSUME NEW t \in Sockets
        PROVE  /\ sock'[t] \in {"none", "connecting"} => gw[t].stage = "none"
               /\ gw[t].stage \in {"none", "request"} => Unsent[t] = <<>> /\ gw[t].reader = "none"
               /\ \A i \in 1 .. Len(Unsent[t]) : Unsent[t][i] = "start" => i = 1
    <3>1. CASE t = s
      BY <1>1, <1>4, <1>5, <3>1 DEF SInv, StartsOnce
    <3>2. CASE t # s
      <4>1. sock'[t] \in {"none", "connecting"} => sock[t] = "none"
        BY <1>4, <3>2, DropFacts DEF Live
      <4>2. Unsent[t] = <<>> \/ Unsent[t] = toClient[t]
        BY DropFacts
      <4> QED BY <4>1, <4>2 DEF SInv, StartsOnce
    <3> QED BY <3>1, <3>2
  <2> QED BY <1>2, <1>3, <2>1 DEF StartsOnce, Released
<1>9. OneCall'
  BY <1>2, <1>3, DropFacts DEF SInv, OneCall, Released, Quiescent, Awaiting
<1>10. Session'
  BY <1>2, <1>3, SessionLet
<1> QED BY <1>6, <1>7, <1>8, <1>9, <1>10 DEF SInv


\* The driver after it has disconnected, and after what precedes a new socket.
LEMMA DisconnectFacts ==
    ASSUME SInv
    PROVE  /\ Released(Disconnect(js)) /\ Disconnect(js).ws = None
           /\ ~Disconnect(js).connected /\ ~Disconnect(js).timer
           /\ Released(DisconnectState(js)) /\ DisconnectState(js).connected = js.connected
           /\ Released([Disconnect(js) EXCEPT !.connected = TRUE, !.view = "connecting"])
           /\ [Disconnect(js) EXCEPT !.connected = TRUE, !.view = "connecting"].connected
<1>1. js \in Driver /\ <<>> \in Seq(Signals \cup {"start"})
  BY DEF SInv, Typed
<1>2. Released(DisconnectState(js)) /\ DisconnectState(js).ws = None /\ DisconnectState(js).connected = js.connected
  BY <1>1 DEF DisconnectState, Released, Driver, None
<1>3. /\ Released(Disconnect(js)) /\ Disconnect(js).ws = None
      /\ ~Disconnect(js).connected /\ ~Disconnect(js).timer
  BY <1>2 DEF Disconnect, Released, Driver
<1> QED BY <1>2, <1>3 DEF Released, Driver

----------------------------------------------------------------------------
(* The steps of the user, of the timer and of the socket.                   *)

LEMMA StartStreamKeeps == ASSUME SInv, StartStream PROVE SInv'
<1> DEFINE d == [Disconnect(js) EXCEPT !.connected = TRUE, !.view = "connecting"]
<1>1. Released(d) /\ d.connected
  BY DisconnectFacts
<1>2. Connect(d) /\ Quiescent /\ UNCHANGED <<toServer, gw>>
  BY DEF StartStream
<1> HIDE DEF d
<1> QED BY <1>1, <1>2, ConnectKeeps

LEMMA ReconnectTimerKeeps == ASSUME SInv, ReconnectTimer PROVE SInv'
<1>1. Released(DisconnectState(js)) /\ DisconnectState(js).connected
  BY DisconnectFacts DEF ReconnectTimer, SInv, Held
<1>2. Connect(DisconnectState(js)) /\ Quiescent /\ UNCHANGED <<toServer, gw>>
  BY DEF ReconnectTimer
<1> QED BY <1>1, <1>2, ConnectKeeps

\* The driver disconnects: when the view goes, at a "bye", and when the connection is lost.
LEMMA DisconnectKeeps ==
    ASSUME SInv, Drop, js' = Disconnect(js), UNCHANGED <<toServer, gw>> PROVE SInv'
  BY DisconnectFacts, LetGo

\* A socket that fails or closes: the driver waits for the timer, or disconnects.
LEMMA SocketLostKeeps ==
    ASSUME SInv, NEW s \in Sockets, s = js.ws, sock[s] \in Live, NEW x \in {"failed", "over"},
           IF js.connected THEN QueueReconnect ELSE Drop /\ js' = Disconnect(js),
           js'.ws = s => sock' = [sock EXCEPT ![s] = x], UNCHANGED <<toServer, gw>>
    PROVE  SInv'
<1>1. CASE Drop /\ js' = Disconnect(js)
  BY <1>1, DisconnectKeeps
<1>2. CASE ~(Drop /\ js' = Disconnect(js))
  <2>1. js.connected /\ js' \in {js, Retry(js)} /\ UNCHANGED <<pcs, toClient, procs>>
    BY <1>2 DEF QueueReconnect
  <2>2. /\ js' \in Driver /\ js'.ws = js.ws /\ js'.pc = js.pc /\ js'.connected
        /\ js'.isProcessingSignal = js.isProcessingSignal
        /\ js'.remoteDescriptionSet = js.remoteDescriptionSet /\ js'.signalQueue = js.signalQueue
    <3> DEFINE r == Retry(js)
    <3>1. js \in Driver
      BY DEF SInv, Typed
    <3>2. /\ r \in Driver /\ r.ws = js.ws /\ r.pc = js.pc /\ r.connected = js.connected
          /\ r.isProcessingSignal = js.isProcessingSignal
          /\ r.remoteDescriptionSet = js.remoteDescriptionSet /\ r.signalQueue = js.signalQueue
      <4>1. js.reconnectAttempts + 1 \in Nat
        BY <3>1 DEF Driver
      <4>2. r = [js EXCEPT !.reconnectAttempts = js.reconnectAttempts + 1, !.timer = TRUE]
        BY DEF Retry
      <4> HIDE DEF r
      <4> QED BY <3>1, <4>1, <4>2 DEF Driver
    <3> HIDE DEF r
    <3>3. js' = js \/ js' = r
      BY <2>1 DEF r
    <3> QED BY <2>1, <3>1, <3>2, <3>3
  <2>3. /\ sock' \in [Sockets -> {"none", "connecting", "open", "failed", "over", "closed"}]
        /\ sock'[s] = x /\ \A t \in Sockets : t # s => sock'[t] = sock[t]
    BY <2>2 DEF SInv, Typed
  <2>4. Typed'
    BY <2>1, <2>2, <2>3 DEF SInv, Typed
  <2>5. Held'
    BY <2>1, <2>2, <2>3 DEF SInv, Held
  <2>6. StartsOnce'
    BY <2>1, <2>2, <2>3 DEF SInv, StartsOnce, Live
  <2>7. OneCall'
    BY <2>1, <2>2 DEF SInv, OneCall, Quiescent
  <2>8. Session'
    BY <2>1, <2>2 DEF SInv, Session
  <2> QED BY <2>4, <2>5, <2>6, <2>7, <2>8 DEF SInv
<1> QED BY <1>1, <1>2

LEMMA HandleWsErrorKeeps == ASSUME SInv, NEW s \in Sockets, HandleWsError(s) PROVE SInv'
<1>1. s = js.ws /\ sock[s] \in Live /\ UNCHANGED <<toServer, gw>>
  BY DEF HandleWsError, Live
<1>2. IF js.connected THEN QueueReconnect ELSE Drop /\ js' = Disconnect(js)
  BY DEF HandleWsError
<1>3. js'.ws = s => sock' = [sock EXCEPT ![s] = "failed"]
  BY DEF HandleWsError
<1> QED BY <1>1, <1>2, <1>3, SocketLostKeeps

LEMMA HandleWsCloseKeeps == ASSUME SInv, NEW s \in Sockets, HandleWsClose(s) PROVE SInv'
<1>1. s = js.ws /\ sock[s] \in Live /\ UNCHANGED <<toServer, gw>>
  BY DEF HandleWsClose, Live
<1>2. IF js.connected THEN QueueReconnect ELSE Drop /\ js' = Disconnect(js)
  BY DEF HandleWsClose
<1>3. js'.ws = s => sock' = [sock EXCEPT ![s] = "over"]
  BY DEF HandleWsClose
<1> QED BY <1>1, <1>2, <1>3, SocketLostKeeps

\* A message is queued; the first one starts the loop, no call being under way.
LEMMA HandleWsMessageKeeps == ASSUME SInv, NEW s \in Sockets, HandleWsMessage(s) PROVE SInv'
<1> DEFINE q == js.signalQueue
           m == Head(toClient[s])
<1>1. /\ s = js.ws /\ toClient[s] # <<>> /\ Quiescent /\ UNCHANGED <<sock, toServer, pcs, gw>>
      /\ js' = [js EXCEPT !.signalQueue = Append(q, m), !.isProcessingSignal = TRUE]
      /\ toClient' = [toClient EXCEPT ![s] = Tail(toClient[s])]
  BY DEF HandleWsMessage
<1>2. /\ toClient[s] \in Seq(Signals \cup {"start"}) /\ q \in Seq(Signals \cup {"start"})
      /\ \A i \in 1 .. Len(toClient[s]) : toClient[s][i] = "start" => i = 1
      /\ \A i \in 1 .. Len(q) : q[i] = "start" => i = 1
  BY DEF SInv, Typed, StartsOnce, Driver
<1>3. /\ m \in Signals \cup {"start"} /\ Tail(toClient[s]) \in Seq(Signals \cup {"start"})
      /\ \A i \in 1 .. Len(Tail(toClient[s])) : Tail(toClient[s])[i] # "start"
  BY <1>1, <1>2, Taken
<1>4. m = "start" => js.pc = None /\ q = <<>>
  BY <1>1, <1>2 DEF SInv, StartsOnce
<1>5. /\ Append(q, m) \in Seq(Signals \cup {"start"})
      /\ \A i \in 1 .. Len(Append(q, m)) : Append(q, m)[i] = "start" => i = 1
      /\ Append(q, m)[1] = "start" => m = "start" \/ (q # <<>> /\ q[1] = "start")
  BY <1>2, <1>3, <1>4, Put
<1>6. gw[s].stage \notin {"none", "request"}
  BY <1>1 DEF SInv, StartsOnce
<1>7. /\ js' \in Driver /\ js'.ws = s /\ js'.pc = js.pc /\ js'.connected = js.connected /\ js'.timer = js.timer
      /\ js'.isProcessingSignal /\ js'.remoteDescriptionSet = js.remoteDescriptionSet
      /\ js'.signalQueue = Append(q, m)
  BY <1>1, <1>5 DEF SInv, Typed, Driver
<1>8. /\ toClient' \in [Sockets -> Seq(Signals \cup {"start"})]
      /\ toClient'[s] = Tail(toClient[s])
      /\ \A t \in Sockets : t # s => toClient'[t] = toClient[t]
  BY <1>1, <1>3 DEF SInv, Typed
<1>9. PICK p \in Procs : /\ procs' \in [Procs -> Call] /\ procs'[p].pc = procs[p].pc
                         /\ procs'[p].at = IF js.isProcessingSignal THEN procs[p].at ELSE "loop"
                         /\ \A r \in Procs : r # p => procs'[r] = procs[r]
  <2>1. CASE js.isProcessingSignal
    BY <2>1 DEF HandleWsMessage, Busy, SInv, Typed, Procs
  <2>2. CASE ~js.isProcessingSignal
    <3>1. PICK r \in Procs : procs' = [procs EXCEPT ![r].at = "loop"]
      BY <2>2 DEF HandleWsMessage, Busy
    <3>2. procs \in [Procs -> Call] /\ procs[r] \in Call
      BY DEF SInv, Typed
    <3> QED BY <2>2, <3>1, <3>2 DEF Call
  <2> QED BY <2>1, <2>2
<1> HIDE DEF q, m
<1>10. Typed'
  BY <1>1, <1>7, <1>8, <1>9 DEF SInv, Typed
<1>11. Held'
  BY <1>1, <1>7, SocketsFact DEF SInv, Held
<1>12. StartsOnce'
  BY <1>1, <1>2, <1>3, <1>4, <1>5, <1>6, <1>7, <1>8 DEF SInv, StartsOnce, q
<1>13. OneCall'
  BY <1>1, <1>7, <1>9 DEF SInv, OneCall, Quiescent, Awaiting
<1>14. Session'
  BY <1>1, <1>7 DEF SInv, Session
<1> QED BY <1>10, <1>11, <1>12, <1>13, <1>14 DEF SInv


----------------------------------------------------------------------------
(* The answers of the connection.                                           *)

\* A call that awaits does so on the driver's connection, with the flag set.
LEMMA Waiting ==
    ASSUME SInv, Quiescent, NEW p \in Procs, procs[p].at \in Awaiting
    PROVE  /\ js.pc \in 1 .. Len(pcs) /\ js.pc # None /\ procs[p].pc = js.pc
           /\ js.isProcessingSignal /\ procs[p] \in Call
<1>1. procs[p].at # "idle"
  BY DEF Awaiting
<1> QED BY <1>1 DEF SInv, Typed, OneCall, None

\* The call goes on, or awaits again on the same connection: it stays the only one.
LEMMA GoesOn ==
    ASSUME SInv, Quiescent, NEW p \in Procs, procs[p].at \in Awaiting,
           NEW what \in Awaiting \cup {"loop"}, NEW on \in {None, js.pc}, NEW sdp \in {"none", "offer", "answer"},
           what \in Awaiting => on = js.pc,
           Await(p, what, on, sdp), js'.pc = js.pc, js'.isProcessingSignal = js.isProcessingSignal
    PROVE  OneCall' /\ procs' \in [Procs -> Call]
<1>1. js.pc # None /\ js.isProcessingSignal /\ js.pc \in Nat
  BY Waiting DEF SInv, Typed, Driver
<1>2. /\ procs' \in [Procs -> Call] /\ procs'[p].at = what /\ procs'[p].pc = on
      /\ \A q \in Procs : q # p => procs'[q] = procs[q]
  BY <1>1, AwaitFacts DEF SInv, None
<1>3. procs[p].at # "idle" /\ what # "idle"
  BY DEF Awaiting
<1> QED BY <1>1, <1>2, <1>3 DEF SInv, OneCall, Quiescent

\* What the driver sends is of the connection of the socket's session.
LEMMA SendFacts ==
    ASSUME SInv, js.pc # None, NEW type \in {"offer", "answer", "candidate"},
           SendJsep([type |-> type, pc |-> js.pc])
    PROVE  /\ toServer' \in [Sockets -> Seq(Message)]
           /\ \A s \in Sockets : \A i \in 1 .. Len(toServer'[s]) :
                 toServer'[s][i].pc \in 1 .. Len(pcs) /\ pcs[toServer'[s][i].pc].socket = s
<1> DEFINE m == [type |-> type, pc |-> js.pc]
           w == js.ws
<1>1. /\ m \in Message /\ m.pc = js.pc /\ js.pc \in 1 .. Len(pcs) /\ w \in Sockets
      /\ pcs[js.pc].socket = w /\ toServer \in [Sockets -> Seq(Message)]
  BY DEF SInv, Typed, Held, Driver, Message, None
<1>2. \A s \in Sockets : \A i \in 1 .. Len(toServer[s]) :
         toServer[s][i].pc \in 1 .. Len(pcs) /\ pcs[toServer[s][i].pc].socket = s
  BY DEF SInv, Session
<1>3. toServer' = toServer \/ toServer' = [toServer EXCEPT ![w] = Append(toServer[w], m)]
  BY DEF SendJsep
<1> HIDE DEF m, w
<1>4. /\ Append(toServer[w], m) \in Seq(Message) /\ Len(Append(toServer[w], m)) = Len(toServer[w]) + 1
      /\ \A i \in 1 .. Len(toServer[w]) : Append(toServer[w], m)[i] = toServer[w][i]
      /\ Append(toServer[w], m)[Len(toServer[w]) + 1] = m /\ Len(toServer[w]) \in Nat
  BY <1>1
<1>5. \A i \in 1 .. Len(Append(toServer[w], m)) :
         /\ Append(toServer[w], m)[i].pc \in 1 .. Len(pcs)
         /\ pcs[Append(toServer[w], m)[i].pc].socket = w
  BY <1>1, <1>2, <1>4
<1>6. CASE toServer' = toServer
  BY <1>1, <1>2, <1>6
<1>7. CASE toServer' = [toServer EXCEPT ![w] = Append(toServer[w], m)]
  BY <1>1, <1>2, <1>4, <1>5, <1>7
<1> QED BY <1>3, <1>6, <1>7

\* An offer or an answer is there: it is set on the same connection.
LEMMA DescriptionCreatedKeeps == ASSUME SInv, NEW p \in Procs, DescriptionCreated(p) PROVE SInv'
<1>1. PICK what \in {"createOffer", "createAnswer"}, next \in {"localOffer", "localAnswer"} :
         Settles(p, what) /\ IF js.pc = None THEN Go(p) ELSE Await(p, next, js.pc, procs[p].sdp)
  BY DEF DescriptionCreated
<1>2. Quiescent /\ procs[p].at \in Awaiting /\ next \in Awaiting
  BY <1>1 DEF Settles, Awaiting
<1>3. js.pc # None /\ procs[p].sdp \in {"none", "offer", "answer"}
  BY <1>2, Waiting DEF Call
<1>4. UNCHANGED <<js, sock, toClient, toServer, pcs, gw>>
  BY DEF DescriptionCreated
<1>5. OneCall' /\ procs' \in [Procs -> Call]
  BY <1>1, <1>2, <1>3, <1>4, GoesOn
<1> QED BY <1>4, <1>5 DEF SInv, Typed, Held, StartsOnce, Session

\* The local description is set: it is sent on the socket of the session.
LEMMA LocalDescriptionSetKeeps == ASSUME SInv, NEW p \in Procs, LocalDescriptionSet(p) PROVE SInv'
<1>1. PICK what \in {"localOffer", "localAnswer"}, type \in {"offer", "answer"} :
         /\ Settles(p, what)
         /\ IF js.pc = None THEN UNCHANGED toServer ELSE SendJsep([type |-> type, pc |-> procs[p].pc])
  BY DEF LocalDescriptionSet
<1>2. Quiescent /\ procs[p].at \in Awaiting
  BY <1>1 DEF Settles, Awaiting
<1>3. js.pc # None /\ procs[p].pc = js.pc
  BY <1>2, Waiting
<1>4. Await(p, "loop", None, "none") /\ UNCHANGED <<js, sock, toClient, pcs, gw>>
  BY DEF LocalDescriptionSet, Go
<1>5. OneCall' /\ procs' \in [Procs -> Call]
  BY <1>2, <1>4, GoesOn DEF Awaiting
<1>6. SendJsep([type |-> type, pc |-> js.pc])
  BY <1>1, <1>3
<1>7. /\ toServer' \in [Sockets -> Seq(Message)]
      /\ \A s \in Sockets : \A i \in 1 .. Len(toServer'[s]) :
            toServer'[s][i].pc \in 1 .. Len(pcs) /\ pcs[toServer'[s][i].pc].socket = s
  BY <1>3, <1>6, SendFacts
<1> QED BY <1>4, <1>5, <1>7 DEF SInv, Typed, Held, StartsOnce, Session

LEMMA OperationFailsKeeps == ASSUME SInv, NEW p \in Procs, OperationFails(p) PROVE SInv'
<1>1. Quiescent /\ procs[p].at \in Awaiting
  BY DEF OperationFails, Settles
<1>2. Await(p, "loop", None, "none") /\ UNCHANGED <<js, sock, toClient, toServer, pcs, gw>>
  BY DEF OperationFails, Go
<1>3. OneCall' /\ procs' \in [Procs -> Call]
  BY <1>1, <1>2, GoesOn DEF Awaiting
<1> QED BY <1>2, <1>3 DEF SInv, Typed, Held, StartsOnce, Session

\* The remote description is set: the candidates that waited are given after it.
LEMMA RemoteDescriptionSetKeeps == ASSUME SInv, NEW p \in Procs, RemoteDescriptionSet(p) PROVE SInv'
<1> DEFINE c == js.pc
           done == [pcs EXCEPT ![c].remote = TRUE]
<1>1. Quiescent /\ procs[p].at \in Awaiting
  BY DEF RemoteDescriptionSet, Settles, Awaiting
<1>2. c \in 1 .. Len(pcs) /\ c # None /\ procs[p].pc = c /\ pcs \in Seq(Peer)
  BY <1>1, Waiting DEF SInv, Typed
<1>3. /\ js' = [js EXCEPT !.remoteDescriptionSet = TRUE, !.pendingCandidates = 0]
      /\ pcs' = [done EXCEPT ![c].early = @ \/ (js.pendingCandidates > 0 /\ ~done[c].remote)]
      /\ (Await(p, "createAnswer", c, "offer") \/ Await(p, "loop", None, "none"))
      /\ UNCHANGED <<sock, toClient, toServer, gw>>
  BY <1>2 DEF RemoteDescriptionSet, Go
<1>4. /\ js' \in Driver /\ js'.pc = c /\ js'.ws = js.ws /\ js'.connected = js.connected /\ js'.timer = js.timer
      /\ js'.isProcessingSignal = js.isProcessingSignal /\ js'.signalQueue = js.signalQueue
  BY <1>3 DEF SInv, Typed, Driver
<1>5. PICK v : /\ v \in Peer /\ v.remote /\ ~v.early /\ v.open = pcs[c].open /\ v.socket = pcs[c].socket
               /\ pcs' = [pcs EXCEPT ![c] = v]
  <2> DEFINE r == [pcs[c] EXCEPT !.remote = TRUE]
             e == r.early \/ (js.pendingCandidates > 0 /\ ~r.remote)
  <2>1. pcs[c] \in Peer /\ ~pcs[c].early
    BY <1>2 DEF SInv, Session
  <2>2. r \in Peer /\ r.remote /\ ~r.early /\ r.open = pcs[c].open /\ r.socket = pcs[c].socket
    BY <2>1 DEF Peer
  <2>3. done[c] = r /\ pcs' = [done EXCEPT ![c] = [r EXCEPT !.early = e]]
    <3>1. done[c] = r
      <4>1. c \in DOMAIN pcs
        BY <1>2
      <4> QED BY <4>1, Zenon
    <3>2. pcs' = [done EXCEPT ![c] = [done[c] EXCEPT
                     !.early = done[c].early \/ (js.pendingCandidates > 0 /\ ~done[c].remote)]]
      BY <1>3
    <3> HIDE DEF done, r
    <3> QED BY <3>1, <3>2
  <2> DEFINE w == [r EXCEPT !.early = e]
  <2>4. w \in Peer /\ w.remote /\ ~w.early /\ w.open = r.open /\ w.socket = r.socket
    BY <2>2 DEF Peer
  <2> HIDE DEF w, r
  <2>5. pcs' = [pcs EXCEPT ![c] = w]
    BY <1>2, <2>3 DEF w
  <2> QED BY <2>2, <2>4, <2>5
<1>7. /\ pcs' \in Seq(Peer) /\ Len(pcs') = Len(pcs)
      /\ \A k \in 1 .. Len(pcs) : k # c => pcs'[k] = pcs[k]
      /\ pcs'[c].remote /\ pcs'[c].open = pcs[c].open /\ pcs'[c].socket = pcs[c].socket /\ ~pcs'[c].early
  BY <1>2, <1>5, Replaced
<1>8. OneCall' /\ procs' \in [Procs -> Call]
  <2>1. CASE Await(p, "createAnswer", c, "offer")
    BY <1>1, <1>4, <2>1, GoesOn DEF Awaiting
  <2>2. CASE Await(p, "loop", None, "none")
    BY <1>1, <1>4, <2>2, GoesOn DEF Awaiting
  <2> QED BY <1>3, <2>1, <2>2
<1>9. Typed'
  BY <1>3, <1>4, <1>7, <1>8 DEF SInv, Typed
<1>10. \A k \in 1 .. Len(pcs) : pcs'[k].open = pcs[k].open /\ pcs'[k].socket = pcs[k].socket
  BY <1>7
<1>11. Held'
  BY <1>2, <1>3, <1>4, <1>7, <1>10 DEF SInv, Held
<1>12. StartsOnce'
  BY <1>3, <1>4 DEF SInv, StartsOnce
<1>13. Session'
  <2>1. \A s \in Sockets : \A i \in 1 .. Len(toServer'[s]) :
           toServer'[s][i].pc \in 1 .. Len(pcs') /\ pcs'[toServer'[s][i].pc].socket = s
    BY <1>3, <1>7, <1>10 DEF SInv, Session
  <2>2. \A k \in 1 .. Len(pcs') : ~pcs'[k].early
    BY <1>7 DEF SInv, Session
  <2> QED BY <1>2, <1>4, <1>7, <2>1, <2>2 DEF Session
<1> QED BY <1>8, <1>9, <1>11, <1>12, <1>13 DEF SInv


----------------------------------------------------------------------------
(* The events of the connection, and the steps of the gateway.              *)

LEMMA PeerTrackKeeps == ASSUME SInv, PeerTrack PROVE SInv'
<1>1. /\ js' \in Driver /\ SameSession(js', js) /\ js'.signalQueue = js.signalQueue
      /\ UNCHANGED <<procs, sock, toClient, toServer, pcs, gw>>
  BY DEF PeerTrack, SInv, Typed, Driver, SameSession
<1> QED BY <1>1 DEF SInv, Typed, Held, StartsOnce, OneCall, Session, SameSession, Quiescent

LEMMA PeerIceCandidateKeeps == ASSUME SInv, PeerIceCandidate PROVE SInv'
<1> DEFINE c == js.pc
           v == [pcs[c] EXCEPT !.ice = TRUE]
<1>1. /\ c # None /\ SendJsep([type |-> "candidate", pc |-> c])
      /\ pcs' = [pcs EXCEPT ![c] = v] /\ UNCHANGED <<js, procs, sock, toClient, gw>>
  BY DEF PeerIceCandidate, PeerEvent
<1>2. c \in 1 .. Len(pcs) /\ pcs \in Seq(Peer) /\ pcs[c] \in Peer
  BY <1>1 DEF SInv, Typed, None
<1>3. /\ v \in Peer /\ v.open = pcs[c].open /\ v.socket = pcs[c].socket
      /\ v.remote = pcs[c].remote /\ v.early = pcs[c].early
  BY <1>2 DEF Peer
<1> HIDE DEF v
<1>4. /\ pcs' \in Seq(Peer) /\ Len(pcs') = Len(pcs) /\ pcs'[c] = v
      /\ \A k \in 1 .. Len(pcs) : k # c => pcs'[k] = pcs[k]
  BY <1>1, <1>2, <1>3, Replaced
<1>5. /\ toServer' \in [Sockets -> Seq(Message)]
      /\ \A s \in Sockets : \A i \in 1 .. Len(toServer'[s]) :
            toServer'[s][i].pc \in 1 .. Len(pcs) /\ pcs[toServer'[s][i].pc].socket = s
  BY <1>1, SendFacts
<1>6. Typed'
  BY <1>1, <1>4, <1>5 DEF SInv, Typed
<1>7. Held'
  BY <1>1, <1>2, <1>3, <1>4 DEF SInv, Held
<1>8. StartsOnce'
  BY <1>1 DEF SInv, StartsOnce
<1>9. OneCall'
  BY <1>1 DEF SInv, OneCall, Quiescent
<1>10. Session'
  BY <1>1, <1>2, <1>3, <1>4, <1>5 DEF SInv, Session
<1> QED BY <1>6, <1>7, <1>8, <1>9, <1>10 DEF SInv

\* The driver does not move with the gateway: what a step leaves to show.
LEMMA GatewayKeeps ==
    ASSUME SInv, NEW s \in Sockets, UNCHANGED <<js, procs, pcs>>,
           sock' = sock \/ (sock[s] = "connecting" /\ sock' = [sock EXCEPT ![s] = "open"]),
           toClient' \in [Sockets -> Seq(Signals \cup {"start"})],
           \A t \in Sockets : t # s => toClient'[t] = toClient[t] /\ gw'[t] = gw[t],
           gw' \in [Sockets -> Handler],
           toServer' = toServer \/ \E q : /\ toServer' = [toServer EXCEPT ![s] = q]
                                          /\ q = <<>> \/ (toServer[s] # <<>> /\ q = Tail(toServer[s])),
           sock'[s] # "connecting" \/ gw'[s] = gw[s],
           sock[s] # "none" \/ gw'[s] = gw[s],
           gw'[s].stage \in {"none", "request"} =>
               /\ toClient'[s] = toClient[s] /\ gw'[s].reader = gw[s].reader
               /\ gw[s].stage \in {"none", "request"},
           \A i \in 1 .. Len(toClient'[s]) : toClient'[s][i] = "start" =>
               i = 1 /\ (s = js.ws => js.pc = None /\ js.signalQueue = <<>>)
    PROVE  SInv'
<1>1. sock' \in [Sockets -> {"none", "connecting", "open", "failed", "over", "closed"}]
  BY DEF SInv, Typed
<1>2. /\ toServer' \in [Sockets -> Seq(Message)]
      /\ \A t \in Sockets : \A i \in 1 .. Len(toServer'[t]) :
            toServer'[t][i].pc \in 1 .. Len(pcs) /\ pcs[toServer'[t][i].pc].socket = t
  <2>1. /\ toServer \in [Sockets -> Seq(Message)]
        /\ \A t \in Sockets : \A i \in 1 .. Len(toServer[t]) :
              toServer[t][i].pc \in 1 .. Len(pcs) /\ pcs[toServer[t][i].pc].socket = t
    BY DEF SInv, Typed, Session
  <2>2. CASE toServer' = toServer
    BY <2>1, <2>2
  <2>3. ASSUME NEW q, toServer' = [toServer EXCEPT ![s] = q],
               q = <<>> \/ (toServer[s] # <<>> /\ q = Tail(toServer[s]))
        PROVE  /\ toServer' \in [Sockets -> Seq(Message)]
               /\ \A t \in Sockets : \A i \in 1 .. Len(toServer'[t]) :
                     toServer'[t][i].pc \in 1 .. Len(pcs) /\ pcs[toServer'[t][i].pc].socket = t
    <3>1. q \in Seq(Message) /\ \A i \in 1 .. Len(q) : q[i].pc \in 1 .. Len(pcs) /\ pcs[q[i].pc].socket = s
      <4>1. CASE q = <<>>
        BY <4>1
      <4>2. CASE toServer[s] # <<>> /\ q = Tail(toServer[s])
        <5> DEFINE o == toServer[s]
        <5>1. o \in Seq(Message) /\ o # <<>> /\ \A i \in 1 .. Len(o) : o[i].pc \in 1 .. Len(pcs) /\ pcs[o[i].pc].socket = s
          BY <2>1, <4>2
        <5> HIDE DEF o
        <5>2. q = Tail(o)
          BY <4>2 DEF o
        <5>3. q \in Seq(Message) /\ \A i \in 1 .. Len(q) : i + 1 \in 1 .. Len(o) /\ q[i] = o[i + 1]
          BY <5>1, <5>2
        <5>4. ASSUME NEW i \in 1 .. Len(q) PROVE q[i].pc \in 1 .. Len(pcs) /\ pcs[q[i].pc].socket = s
          <6>1. PICK j \in 1 .. Len(o) : q[i] = o[j]
            BY <5>3
          <6> QED BY <5>1, <6>1
        <5> QED BY <5>3, <5>4
      <4> QED BY <2>3, <4>1, <4>2
    <3> QED BY <2>1, <2>3, <3>1
  <2> QED BY <2>2, <2>3
<1>3. Typed'
  BY <1>1, <1>2 DEF SInv, Typed
<1>4. Held'
  BY DEF SInv, Typed, Held
<1>5. StartsOnce'
  <2>1. ASSUME NEW t \in Sockets
        PROVE  /\ sock'[t] \in {"none", "connecting"} => gw'[t].stage = "none"
               /\ gw'[t].stage \in {"none", "request"} => toClient'[t] = <<>> /\ gw'[t].reader = "none"
               /\ gw'[t].stage \in {"none", "request"} /\ t = js.ws => js.pc = None /\ js.signalQueue = <<>>
               /\ \A i \in 1 .. Len(toClient'[t]) : toClient'[t][i] = "start" =>
                      i = 1 /\ (t = js.ws => js.pc = None /\ js.signalQueue = <<>>)
    <3>1. sock'[t] \in {"none", "connecting"} => sock'[t] = sock[t]
      BY DEF SInv, Typed
    <3>2. sock[t] \in {"none", "connecting"} => gw[t].stage = "none"
      BY DEF SInv, StartsOnce
    <3>3. gw[t].stage \in {"none", "request"} => toClient[t] = <<>> /\ gw[t].reader = "none"
      BY DEF SInv, StartsOnce
    <3>4. gw[t].stage \in {"none", "request"} /\ t = js.ws => js.pc = None /\ js.signalQueue = <<>>
      BY DEF SInv, StartsOnce
    <3>5. \A i \in 1 .. Len(toClient[t]) : toClient[t][i] = "start" =>
             i = 1 /\ (t = js.ws => js.pc = None /\ js.signalQueue = <<>>)
      BY DEF SInv, StartsOnce
    <3> HIDE DEF SInv
    <3>6. CASE t = s
      BY <3>1, <3>2, <3>3, <3>4, <3>6
    <3>7. CASE t # s
      BY <3>1, <3>2, <3>3, <3>4, <3>5, <3>7
    <3> QED BY <3>6, <3>7
  <2> QED BY <2>1 DEF SInv, StartsOnce
<1>6. OneCall'
  BY DEF SInv, OneCall, Quiescent
<1>7. Session'
  BY <1>2 DEF SInv, Session
<1> QED BY <1>3, <1>4, <1>5, <1>6, <1>7 DEF SInv


\* The finally block of a handler whose session was requested.
LEMMA FinallyKeeps ==
    ASSUME SInv, NEW s \in Sockets, gw[s].stage \in {"request", "serving"}, Finally(s),
           UNCHANGED <<sock, toClient>>
    PROVE  SInv'
<1> DEFINE h == [stage |-> "done", reader |-> Cancelled(gw[s].reader)]
<1>1. /\ gw' = [gw EXCEPT ![s] = h] /\ toServer' = [toServer EXCEPT ![s] = <<>>]
      /\ UNCHANGED <<js, procs, pcs>>
  BY DEF Finally, Gw
<1>2. gw[s] \in Handler /\ gw \in [Sockets -> Handler] /\ toClient \in [Sockets -> Seq(Signals \cup {"start"})]
  BY DEF SInv, Typed
<1>3. h \in Handler /\ h.stage = "done"
  BY <1>2 DEF Handler, Cancelled
<1> HIDE DEF h
<1>4. gw' \in [Sockets -> Handler] /\ gw'[s] = h /\ \A t \in Sockets : t # s => gw'[t] = gw[t]
  BY <1>1, <1>2, <1>3
<1>5. sock[s] \notin {"none", "connecting"}
  BY DEF SInv, StartsOnce
<1>6. \A i \in 1 .. Len(toClient[s]) : toClient[s][i] = "start" =>
         i = 1 /\ (s = js.ws => js.pc = None /\ js.signalQueue = <<>>)
  BY DEF SInv, StartsOnce
<1>7. \E q : /\ toServer' = [toServer EXCEPT ![s] = q]
             /\ q = <<>> \/ (toServer[s] # <<>> /\ q = Tail(toServer[s]))
  BY <1>1
<1> QED BY <1>1, <1>2, <1>3, <1>4, <1>5, <1>6, <1>7, GatewayKeeps

\* What Deliver changes.
LEMMA DeliverFacts ==
    ASSUME SInv, NEW s \in Sockets, NEW m \in Signals \cup {"start"}, Deliver(s, m)
    PROVE  /\ toClient' \in [Sockets -> Seq(Signals \cup {"start"})]
           /\ \A t \in Sockets : t # s => toClient'[t] = toClient[t]
           /\ toClient'[s] = toClient[s] \/ toClient'[s] = Append(toClient[s], m)
<1> DEFINE q == Append(toClient[s], m)
<1>1. toClient \in [Sockets -> Seq(Signals \cup {"start"})]
  BY DEF SInv, Typed
<1>2. q \in Seq(Signals \cup {"start"})
  BY <1>1
<1>3. toClient' = toClient \/ toClient' = [toClient EXCEPT ![s] = q]
  BY DEF Deliver
<1> HIDE DEF q
<1> QED BY <1>1, <1>2, <1>3 DEF q

LEMMA GwAcceptKeeps == ASSUME SInv, NEW s \in Sockets, GwAccept(s) PROVE SInv'
<1>1. PICK stage \in {"request", "done"} :
         /\ sock[s] = "connecting" /\ sock' = [sock EXCEPT ![s] = "open"]
         /\ gw' = [gw EXCEPT ![s] = [gw[s] EXCEPT !.stage = stage]]
         /\ UNCHANGED <<js, procs, pcs, toClient, toServer>>
  BY DEF GwAccept, Gw
<1>2. /\ gw \in [Sockets -> Handler] /\ gw[s].stage = "none" /\ sock \in [Sockets -> {"none", "connecting", "open", "failed", "over", "closed"}]
      /\ toClient \in [Sockets -> Seq(Signals \cup {"start"})]
      /\ toClient[s] = <<>> /\ gw[s].reader = "none"
  BY <1>1 DEF SInv, Typed, StartsOnce
<1> DEFINE h == [gw[s] EXCEPT !.stage = stage]
<1>3. h \in Handler /\ h.stage = stage /\ h.reader = "none"
  BY <1>2 DEF Handler
<1> HIDE DEF h
<1>4. gw' \in [Sockets -> Handler] /\ gw'[s] = h /\ \A t \in Sockets : t # s => gw'[t] = gw[t]
  BY <1>1, <1>2, <1>3 DEF h
<1>5. sock'[s] = "open" /\ sock[s] # "none"
  BY <1>1, <1>2
<1>6. \A i \in 1 .. Len(toClient[s]) : toClient[s][i] = "start" =>
         i = 1 /\ (s = js.ws => js.pc = None /\ js.signalQueue = <<>>)
  BY DEF SInv, StartsOnce
<1>7. /\ sock' = sock \/ (sock[s] = "connecting" /\ sock' = [sock EXCEPT ![s] = "open"])
      /\ sock'[s] # "connecting" \/ gw'[s] = gw[s]
      /\ sock[s] # "none" \/ gw'[s] = gw[s]
      /\ gw'[s].stage \in {"none", "request"} =>
            toClient'[s] = toClient[s] /\ gw'[s].reader = gw[s].reader /\ gw[s].stage \in {"none", "request"}
  BY <1>1, <1>2, <1>3, <1>4, <1>5
<1> QED BY <1>1, <1>2, <1>4, <1>6, <1>7, GatewayKeeps

\* "start" is sent once, to a browser that has nothing of the session yet.
LEMMA GwRequestKeeps == ASSUME SInv, NEW s \in Sockets, GwRequest(s) PROVE SInv'
<1>1. CASE Finally(s) /\ UNCHANGED toClient
  BY <1>1, FinallyKeeps DEF GwRequest
<1>2. CASE ~(Finally(s) /\ UNCHANGED toClient)
  <2> DEFINE h == [stage |-> "serving", reader |-> "reading"]
  <2>1. /\ gw' = [gw EXCEPT ![s] = h] /\ Deliver(s, "start") /\ UNCHANGED <<js, procs, pcs, sock, toServer>>
        /\ sock[s] = "open" /\ gw[s].stage = "request"
    BY <1>2 DEF GwRequest, Gw
  <2>2. h \in Handler /\ h.stage = "serving" /\ gw \in [Sockets -> Handler]
    BY DEF Handler, SInv, Typed
  <2> HIDE DEF h
  <2>3. gw' \in [Sockets -> Handler] /\ gw'[s] = h /\ \A t \in Sockets : t # s => gw'[t] = gw[t]
    BY <2>1, <2>2
  <2>4. /\ toClient' \in [Sockets -> Seq(Signals \cup {"start"})]
        /\ \A t \in Sockets : t # s => toClient'[t] = toClient[t]
        /\ toClient'[s] = toClient[s] \/ toClient'[s] = Append(toClient[s], "start")
    BY <2>1, DeliverFacts
  <2>5. toClient[s] = <<>> /\ (s = js.ws => js.pc = None /\ js.signalQueue = <<>>)
    BY <2>1 DEF SInv, StartsOnce
  <2>6. \A i \in 1 .. Len(toClient'[s]) : i = 1
    <3>1. toClient'[s] = <<>> \/ toClient'[s] = <<"start">>
      BY <2>4, <2>5
    <3>2. Len(<<>>) = 0 /\ Len(<<"start">>) = 1
      OBVIOUS
    <3>3. Len(toClient'[s]) \in {0, 1}
      BY <3>1, <3>2
    <3>4. \A n \in {0, 1} : \A i \in 1 .. n : i = 1
      OBVIOUS
    <3> QED BY <3>3, <3>4
  <2> QED BY <2>1, <2>2, <2>3, <2>4, <2>5, <2>6, GatewayKeeps
<1> QED BY <1>1, <1>2

\* A message of the bridge is not "start".
LEMMA GwStreamKeeps == ASSUME SInv, NEW s \in Sockets, GwStream(s) PROVE SInv'
<1>1. PICK m \in Signals : Deliver(s, m)
  BY DEF GwStream
<1>2. /\ gw[s].reader = "reading" /\ gw' = [gw EXCEPT ![s] = gw[s]] /\ UNCHANGED <<js, procs, pcs, sock, toServer>>
  BY DEF GwStream, Gw
<1>3. gw \in [Sockets -> Handler] /\ toClient[s] \in Seq(Signals \cup {"start"})
  BY DEF SInv, Typed
<1>4. gw' = gw
  BY <1>2, <1>3
<1>5. /\ toClient' \in [Sockets -> Seq(Signals \cup {"start"})]
      /\ \A t \in Sockets : t # s => toClient'[t] = toClient[t]
      /\ toClient'[s] = toClient[s] \/ toClient'[s] = Append(toClient[s], m)
  BY <1>1, DeliverFacts
<1>6. gw[s].stage \notin {"none", "request"}
  BY <1>2 DEF SInv, StartsOnce
<1>7. \A i \in 1 .. Len(toClient[s]) : toClient[s][i] = "start" =>
         i = 1 /\ (s = js.ws => js.pc = None /\ js.signalQueue = <<>>)
  BY DEF SInv, StartsOnce
<1>8. m # "start"
  BY DEF Signals
<1>9. \A i \in 1 .. Len(toClient'[s]) : toClient'[s][i] = "start" =>
         i \in 1 .. Len(toClient[s]) /\ toClient[s][i] = "start"
  <2>1. CASE toClient'[s] = toClient[s]
    BY <2>1
  <2>2. CASE toClient'[s] = Append(toClient[s], m)
    <3> DEFINE q == toClient[s]
    <3>1. q \in Seq(Signals \cup {"start"})
      BY <1>3
    <3> HIDE DEF q
    <3>2. \A i \in 1 .. Len(Append(q, m)) : Append(q, m)[i] = "start" =>
             i \in 1 .. Len(q) /\ q[i] = "start"
      BY <1>8, <3>1
    <3> QED BY <2>2, <3>2 DEF q
  <2> QED BY <1>5, <2>1, <2>2
<1>10. sock[s] \notin {"none", "connecting"}
  BY <1>6 DEF SInv, StartsOnce
<1> QED BY <1>2, <1>3, <1>4, <1>5, <1>6, <1>7, <1>9, <1>10, GatewayKeeps

LEMMA GwStreamEndsKeeps == ASSUME SInv, NEW s \in Sockets, GwStreamEnds(s) PROVE SInv'
<1> DEFINE h == [gw[s] EXCEPT !.reader = "ended"]
<1>1. /\ gw[s].reader = "reading" /\ gw' = [gw EXCEPT ![s] = h]
      /\ UNCHANGED <<js, procs, pcs, sock, toServer, toClient>>
  BY DEF GwStreamEnds, Gw
<1>2. gw \in [Sockets -> Handler] /\ toClient \in [Sockets -> Seq(Signals \cup {"start"})]
  BY DEF SInv, Typed
<1>3. gw[s].stage \notin {"none", "request"} /\ sock[s] \notin {"none", "connecting"}
  BY <1>1 DEF SInv, StartsOnce
<1>4. h \in Handler /\ h.stage = gw[s].stage
  BY <1>2 DEF Handler
<1> HIDE DEF h
<1>5. gw' \in [Sockets -> Handler] /\ gw'[s] = h /\ \A t \in Sockets : t # s => gw'[t] = gw[t]
  BY <1>1, <1>2, <1>4
<1>6. \A i \in 1 .. Len(toClient[s]) : toClient[s][i] = "start" =>
         i = 1 /\ (s = js.ws => js.pc = None /\ js.signalQueue = <<>>)
  BY DEF SInv, StartsOnce
<1> QED BY <1>1, <1>2, <1>3, <1>4, <1>5, <1>6, GatewayKeeps

LEMMA GwReceiveKeeps == ASSUME SInv, NEW s \in Sockets, GwReceive(s) PROVE SInv'
<1>1. gw[s].stage = "serving" /\ toServer[s] # <<>> /\ UNCHANGED <<sock, toClient>>
  BY DEF GwReceive
<1>2. CASE Finally(s)
  BY <1>1, <1>2, FinallyKeeps
<1>3. CASE ~Finally(s)
  <2>1. /\ toServer' = [toServer EXCEPT ![s] = Tail(toServer[s])] /\ gw' = [gw EXCEPT ![s] = gw[s]]
        /\ UNCHANGED <<js, procs, pcs>>
    BY <1>3 DEF GwReceive, Gw
  <2>2. gw \in [Sockets -> Handler] /\ toClient \in [Sockets -> Seq(Signals \cup {"start"})]
    BY DEF SInv, Typed
  <2>3. gw' = gw
    BY <2>1, <2>2
  <2>4. \A i \in 1 .. Len(toClient[s]) : toClient[s][i] = "start" =>
           i = 1 /\ (s = js.ws => js.pc = None /\ js.signalQueue = <<>>)
    BY DEF SInv, StartsOnce
  <2>5. \E q : /\ toServer' = [toServer EXCEPT ![s] = q]
               /\ q = <<>> \/ (toServer[s] # <<>> /\ q = Tail(toServer[s]))
    BY <1>1, <2>1
  <2> QED BY <1>1, <2>1, <2>2, <2>3, <2>4, <2>5, GatewayKeeps
<1> QED BY <1>2, <1>3

LEMMA GwClosedKeeps == ASSUME SInv, NEW s \in Sockets, GwClosed(s) PROVE SInv'
  BY FinallyKeeps DEF GwClosed

----------------------------------------------------------------------------
(* The invariant, and what it says of the three properties.                 *)

LEMMA InitHolds == SignalingInit => SInv
<1> SUFFICES ASSUME SignalingInit PROVE SInv
  OBVIOUS
<1>1. Typed
  BY DEF SignalingInit, Typed, Driver, NoCall, Call, Handler, None
<1>2. Held
  BY DEF SignalingInit, Held
<1>3. StartsOnce
  BY DEF SignalingInit, StartsOnce
<1>4. OneCall
  BY DEF SignalingInit, OneCall, NoCall, Awaiting, Quiescent
<1>5. Session
  BY DEF SignalingInit, Session
<1> QED BY <1>1, <1>2, <1>3, <1>4, <1>5 DEF SInv

LEMMA RunLoopKeeps == ASSUME SInv, RunLoop PROVE SInv'
<1>1. ASSUME NEW p \in Procs, HandleBye(p) PROVE SInv'
  BY <1>1, DisconnectKeeps DEF HandleBye
<1> QED BY <1>1, QueueDoneKeeps, HandleStartKeeps, HandleSDPKeeps, HandleCandidateKeeps DEF RunLoop

LEMMA StepKeeps == SInv /\ [SignalingNext]_signalingVars => SInv'
<1> SUFFICES ASSUME SInv, [SignalingNext]_signalingVars PROVE SInv'
  OBVIOUS
<1>1. CASE StartStream
  BY <1>1, StartStreamKeeps
<1>2. CASE Unmount
  BY <1>2, DisconnectKeeps DEF Unmount
<1>3. CASE ReconnectTimer
  BY <1>3, ReconnectTimerKeeps
<1>4. CASE SocketEvent
  BY <1>4, HandleWsErrorKeeps, HandleWsCloseKeeps, HandleWsMessageKeeps DEF SocketEvent
<1>5. CASE RunLoop
  BY <1>5, RunLoopKeeps
<1>6. CASE Settle
  BY <1>6, DescriptionCreatedKeeps, LocalDescriptionSetKeeps, RemoteDescriptionSetKeeps, OperationFailsKeeps
     DEF Settle
<1>7. CASE PeerTrack
  BY <1>7, PeerTrackKeeps
<1>8. CASE PeerIceCandidate
  BY <1>8, PeerIceCandidateKeeps
<1>9. CASE PeerStateChange
  BY <1>9, DisconnectKeeps DEF PeerStateChange
<1>10. CASE \E s \in Sockets : GwStep(s)
  BY <1>10, GwAcceptKeeps, GwRequestKeeps, GwReceiveKeeps, GwClosedKeeps DEF GwStep
<1>11. CASE \E s \in Sockets : GwStream(s) \/ GwStreamEnds(s)
  BY <1>11, GwStreamKeeps, GwStreamEndsKeeps
<1>12. CASE UNCHANGED signalingVars
  <2>1. UNCHANGED <<js, procs, sock, toClient, toServer, pcs, gw>>
    BY <1>12 DEF signalingVars
  <2>2. Typed'
    BY <2>1 DEF SInv, Typed
  <2>3. Held'
    BY <2>1 DEF SInv, Held
  <2>4. StartsOnce'
    BY <2>1 DEF SInv, StartsOnce
  <2>5. OneCall'
    BY <2>1 DEF SInv, OneCall, Quiescent
  <2>6. Session'
    BY <2>1 DEF SInv, Session
  <2> QED BY <2>2, <2>3, <2>4, <2>5, <2>6 DEF SInv
<1> QED BY <1>1, <1>2, <1>3, <1>4, <1>5, <1>6, <1>7, <1>8, <1>9, <1>10, <1>11, <1>12 DEF SignalingNext

LEMMA SInvHolds == SignalingSafeSpec => []SInv
  BY InitHolds, StepKeeps, PTL DEF SignalingSafeSpec

\* Through every reconnect, restart and give-up the driver holds what is open
\* (ws_jsep_protocol_driver.ts:523, 551).
THEOREM HoldsWhatIsOpen == SignalingSafeSpec => []NothingLeftOpen
<1>1. SInv => NothingLeftOpen
  BY DEF SInv, Typed, Held, NothingLeftOpen
<1> QED BY <1>1, SInvHolds, PTL

\* Signals are processed one at a time, and the flag says when one is
\* (ws_jsep_protocol_driver.ts:207, 525).
THEOREM OneAtATime == SignalingSafeSpec => []OneProcessor
<1>1. ASSUME SInv PROVE OneProcessor
  <2> DEFINE live == {p \in Procs : procs[p].at = "loop" \/ (procs[p].at \in Awaiting /\ pcs[procs[p].pc].open)}
  <2>1. \A p \in Procs : procs[p].at \in Awaiting \cup {"idle", "loop"}
    BY <1>1 DEF SInv, Typed, Call
  <2>2. \A p \in Procs : p \in live <=> procs[p].at # "idle"
    <3>1. \A p \in Procs : procs[p].at \in Awaiting => pcs[procs[p].pc].open
      BY <1>1 DEF SInv, Typed, Held, OneCall, None
    <3> QED BY <2>1, <3>1 DEF Awaiting
  <2>3. \A p, q \in live : p = q
    BY <1>1, <2>2 DEF SInv, OneCall
  <2>4. live \subseteq Procs
    OBVIOUS
  <2> HIDE DEF live
  <2>5. Cardinality(live) <= 1
    <3>1. CASE live = {}
      BY <3>1, FS_EmptySet
    <3>2. CASE live # {}
      <4>1. PICK p : p \in live
        BY <3>2
      <4>2. live = {p}
        BY <2>3, <4>1
      <4>3. Cardinality({p}) = 1
        BY FS_Singleton
      <4> QED BY <4>2, <4>3
    <3> QED BY <3>1, <3>2
  <2>6. ASSUME Quiescent PROVE js.isProcessingSignal <=> live # {}
    BY <1>1, <2>2, <2>4, <2>6 DEF SInv, OneCall
  <2>7. js.isProcessingSignal \in BOOLEAN
    BY <1>1 DEF SInv, Typed, Driver
  <2>8. Quiescent => (js.isProcessingSignal = (live # {}))
    BY <2>6, <2>7
  <2> QED BY <2>5, <2>8 DEF OneProcessor, live
<1> QED BY <1>1, SInvHolds, PTL

\* After an await the driver is still in the session it was in: what it sends belongs to a
\* connection of that socket, and no candidate is given to a connection before its remote
\* description (ws_jsep_protocol_driver.ts:312, 391, 440).
THEOREM SessionsKept == SignalingSafeSpec => []OwnSession
<1>1. SInv => OwnSession
  <2> SUFFICES ASSUME SInv PROVE OwnSession
    OBVIOUS
  <2>1. pcs \in Seq(Peer) /\ DOMAIN pcs = 1 .. Len(pcs)
    BY DEF SInv, Typed
  <2>2. \A s \in Sockets : DOMAIN toServer[s] = 1 .. Len(toServer[s])
    BY DEF SInv, Typed
  <2> QED BY <2>1, <2>2 DEF SInv, Session, OwnSession
<1> QED BY <1>1, SInvHolds, PTL
=============================================================================
