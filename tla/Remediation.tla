---------------------------- MODULE Remediation ----------------------------
(***************************************************************************)
(* Remediation of a checkout (mncs_debug/remediate.py): a run checks every *)
(* descriptor and the generated binding, queues the repairs it may make,   *)
(* applies them in order within a budget, and returns an envelope.         *)
(*                                                                         *)
(* Developers edit, commit and move libraries at any moment, between the   *)
(* ABI observation and the git check, or between a check and its repair.   *)
(* An interface identity is known by the content of the module it was      *)
(* observed from, whichever roots resolved its imports; a library entry by *)
(* the directory it points at.                                             *)
(***************************************************************************)
EXTENDS Integers, FiniteSets

CONSTANTS
  NumDescriptors,   \* native-applications/*.json, in the order of their names
  Standalone,       \* _SELF_SUFFICIENT_DESCRIPTORS
  Modules,          \* MNCS module sources
  SourceOf,         \* the module a descriptor or the binding is frozen from
  Contents,         \* contents a module source may have
  Libraries,        \* library directories
  Siblings,         \* those a run adds by itself: the stdlib, sibling checkouts
  Std,              \* the extracted stdlib, one of these
  Needed,           \* the libraries a module of that content imports from
  Budgets,          \* values of --budget
  PathChoices,      \* directories MNCS_LIBRARY_PATH may name
  HintChoices,      \* paths --changed-path may cover
  MaxDisturbances   \* bound on edits, moves, failures and kills

Binding == 0
Descriptors == 1..NumDescriptors
Paths == {Binding} \cup Descriptors

ASSUME RemediationAssumption ==
  /\ NumDescriptors \in Nat
  /\ Standalone \subseteq Descriptors
  /\ SourceOf \in [Paths -> Modules]
  /\ Std \in Siblings /\ Siblings \subseteq Libraries
  /\ Needed \in [Contents -> SUBSET Libraries]
  /\ PathChoices \subseteq SUBSET Libraries
  /\ Budgets \subseteq Nat \ {0}
  /\ HintChoices \subseteq SUBSET Paths
  /\ MaxDisturbances \in Nat

Gone == "gone"               \* the source file does not exist
None == "none"               \* no identity, nothing observed yet
Unresolved == "unresolved"   \* the toolchain finds an import in no root
Failed == "failed"           \* any other failure of "mncs abi"

ASSUME ContentsApart == {Gone, None, Unresolved, Failed} \cap Contents = {}

VARIABLES
  worktree, head,  \* each module's source, in the checkout and committed
  present,         \* library directories that exist
  generator,       \* mncs-language is there, with a generator that works
  files,           \* the descriptors and the binding
  disturbed,       \* disturbances so far
  run,             \* the arguments of the run
  pc,              \* where the run is
  at,              \* the file it checks
  seen,            \* what it read of that file and observed of its module
  cache,           \* abi_cache
  queue,           \* repairs and reconciliations found
  errors,          \* escalations of severity "error" found by the checks
  applied, failed, \* items of the queue that are done, and that failed
  last,            \* the last envelope if it passed and nobody touched the checkout
  quiet            \* nobody touched the checkout since the run began

tree == <<worktree, head, present, generator>>
found == <<queue, errors>>
outcome == <<applied, failed>>
vars == <<tree, files, disturbed, run, pc, at, seen, cache, found, outcome,
          last, quiet>>

Kinds == {"dead", "missing", "stale"}
Items == [kind : Kinds, path : Paths, to : Contents \cup {None}]
Observations == Contents \cup {None, Unresolved, Failed}
Keys == Modules \X SUBSET Libraries

File == [shape : {"ok", "broken"}, libs : SUBSET Libraries,
         frozen : Contents \cup {None}]
Arguments == [dry : BOOLEAN, hints : SUBSET Paths, budget : Nat, tool : BOOLEAN,
              path : SUBSET Libraries]
Envelope == [passed : BOOLEAN, hints : SUBSET Paths, tool : BOOLEAN,
             path : SUBSET Libraries, added : SUBSET Paths]

NoReport == [passed |-> FALSE, hints |-> {}, tool |-> FALSE, path |-> {}, added |-> {}]
NoRun == [dry |-> TRUE, hints |-> {}, budget |-> 0, tool |-> FALSE, path |-> {}]
Unseen == [frozen |-> None, libs |-> {}, roots |-> {}, abi |-> None]
NoCache == [k \in Keys |-> None]

\* A checkout in any state: dead entries, files that do not parse, stale
\* identities, uncommitted edits.  Of a file that does not parse nothing is read.
Init ==
  /\ head \in [Modules -> Contents]
  /\ worktree \in [Modules -> Contents \cup {Gone}]
  /\ present \in SUBSET Libraries
  /\ generator \in BOOLEAN
  /\ files \in [Paths -> File]
  /\ \A p \in Paths :
       files[p].shape = "broken" => files[p].libs = {} /\ files[p].frozen = None
  /\ files[Binding].libs = {}
  /\ files[Binding].shape = "ok" => files[Binding].frozen # None
  /\ disturbed = 0
  /\ run = NoRun /\ pc = "idle" /\ at = Binding /\ seen = Unseen
  /\ cache = NoCache
  /\ queue = {} /\ errors = 0 /\ applied = {} /\ failed = {}
  /\ last = NoReport /\ quiet = TRUE
-----------------------------------------------------------------------------
\* A run, in steps between which the checkout may change.

Source(p) == SourceOf[p]
\* Mutant of Clean: git is not asked.
CleanAssumed(m) == TRUE
Clean(m) == worktree[m] = head[m]

\* The answer of "mncs abi": the identity, or why there is none.
Abi(m, roots) ==
  IF worktree[m] = Gone THEN Failed
  ELSE IF Needed[worktree[m]] \subseteq roots THEN worktree[m] ELSE Unresolved

\* Roots a check resolves the module of a file with: the entries of a
\* descriptor, or MNCS_LIBRARY_PATH for the binding, and unless the descriptor
\* is self-sufficient the stdlib and sibling checkouts.
Roots(p) ==
  LET own == IF p = Binding THEN run.path ELSE files[p].libs
  IN (own \cup (IF p \in Standalone THEN {} ELSE Siblings)) \cap present

\* The repair of the binding puts its own roots in the place of
\* MNCS_LIBRARY_PATH.
RepairRoots == Siblings \cap present

\* A disturbance, while there are some left.
Disturb == disturbed < MaxDisturbances /\ disturbed' = disturbed + 1

Start(dry, hints, budget, tool, path) ==
  /\ pc = "idle"
  /\ run' = [dry |-> dry, hints |-> hints, budget |-> budget, tool |-> tool,
             path |-> path]
  /\ at' = IF NumDescriptors > 0 THEN 1 ELSE Binding
  /\ pc' = "check"
  /\ quiet' = TRUE
  /\ UNCHANGED <<tree, files, disturbed, seen, cache, found, outcome, last>>

\* Mutant of NextCheck: one descriptor too many.
NextCheckPast ==
  /\ pc' = IF at = Binding THEN "apply" ELSE "check"
  /\ at' = IF at \in Descriptors /\ at <= NumDescriptors THEN at + 1 ELSE Binding
  /\ seen' = Unseen

\* The descriptors in order, then the binding, then the repairs.
NextCheck ==
  /\ pc' = IF at = Binding THEN "apply" ELSE "check"
  /\ at' = IF at \in Descriptors /\ at < NumDescriptors THEN at + 1 ELSE Binding
  /\ seen' = Unseen

Found(items) == queue' = queue \cup items /\ UNCHANGED errors
Escalate == errors' = errors + 1 /\ UNCHANGED queue
Item(kind, p, to) == [kind |-> kind, path |-> p, to |-> to]
\* Mutant of Hinted: hints limit what is reported, not what is repaired.
HintedAll(kind, p, to) == {Item(kind, p, to)}
\* A repair outside the hints is escalated as information, not queued.
Hinted(kind, p, to) == IF p \in run.hints THEN {Item(kind, p, to)} ELSE {}

\* The file does not parse, or has not the shape it needs.
CheckBroken ==
  /\ pc = "check" /\ files[at].shape = "broken"
  /\ Escalate
  /\ NextCheck
  /\ UNCHANGED <<tree, files, disturbed, run, cache, outcome, last, quiet>>

\* From here on the run works on what it read.
Look ==
  /\ seen' = [frozen |-> files[at].frozen, libs |-> files[at].libs,
              roots |-> Roots(at), abi |-> None]
  /\ pc' = "observe"
  /\ UNCHANGED at

CheckDescriptor ==
  /\ pc = "check" /\ at \in Descriptors /\ files[at].shape = "ok"
  /\ LET file == files[at]
         dead == IF file.libs \subseteq present THEN {} ELSE Hinted("dead", at, None)
     IN \/ /\ file.frozen = None \/ ~run.tool
           /\ Found(dead)
           /\ NextCheck
        \/ /\ file.frozen # None /\ run.tool /\ worktree[Source(at)] = Gone
           /\ queue' = queue \cup dead
           /\ errors' = errors + 1
           /\ NextCheck
        \/ /\ file.frozen # None /\ run.tool /\ worktree[Source(at)] # Gone
           /\ Found(dead)
           /\ Look
  /\ UNCHANGED <<tree, files, disturbed, run, cache, outcome, last, quiet>>

CheckBinding ==
  /\ pc = "check" /\ at = Binding /\ files[at].shape = "ok"
  /\ \/ ~run.tool /\ NextCheck /\ UNCHANGED found
     \/ run.tool /\ worktree[Source(at)] = Gone /\ Escalate /\ NextCheck
     \/ run.tool /\ worktree[Source(at)] # Gone /\ Look /\ UNCHANGED found
  /\ UNCHANGED <<tree, files, disturbed, run, cache, outcome, last, quiet>>

Observe ==
  /\ pc = "observe"
  /\ LET key == <<Source(at), seen.roots>>
     IN \E abi \in Observations :
          /\ \/ abi = cache[key] /\ abi # None /\ UNCHANGED disturbed
             \/ cache[key] = None /\ abi = Abi(Source(at), seen.roots) /\ UNCHANGED disturbed
             \/ cache[key] = None /\ abi = Failed /\ Disturb
          /\ cache' = [cache EXCEPT ![key] = abi]
          /\ seen' = [seen EXCEPT !.abi = abi]
  /\ pc' = "judge"
  /\ UNCHANGED <<tree, files, run, at, found, outcome, last, quiet>>

\* Only the bare stdlib entry is missing.
LacksStd ==
  /\ seen.abi = Unresolved
  /\ at \in Standalone
  /\ Std \in present \ seen.libs

\* What an observation means; git is asked only now, and a git that does not
\* answer counts as an uncommitted edit.
Compare ==
  \/ seen.abi \in {Unresolved, Failed} /\ Escalate /\ UNCHANGED disturbed
  \/ seen.abi = seen.frozen /\ UNCHANGED <<found, disturbed>>
  \/ /\ seen.abi \in Contents \ {seen.frozen}
     /\ \/ /\ Clean(Source(at))
           /\ Found(Hinted("stale", at, seen.abi))
           /\ UNCHANGED disturbed
        \/ ~Clean(Source(at)) /\ Escalate /\ UNCHANGED disturbed
        \/ Escalate /\ Disturb

JudgeDescriptor ==
  /\ at \in Descriptors
  /\ \/ LacksStd /\ Found(Hinted("missing", at, None)) /\ UNCHANGED disturbed
     \/ ~LacksStd /\ Compare

JudgeBinding == at = Binding /\ Compare

Judge ==
  /\ pc = "judge"
  /\ JudgeDescriptor \/ JudgeBinding
  /\ NextCheck
  /\ UNCHANGED <<tree, files, run, cache, outcome, last, quiet>>
-----------------------------------------------------------------------------
\* The repairs: dead entries, missing ones, then identities; the id of a
\* binding's repair sorts before that of a descriptor's.

Pending == queue \ (applied \cup failed)
Rank(i) == (CASE i.kind = "dead" -> 0 [] i.kind = "missing" -> 1 [] OTHER -> 2)
             * (NumDescriptors + 1) + i.path
First(i) == i \in Pending /\ \A j \in Pending : Rank(i) <= Rank(j)

\* Mutant of Within: a failed repair is charged to the budget.
WithinTried == Cardinality(applied \cup failed) < run.budget
\* Only what was done is charged to the budget.
Within == Cardinality(applied) < run.budget
Succeed(i) == applied' = applied \cup {i} /\ UNCHANGED failed
Fail(i) == failed' = failed \cup {i} /\ UNCHANGED applied

DryApply(i) ==
  /\ pc = "apply" /\ First(i) /\ Within /\ run.dry
  /\ Succeed(i)
  /\ UNCHANGED <<tree, files, disturbed, run, pc, at, seen, cache, found, last, quiet>>

\* A repair begins: it is given up, is done already, or writes its file.
Begin(i) == pc = "apply" /\ First(i) /\ Within /\ ~run.dry
GivenUp(i) == Fail(i) /\ UNCHANGED <<files, pc>>
Written(i, file) ==
  /\ files' = [files EXCEPT ![i.path] = file]
  /\ pc' = "validate"
  /\ UNCHANGED outcome

ApplyDead(i) ==
  /\ Begin(i) /\ i.kind = "dead"
  /\ Written(i, [files[i.path] EXCEPT !.libs = @ \cap present])
  /\ UNCHANGED <<tree, disturbed, run, at, seen, cache, found, last, quiet>>

ApplyMissing(i) ==
  /\ Begin(i) /\ i.kind = "missing"
  /\ \/ Std \notin present /\ GivenUp(i)
     \/ Std \in present /\ Written(i, [files[i.path] EXCEPT !.libs = @ \cup {Std}])
  /\ UNCHANGED <<tree, disturbed, run, at, seen, cache, found, last, quiet>>

ApplyIdentity(i) ==
  /\ Begin(i) /\ i.kind = "stale" /\ i.path # Binding
  /\ Written(i, [files[i.path] EXCEPT !.frozen = i.to])
  /\ UNCHANGED <<tree, disturbed, run, at, seen, cache, found, last, quiet>>

\* The binding is generated from the ABI of the module as it is now, if there
\* is a generator and the repair's roots resolve the module.
ApplyBinding(i) ==
  /\ Begin(i) /\ i.kind = "stale" /\ i.path = Binding
  /\ LET abi == Abi(Source(Binding), RepairRoots)
     IN \/ ~generator /\ GivenUp(i) /\ UNCHANGED disturbed
        \/ abi \notin Contents /\ GivenUp(i) /\ UNCHANGED disturbed
        \/ GivenUp(i) /\ Disturb   \* either fails this once
        \/ /\ generator /\ abi \in Contents
           /\ Written(i, [files[Binding] EXCEPT !.frozen = abi])
           /\ UNCHANGED disturbed
  /\ UNCHANGED <<tree, run, at, seen, cache, found, last, quiet>>

Valid(i) ==
  LET file == files[i.path]
  IN CASE i.kind = "dead" -> file.libs \subseteq present
       [] i.kind = "missing" -> Abi(Source(i.path), file.libs \cap present) \in Contents
       [] OTHER -> file.frozen = i.to

Validate(i) ==
  /\ pc = "validate" /\ First(i)
  /\ IF Valid(i) THEN Succeed(i) ELSE Fail(i)
  /\ pc' = "apply"
  /\ UNCHANGED <<tree, files, disturbed, run, at, seen, cache, found, last, quiet>>

\* Mutant of ErrorsAfter: the items the budget cut are dropped before they are counted.
ErrorsAfterCut ==
  LET before == Cardinality(applied \cup failed) + errors
  IN IF run.dry THEN before
     ELSE before - Cardinality(applied) + Cardinality(failed)

\* errors_after is computed from errors_before, never observed.
ErrorsAfter ==
  LET before == Cardinality(queue) + errors
  IN IF run.dry THEN before
     ELSE before - Cardinality(applied) + Cardinality(failed)

Forget ==
  /\ pc' = "idle" /\ run' = NoRun /\ at' = Binding /\ seen' = Unseen
  /\ cache' = NoCache /\ queue' = {} /\ errors' = 0
  /\ applied' = {} /\ failed' = {} /\ quiet' = TRUE

\* The envelope: the queue is empty or the budget is exhausted.
Report ==
  /\ pc = "apply"
  /\ Pending = {} \/ ~Within
  /\ last' = IF quiet /\ ErrorsAfter = 0
             THEN [passed |-> TRUE, hints |-> run.hints, tool |-> run.tool,
                   path |-> run.path,
                   added |-> {i.path : i \in {j \in applied : j.kind = "missing"}}]
             ELSE NoReport
  /\ Forget
  /\ UNCHANGED <<tree, files, disturbed>>
-----------------------------------------------------------------------------
\* Everyone else.

Touched == last' = NoReport /\ quiet' = (pc = "idle")

Edit(m) ==
  /\ Disturb
  /\ \E c \in (Contents \cup {Gone}) \ {worktree[m]} :
        worktree' = [worktree EXCEPT ![m] = c]
  /\ Touched
  /\ UNCHANGED <<head, present, generator, files, run, pc, at, seen, cache, found, outcome>>

Commit(m) ==
  /\ Disturb
  /\ worktree[m] \in Contents \ {head[m]}
  /\ head' = [head EXCEPT ![m] = worktree[m]]
  /\ Touched
  /\ UNCHANGED <<worktree, present, generator, files, run, pc, at, seen, cache, found, outcome>>

MoveLibrary(l) ==
  /\ Disturb
  /\ present' = IF l \in present THEN present \ {l} ELSE present \cup {l}
  /\ Touched
  /\ UNCHANGED <<worktree, head, generator, files, run, pc, at, seen, cache, found, outcome>>

\* The checkout of mncs-language comes or goes, for as long as it likes.
MoveGenerator ==
  /\ Disturb
  /\ generator' = ~generator
  /\ UNCHANGED <<worktree, head, present, files, run, pc, at, seen, cache, found,
                 outcome, last, quiet>>

\* The process dies: what it wrote stays, no envelope is returned.
Kill ==
  /\ pc # "idle"
  /\ Disturb
  /\ Forget
  /\ last' = NoReport
  /\ UNCHANGED <<tree, files>>

Apply(i) ==
  \/ DryApply(i) \/ ApplyDead(i) \/ ApplyMissing(i)
  \/ ApplyIdentity(i) \/ ApplyBinding(i) \/ Validate(i)

Proceed ==
  \/ CheckBroken \/ CheckDescriptor \/ CheckBinding \/ Observe \/ Judge
  \/ \E i \in queue : Apply(i)
  \/ Report

\* What the envelope asks for: run again, for the whole checkout.
StartFull ==
  \E budget \in Budgets, path \in PathChoices : Start(FALSE, Paths, budget, TRUE, path)

Next ==
  \/ \E dry, tool \in BOOLEAN, hints \in HintChoices, budget \in Budgets,
        path \in PathChoices :
       Start(dry, hints, budget, tool, path)
  \/ Proceed
  \/ \E m \in Modules : Edit(m) \/ Commit(m)
  \/ \E l \in Libraries : MoveLibrary(l)
  \/ MoveGenerator
  \/ Kill

Spec == Init /\ [][Next]_vars

\* A run that began ends (every call has a timeout), and somebody runs it
\* again, as its escalations ask.
FairSpec == Spec /\ WF_vars(Proceed) /\ SF_vars(StartFull)
-----------------------------------------------------------------------------
Steps == {"idle", "check", "observe", "judge", "apply", "validate"}

\* Every variable keeps its type.
TypeOK ==
  /\ worktree \in [Modules -> Contents \cup {Gone}]
  /\ head \in [Modules -> Contents]
  /\ present \subseteq Libraries /\ generator \in BOOLEAN
  /\ files \in [Paths -> File]
  /\ disturbed \in 0..MaxDisturbances
  /\ run \in Arguments
  /\ pc \in Steps
  /\ at \in Paths
  /\ seen \in [frozen : Contents \cup {None}, libs : SUBSET Libraries,
               roots : SUBSET Libraries, abi : Observations]
  /\ cache \in [Keys -> Observations]
  /\ queue \subseteq Items /\ errors \in Nat
  /\ applied \subseteq queue /\ failed \subseteq queue \ applied
  /\ last \in Envelope /\ quiet \in BOOLEAN

\* A run writes only files its hints cover, and a dry run writes none
\* (remediate.py:16): the hints are read at the check, the file is written
\* long after.
HintsRespected ==
  [][\A p \in Paths : files'[p] # files[p] => p \in run.hints /\ ~run.dry]_files

\* An identity is frozen only to that of a committed source (remediate.py:11),
\* as long as nobody edits during the run.
RefreezeReviewed ==
  [][\A p \in Paths : files'[p].frozen # files[p].frozen /\ quiet
       => files'[p].frozen = head[Source(p)]]_files

\* validation.passed is computed by subtraction from counts; while nobody
\* touches the checkout it means that every file the hints cover is coherent,
\* except the identity of a descriptor that just gained its stdlib entry.
PassedMeansClean ==
  pc = "idle" /\ last.passed =>
    \A p \in last.hints :
      /\ files[p].shape = "ok"
      /\ files[p].libs \subseteq present
      /\ last.tool /\ files[p].frozen # None /\ p \notin last.added
           => files[p].frozen = worktree[Source(p)]

\* A passed run leaves nothing to repair to the next one of the same
\* arguments, when nobody touches the checkout in between.
RerunsStayQuiet ==
  pc = "apply" /\ last.passed /\ run.hints = last.hints /\ run.tool = last.tool
    /\ run.path = last.path
    => queue = {}

\* What every run over the whole checkout can repair now.  The binding can be
\* stale for good: its check resolves with MNCS_LIBRARY_PATH, its repair does
\* without, and needs a generator; every run then fails on it and says so.
Repairable(p) ==
  LET roots == IF p = Binding THEN RepairRoots ELSE Roots(p)
      abi == Abi(Source(p), roots)
  IN /\ files[p].shape = "ok"
     /\ \/ ~(files[p].libs \subseteq present)
        \/ /\ files[p].frozen # None
           /\ p = Binding => generator
           /\ \/ /\ abi = Unresolved /\ p \in Standalone
                 /\ Std \in present \ files[p].libs
              \/ abi \in Contents \ {files[p].frozen} /\ Clean(Source(p))

\* However small the budget, wherever runs die, whatever fails for a while and
\* though the repair of the binding may fail in every run (remediate.py:568,
\* 579), repeated runs leave nothing that could be repaired: what fails does
\* not use up the budget of the rest.
Settles == <>[](pc = "idle" => \A p \in Paths : ~Repairable(p))
=============================================================================
