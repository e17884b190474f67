------------------------- MODULE RemediationProofs -------------------------
(***************************************************************************)
(* Remediation, for every checkout, budget and number of disturbances: the *)
(* types, that a run writes only what its hints cover (HintsRespected),    *)
(* that an undisturbed run freezes only committed identities               *)
(* (RefreezeReviewed), and that a passed verdict is true while nobody      *)
(* touches the checkout (PassedMeansClean).                                *)
(*                                                                         *)
(* A write is far from the checks that justify it.  What carries over is   *)
(* the queue: its items lie within the hints, and while nobody touches the *)
(* checkout the identity of each is that of a source that is committed.    *)
(***************************************************************************)
EXTENDS Remediation, FiniteSetTheorems, TLAPS

Seen == [frozen : Contents \cup {None}, libs : SUBSET Libraries,
         roots : SUBSET Libraries, abi : Observations]

LEMMA PathsTyped ==
  /\ Binding \in Paths
  /\ \A p \in Paths : Source(p) \in Modules
  /\ NumDescriptors > 0 => 1 \in Paths
  /\ \A p \in Descriptors : p < NumDescriptors => p + 1 \in Paths
BY RemediationAssumption DEF Paths, Descriptors, Binding, Source

LEMMA TypeInit == Init => TypeOK
<1> SUFFICES ASSUME Init PROVE TypeOK
  OBVIOUS
<1>1. run \in Arguments /\ last \in Envelope
  BY DEF Init, NoRun, NoReport, Arguments, Envelope
<1>2. seen \in Seen /\ cache \in [Keys -> Observations]
  BY DEF Init, Unseen, NoCache, Seen, Observations
<1>3. QED BY <1>1, <1>2, PathsTyped, RemediationAssumption
          DEF Init, TypeOK, Steps, Seen

LEMMA TypeStart ==
  ASSUME TypeOK, NEW dry \in BOOLEAN, NEW tool \in BOOLEAN, NEW hints \in HintChoices,
         NEW budget \in Budgets, NEW path \in PathChoices,
         Start(dry, hints, budget, tool, path)
  PROVE  TypeOK'
<1>1. run' \in Arguments
  BY RemediationAssumption DEF Start, Arguments
<1>2. at' \in Paths
  BY PathsTyped DEF Start
<1>3. QED BY <1>1, <1>2 DEF Start, TypeOK, Steps, tree, found, outcome

LEMMA NextCheckTyped ==
  ASSUME TypeOK, NextCheck
  PROVE  pc' \in Steps /\ at' \in Paths /\ seen' \in Seen
BY PathsTyped DEF TypeOK, NextCheck, Steps, Unseen, Seen, Observations

LEMMA TypeCheck ==
  ASSUME TypeOK, CheckBroken \/ CheckDescriptor \/ CheckBinding \/ Observe \/ Judge
  PROVE  TypeOK'
<1>1. CASE CheckBroken
  BY <1>1, NextCheckTyped
     DEF CheckBroken, TypeOK, Escalate, Seen, tree, outcome
<1>2. CASE CheckDescriptor \/ CheckBinding
  <2>1. files[at] \in File /\ Roots(at) \subseteq Libraries
    BY RemediationAssumption DEF TypeOK, Roots, File, Arguments
  <2>2. /\ Hinted("dead", at, None) \subseteq Items
    BY DEF TypeOK, Hinted, Item, Items, Kinds
  <2>3. queue' \subseteq Items /\ queue \subseteq queue' /\ errors' \in Nat
    BY <1>2, <2>2 DEF CheckDescriptor, CheckBinding, Look, TypeOK, Found, Escalate, found
  <2>4. pc' \in Steps /\ at' \in Paths /\ seen' \in Seen
    BY <1>2, <2>1, NextCheckTyped
       DEF CheckDescriptor, CheckBinding, Look, TypeOK, Steps, Seen, File, Observations
  <2>5. QED BY <1>2, <2>3, <2>4
            DEF CheckDescriptor, CheckBinding, TypeOK, Seen, tree, outcome
<1>3. CASE Observe
  <2>1. PICK abi \in Observations :
          /\ cache' = [cache EXCEPT ![<<Source(at), seen.roots>>] = abi]
          /\ seen' = [seen EXCEPT !.abi = abi]
          /\ UNCHANGED disturbed \/ Disturb
    BY <1>3 DEF Observe
  <2>2. cache' \in [Keys -> Observations] /\ seen' \in Seen
    BY <2>1 DEF TypeOK, Seen
  <2>3. disturbed' \in 0..MaxDisturbances
    BY <2>1, RemediationAssumption DEF TypeOK, Disturb
  <2>4. QED BY <1>3, <2>2, <2>3 DEF Observe, TypeOK, Seen, Steps, tree, found, outcome
<1>4. CASE Judge
  <2>1. /\ Hinted("missing", at, None) \subseteq Items
        /\ seen.abi \in Contents => Hinted("stale", at, seen.abi) \subseteq Items
    BY DEF TypeOK, Hinted, Item, Items, Kinds
  <2>2. queue' \subseteq Items /\ queue \subseteq queue' /\ errors' \in Nat
    BY <1>4, <2>1
       DEF Judge, JudgeDescriptor, JudgeBinding, Compare, TypeOK, Found, Escalate, found
  <2>3. disturbed' \in 0..MaxDisturbances
    BY <1>4, RemediationAssumption
       DEF Judge, JudgeDescriptor, JudgeBinding, Compare, TypeOK, Disturb, found
  <2>4. QED BY <1>4, <2>2, <2>3, NextCheckTyped DEF Judge, TypeOK, Seen, tree, outcome
<1>5. QED BY <1>1, <1>2, <1>3, <1>4

\* A repair writes no other file, and this one with its type kept.
LEMMA WrittenTyped ==
  ASSUME TypeOK, NEW i \in queue, NEW file \in File, Written(i, file)
  PROVE  files' \in [Paths -> File] /\ pc' \in Steps
BY DEF TypeOK, Written, Items, Steps

LEMMA TypeApply ==
  ASSUME TypeOK, NEW i \in queue, Apply(i)
  PROVE  TypeOK'
<1> USE DEF tree, found, outcome
<1>0. i \in Items /\ files[i.path] \in File /\ files[Binding] \in File
  BY PathsTyped DEF TypeOK, Items
<1>1. ASSUME First(i), Succeed(i) \/ Fail(i), UNCHANGED queue
      PROVE  applied' \subseteq queue' /\ failed' \subseteq queue' \ applied'
  BY <1>1 DEF TypeOK, First, Pending, Succeed, Fail
<1>2. CASE DryApply(i)
  BY <1>1, <1>2 DEF DryApply, TypeOK
<1>3. CASE ApplyDead(i)
  <2>1. [files[i.path] EXCEPT !.libs = @ \cap present] \in File
    BY <1>0 DEF File
  <2>2. QED BY <1>3, <2>1, WrittenTyped DEF ApplyDead, Written, TypeOK
<1>4. CASE ApplyMissing(i)
  <2>1. [files[i.path] EXCEPT !.libs = @ \cup {Std}] \in File
    BY <1>0, RemediationAssumption DEF File
  <2>2. CASE GivenUp(i)
    BY <1>1, <1>4, <2>2 DEF ApplyMissing, Begin, GivenUp, TypeOK
  <2>3. CASE Written(i, [files[i.path] EXCEPT !.libs = @ \cup {Std}])
    BY <1>4, <2>1, <2>3, WrittenTyped DEF ApplyMissing, Written, TypeOK
  <2>4. QED BY <1>4, <2>2, <2>3 DEF ApplyMissing
<1>5. CASE ApplyIdentity(i)
  <2>1. [files[i.path] EXCEPT !.frozen = i.to] \in File
    BY <1>0 DEF File, Items
  <2>2. QED BY <1>5, <2>1, WrittenTyped DEF ApplyIdentity, Written, TypeOK
<1>6. CASE ApplyBinding(i)
  <2> DEFINE abi == Abi(Source(Binding), RepairRoots)
  <2>1. disturbed' \in 0..MaxDisturbances
    BY <1>6, RemediationAssumption DEF ApplyBinding, TypeOK, Disturb
  <2>2. CASE GivenUp(i)
    BY <1>1, <1>6, <2>1, <2>2 DEF ApplyBinding, Begin, GivenUp, TypeOK
  <2>3. CASE abi \in Contents /\ Written(i, [files[Binding] EXCEPT !.frozen = abi])
    <3>1. [files[Binding] EXCEPT !.frozen = abi] \in File
      BY <1>0, <2>3 DEF File
    <3> HIDE DEF abi
    <3>2. QED BY <1>6, <2>1, <2>3, <3>1, WrittenTyped DEF ApplyBinding, Written, TypeOK
  <2>4. QED BY <1>6, <2>2, <2>3 DEF ApplyBinding
<1>7. CASE Validate(i)
  BY <1>1, <1>7 DEF Validate, TypeOK, Steps
<1>8. QED BY <1>2, <1>3, <1>4, <1>5, <1>6, <1>7 DEF Apply

LEMMA TypeForget ==
  ASSUME TypeOK, Forget, last' \in Envelope, UNCHANGED <<tree, files>>,
         disturbed' \in 0..MaxDisturbances
  PROVE  TypeOK'
<1>1. run' \in Arguments /\ seen' \in Seen /\ cache' \in [Keys -> Observations]
  BY DEF Forget, NoRun, Arguments, Unseen, NoCache, Seen, Observations
<1>2. QED BY <1>1, PathsTyped DEF Forget, TypeOK, Seen, Steps, tree

LEMMA TypeOthers ==
  ASSUME TypeOK,
         \/ Report \/ Kill
         \/ \E m \in Modules : Edit(m) \/ Commit(m)
         \/ \E l \in Libraries : MoveLibrary(l)
         \/ MoveGenerator
  PROVE  TypeOK'
<1> USE DEF tree, found, outcome
<1>1. NoReport \in Envelope
  BY DEF NoReport, Envelope
<1>2. CASE Report
  <2>1. {i.path : i \in {j \in applied : j.kind = "missing"}} \in SUBSET Paths
    BY DEF TypeOK, Items
  <2>2. last' \in Envelope
    BY <1>1, <1>2, <2>1 DEF Report, TypeOK, Arguments, Envelope
  <2>3. QED BY <1>2, <2>2, TypeForget DEF Report, TypeOK
<1>3. CASE Kill
  <2>1. disturbed' \in 0..MaxDisturbances
    BY <1>3, RemediationAssumption DEF Kill, TypeOK, Disturb
  <2>2. QED BY <1>1, <1>3, <2>1, TypeForget DEF Kill
<1>4. ASSUME Disturb, Touched
      PROVE  disturbed' \in 0..MaxDisturbances /\ last' \in Envelope /\ quiet' \in BOOLEAN
  BY <1>1, <1>4, RemediationAssumption DEF TypeOK, Disturb, Touched
<1>5. CASE \E m \in Modules : Edit(m)
  BY <1>4, <1>5 DEF Edit, TypeOK
<1>6. CASE \E m \in Modules : Commit(m)
  BY <1>4, <1>6 DEF Commit, TypeOK
<1>7. CASE \E l \in Libraries : MoveLibrary(l)
  BY <1>4, <1>7 DEF MoveLibrary, TypeOK
<1>8. CASE MoveGenerator
  BY <1>8, RemediationAssumption DEF MoveGenerator, Disturb, TypeOK
<1>9. QED BY <1>2, <1>3, <1>5, <1>6, <1>7, <1>8

\* Every variable keeps its type.
THEOREM TypeCorrect == Spec => []TypeOK
<1>1. ASSUME TypeOK, [Next]_vars
      PROVE  TypeOK'
  <2>1. CASE UNCHANGED vars
    BY <1>1, <2>1 DEF vars, TypeOK, tree, found, outcome
  <2>2. CASE Next
    BY <1>1, <2>2, TypeStart, TypeCheck, TypeApply, TypeOthers DEF Next, Proceed
  <2>3. QED BY <1>1, <2>1, <2>2
<1>2. QED BY <1>1, TypeInit, PTL DEF Spec
-----------------------------------------------------------------------------
(* Hints *)

HintInv ==
  /\ TypeOK
  /\ pc = "idle" => queue = {}
  /\ \A i \in queue : i.path \in run.hints

LEMMA HintStep ==
  ASSUME HintInv, TypeOK', [Next]_vars
  PROVE  HintInv'
<1> USE DEF HintInv, tree, found, outcome
<1>1. CASE UNCHANGED vars
  BY <1>1 DEF vars
<1>2. CASE \E dry, tool \in BOOLEAN, hints \in HintChoices, budget \in Budgets,
                path \in PathChoices :
             Start(dry, hints, budget, tool, path)
  BY <1>2 DEF Start
<1>3. CASE CheckBroken \/ CheckDescriptor \/ CheckBinding \/ Judge
  <2>1. pc' # "idle" /\ run' = run
    BY <1>3 DEF CheckBroken, CheckDescriptor, CheckBinding, Look, Judge, NextCheck
  <2>2. \A i \in queue' : i \in queue \/ i.path \in run.hints
    BY <1>3 DEF CheckBroken, CheckDescriptor, CheckBinding, Look, Judge, JudgeDescriptor,
                JudgeBinding, Compare, Found, Escalate, Hinted, Item
  <2>3. QED BY <2>1, <2>2
<1>4. CASE Observe
  BY <1>4 DEF Observe
<1>5. CASE \E i \in queue : Apply(i)
  BY <1>5 DEF Apply, DryApply, ApplyDead, ApplyMissing, ApplyIdentity, ApplyBinding,
              Validate, Begin, GivenUp, Written
<1>6. CASE Report \/ Kill
  BY <1>6 DEF Report, Kill, Forget
<1>7. CASE \/ \E m \in Modules : Edit(m) \/ Commit(m)
           \/ \E l \in Libraries : MoveLibrary(l)
           \/ MoveGenerator
  BY <1>7 DEF Edit, Commit, MoveLibrary, MoveGenerator
<1>8. QED BY <1>1, <1>2, <1>3, <1>4, <1>5, <1>6, <1>7 DEF Next, Proceed

\* Only a repair of the queue writes, and only the file it names.
LEMMA Writers ==
  ASSUME HintInv, [Next]_vars, NEW p \in Paths, files'[p] # files[p]
  PROVE  \E i \in queue :
            /\ i.path = p /\ ~run.dry
            /\ ApplyDead(i) \/ ApplyMissing(i) \/ ApplyIdentity(i) \/ ApplyBinding(i)
<1>1. PICK i \in queue : Apply(i)
  BY DEF Next, Proceed, vars, tree, Start, CheckBroken, CheckDescriptor, CheckBinding,
         Observe, Judge, Report, Edit, Commit, MoveLibrary, MoveGenerator, Kill
<1>2. ApplyDead(i) \/ ApplyMissing(i) \/ ApplyIdentity(i) \/ ApplyBinding(i)
  BY <1>1 DEF Apply, DryApply, Validate
<1>3. ~run.dry
  BY <1>2 DEF ApplyDead, ApplyMissing, ApplyIdentity, ApplyBinding, Begin
<1>4. \E file : files' = [files EXCEPT ![i.path] = file]
  BY <1>2 DEF ApplyDead, ApplyMissing, ApplyIdentity, ApplyBinding, GivenUp, Written
<1>5. i.path = p
  BY <1>4 DEF HintInv, TypeOK
<1>6. QED BY <1>2, <1>3, <1>5

\* A run writes only files its hints cover, a dry run none (HintsRespected).
THEOREM WritesHinted == Spec => HintsRespected
<1>1. Init => HintInv
  BY TypeInit DEF Init, HintInv
<1>2. HintInv /\ TypeOK' /\ [Next]_vars => HintInv'
  BY HintStep
<1>3. HintInv /\ [Next]_vars =>
        [\A p \in Paths : files'[p] # files[p] => p \in run.hints /\ ~run.dry]_files
  BY Writers DEF HintInv
<1>4. QED BY <1>1, <1>2, <1>3, TypeCorrect, PTL DEF Spec, HintsRespected
-----------------------------------------------------------------------------
(* Reviewed identities *)

\* While nobody touches the checkout, every observation still holds, and a
\* queued identity is that of a committed source.
Reviewed ==
  /\ \A k \in Keys : cache[k] \in Contents => cache[k] = worktree[k[1]]
  /\ seen.abi \in Contents => seen.abi = worktree[Source(at)]
  /\ \A i \in queue : i.kind = "stale" =>
        i.to = worktree[Source(i.path)] /\ Clean(Source(i.path))

ReviewInv ==
  /\ HintInv
  /\ pc = "idle" => cache = NoCache /\ seen = Unseen
  /\ quiet => Reviewed

LEMMA NothingReviewed ==
  ASSUME cache = NoCache, seen = Unseen, queue = {}
  PROVE  Reviewed
BY ContentsApart DEF NoCache, Unseen, Reviewed

LEMMA ReviewChecks ==
  ASSUME ReviewInv, HintInv',
         CheckBroken \/ CheckDescriptor \/ CheckBinding \/ Observe \/ Judge
  PROVE  ReviewInv'
<1> USE DEF ReviewInv, tree, found, outcome
<1>0. None \notin Contents /\ Unresolved \notin Contents /\ Failed \notin Contents
  BY ContentsApart
<1>1. CASE CheckBroken
  BY <1>0, <1>1 DEF CheckBroken, Escalate, NextCheck, Unseen, Reviewed, Clean
<1>2. CASE CheckDescriptor \/ CheckBinding
  <2>1. \A i \in queue' : i \in queue \/ i.kind = "dead"
    BY <1>2 DEF CheckDescriptor, CheckBinding, Look, Escalate, found, Found, Hinted, Item
  <2>2. seen'.abi = None /\ pc' # "idle"
    BY <1>2 DEF CheckDescriptor, CheckBinding, Look, Escalate, found, NextCheck, Unseen
  <2>3. UNCHANGED <<worktree, head, cache, quiet>>
    BY <1>2 DEF CheckDescriptor, CheckBinding, Look, Escalate, found
  <2>4. QED BY <1>0, <2>1, <2>2, <2>3 DEF Reviewed, Clean
<1>3. CASE Observe
  <2> DEFINE key == <<Source(at), seen.roots>>
  <2>1. key \in Keys /\ seen \in Seen /\ cache \in [Keys -> Observations]
    BY PathsTyped DEF HintInv, TypeOK, Keys, Seen
  <2>2. PICK abi \in Observations :
          /\ abi = cache[key] \/ abi = Abi(Source(at), seen.roots) \/ abi = Failed
          /\ cache' = [cache EXCEPT ![key] = abi]
          /\ seen' = [seen EXCEPT !.abi = abi]
    BY <1>3 DEF Observe
  <2>3. ASSUME quiet, abi \in Contents
        PROVE  abi = worktree[Source(at)]
    <3>1. CASE abi = cache[key]
      BY <2>1, <2>3, <3>1 DEF Reviewed
    <3>2. CASE abi = Abi(Source(at), seen.roots)
      BY <1>0, <2>3, <3>2 DEF Abi
    <3>3. QED BY <1>0, <2>2, <2>3, <3>1, <3>2
  <2>4. ASSUME quiet
        PROVE  Reviewed'
    <3>1. \A k \in Keys : cache'[k] \in Contents => cache'[k] = worktree[k[1]]
      BY <2>1, <2>2, <2>3, <2>4 DEF Reviewed
    <3>2. seen'.abi \in Contents => seen'.abi = worktree[Source(at)]
      BY <2>1, <2>2, <2>3, <2>4 DEF Seen
    <3>3. QED BY <1>3, <2>4, <3>1, <3>2 DEF Observe, Reviewed, Clean
  <2>5. QED BY <1>3, <2>4 DEF Observe
<1>4. CASE Judge
  <2>1. ASSUME quiet, NEW i \in queue', i.kind = "stale"
        PROVE  i.to = worktree[Source(i.path)] /\ Clean(Source(i.path))
    <3>1. CASE i \in queue
      BY <2>1, <3>1 DEF Reviewed
    <3>2. CASE i \notin queue
      <4>1. i \in Hinted("stale", at, seen.abi) /\ seen.abi \in Contents /\ Clean(Source(at))
        BY <1>4, <2>1, <3>2
           DEF Judge, JudgeDescriptor, JudgeBinding, Compare, Found, Escalate, Hinted, Item
      <4>2. QED BY <2>1, <4>1 DEF Hinted, Item, Reviewed
    <3>3. QED BY <3>1, <3>2
  <2>2. seen'.abi = None /\ pc' # "idle" /\ UNCHANGED <<worktree, head, cache, quiet>>
    BY <1>4 DEF Judge, NextCheck, Unseen
  <2>3. QED BY <1>0, <2>1, <2>2 DEF Reviewed, Clean
<1>5. QED BY <1>1, <1>2, <1>3, <1>4

LEMMA ReviewStep ==
  ASSUME ReviewInv, HintInv', [Next]_vars
  PROVE  ReviewInv'
<1> USE DEF ReviewInv, tree, found, outcome
<1>1. CASE UNCHANGED vars
  BY <1>1 DEF vars, Reviewed, Clean, NoCache, Unseen
<1>2. CASE \E dry, tool \in BOOLEAN, hints \in HintChoices, budget \in Budgets,
                path \in PathChoices :
             Start(dry, hints, budget, tool, path)
  <2>1. cache' = NoCache /\ seen' = Unseen /\ queue' = {} /\ pc' # "idle"
    BY <1>2 DEF Start, HintInv
  <2>2. Reviewed'
    BY <2>1, ContentsApart DEF NoCache, Unseen, Reviewed
  <2>3. QED BY <2>1, <2>2
<1>3. CASE \E i \in queue : Apply(i)
  <2>1. UNCHANGED <<worktree, head, cache, seen, at, queue, quiet>> /\ pc' # "idle"
    BY <1>3 DEF Apply, DryApply, ApplyDead, ApplyMissing, ApplyIdentity, ApplyBinding,
                Validate, Begin, GivenUp, Written
  <2>2. QED BY <2>1 DEF Reviewed, Clean
<1>4. CASE Report \/ Kill
  <2>1. cache' = NoCache /\ seen' = Unseen /\ queue' = {}
    BY <1>4 DEF Report, Kill, Forget, NoCache, Unseen
  <2>2. Reviewed'
    BY <2>1, ContentsApart DEF NoCache, Unseen, Reviewed
  <2>3. QED BY <2>1, <2>2 DEF NoCache, Unseen
<1>5. CASE \/ \E m \in Modules : Edit(m) \/ Commit(m)
           \/ \E l \in Libraries : MoveLibrary(l)
  <2>1. UNCHANGED <<cache, seen, at, queue, pc>> /\ quiet' = (pc = "idle")
    BY <1>5 DEF Edit, Commit, MoveLibrary, Touched
  <2>2. CASE pc = "idle"
    <3>1. cache' = NoCache /\ seen' = Unseen /\ queue' = {}
      BY <2>1, <2>2 DEF HintInv
    <3>2. Reviewed'
      BY <3>1, ContentsApart DEF NoCache, Unseen, Reviewed
    <3>3. QED BY <2>1, <3>1, <3>2 DEF NoCache, Unseen
  <2>3. CASE pc # "idle"
    BY <2>1, <2>3
  <2>4. QED BY <2>2, <2>3
<1>6. CASE MoveGenerator
  BY <1>6 DEF MoveGenerator, Reviewed, Clean, NoCache, Unseen
<1>7. QED BY <1>1, <1>2, <1>3, <1>4, <1>5, <1>6, ReviewChecks DEF Next, Proceed

\* A run that nobody disturbs freezes an identity only to that of the committed
\* source (RefreezeReviewed), the regenerated binding included.
THEOREM FreezesReviewed == Spec => RefreezeReviewed
<1>1. Init => ReviewInv
  BY TypeInit, NothingReviewed DEF Init, ReviewInv, HintInv
<1>2. ReviewInv /\ HintInv' /\ [Next]_vars => ReviewInv'
  BY ReviewStep
<1>3. HintInv /\ TypeOK' /\ [Next]_vars => HintInv'
  BY HintStep
<1>4. ReviewInv => HintInv
  BY DEF ReviewInv
<1>5. ASSUME ReviewInv, [Next]_vars, NEW p \in Paths,
             files'[p].frozen # files[p].frozen, quiet
      PROVE  files'[p].frozen = head[Source(p)]
  <2>1. PICK i \in queue :
          /\ i.path = p
          /\ ApplyDead(i) \/ ApplyMissing(i) \/ ApplyIdentity(i) \/ ApplyBinding(i)
    BY <1>5, Writers DEF ReviewInv
  <2>2. files \in [Paths -> File] /\ files[p] \in File
    BY <1>5 DEF ReviewInv, HintInv, TypeOK
  <2>3. CASE ApplyDead(i)
    BY <1>5, <2>1, <2>2, <2>3 DEF ApplyDead, Written, File
  <2>4. CASE ApplyMissing(i)
    BY <1>5, <2>1, <2>2, <2>4 DEF ApplyMissing, GivenUp, Written, File
  <2>5. CASE ApplyIdentity(i)
    <3>1. files'[p].frozen = i.to /\ i.kind = "stale"
      BY <2>1, <2>2, <2>5 DEF ApplyIdentity, Written, File
    <3>2. QED BY <1>5, <2>1, <3>1 DEF ReviewInv, Reviewed, Clean
  <2>6. CASE ApplyBinding(i)
    <3>1. i.kind = "stale" /\ p = Binding
      BY <2>1, <2>6 DEF ApplyBinding, Begin
    <3>2. /\ Abi(Source(Binding), RepairRoots) \in Contents
          /\ files'[p].frozen = Abi(Source(Binding), RepairRoots)
      BY <1>5, <2>1, <2>2, <2>6, <3>1 DEF ApplyBinding, GivenUp, Written, File
    <3>3. files'[p].frozen = worktree[Source(p)]
      BY <3>1, <3>2, ContentsApart DEF Abi
    <3>4. QED BY <1>5, <2>1, <3>1, <3>3 DEF ReviewInv, Reviewed, Clean
  <2>7. QED BY <2>1, <2>3, <2>4, <2>5, <2>6
<1>6. ReviewInv /\ [Next]_vars =>
        [\A p \in Paths : files'[p].frozen # files[p].frozen /\ quiet
           => files'[p].frozen = head[Source(p)]]_files
  BY <1>5
<1>7. QED BY <1>1, <1>2, <1>3, <1>4, <1>6, TypeCorrect, PTL DEF Spec, RefreezeReviewed
-----------------------------------------------------------------------------
(* A passed verdict *)

\* The items of the queue that did not succeed; a dry run repairs nothing.
Undone == IF run.dry THEN queue ELSE queue \ applied

\* The run is past the checks of p.
Checked(p) ==
  \/ pc \in {"apply", "validate"}
  \/ p \in Descriptors /\ (at = Binding \/ p < at)

LibsKnown(p) ==
  \/ files[p].libs \subseteq present
  \/ \E i \in Undone : i.kind = "dead" /\ i.path = p

\* What there is to repair in p is in the queue.
Coherent(p) ==
  /\ files[p].shape = "ok"
  /\ LibsKnown(p)
  /\ run.tool /\ files[p].frozen # None =>
       \/ files[p].frozen = worktree[Source(p)]
       \/ \E i \in queue : i.kind = "missing" /\ i.path = p
       \/ \E i \in Undone : i.kind = "stale" /\ i.path = p

\* What the run read of the file it observes still stands.
Looked ==
  /\ files[at].shape = "ok"
  /\ seen.frozen = files[at].frozen
  /\ at \in run.hints => LibsKnown(at)

CleanInv ==
  /\ ReviewInv
  /\ IsFiniteSet(queue)
  /\ files[Binding].libs = {}
  /\ \A i \in queue : i.kind # "stale" => i.path \in Descriptors
  /\ pc \notin {"apply", "validate"} => applied = {}
  /\ quiet /\ pc \in {"observe", "judge"} => Looked
  /\ quiet /\ pc # "idle" /\ errors = 0 =>
       \A p \in run.hints : Checked(p) => Coherent(p)
  /\ PassedMeansClean

LEMMA CleanIs ==
  ASSUME CleanInv
  PROVE  /\ TypeOK /\ HintInv /\ ReviewInv
         /\ files \in [Paths -> File] /\ at \in Paths /\ seen \in Seen
         /\ queue \subseteq Items /\ errors \in Nat
         /\ run.hints \subseteq Paths /\ run \in Arguments
         /\ quiet => Reviewed
BY DEF CleanInv, ReviewInv, HintInv, TypeOK, Seen, Arguments

\* A check only adds to the queue, so what was coherent stays it.
LEMMA StaysCoherent ==
  ASSUME NEW p \in Paths, queue \subseteq queue',
         UNCHANGED <<tree, files, run, outcome>>
  PROVE  /\ LibsKnown(p) => LibsKnown(p)'
         /\ Coherent(p) => Coherent(p)'
BY DEF LibsKnown, Coherent, Undone, tree, outcome

\* Going on to the next check, only the file just checked is new.
LEMMA NextChecked ==
  ASSUME TypeOK, NextCheck, NEW p \in Paths, Checked(p)'
  PROVE  Checked(p) \/ p = at
<1>1. CASE at = Binding
  BY <1>1 DEF NextCheck, Checked, Paths, Descriptors, Binding
<1>2. CASE at \in Descriptors /\ at < NumDescriptors
  BY <1>2, RemediationAssumption DEF NextCheck, Checked, Paths, Descriptors, Binding
<1>3. CASE at \in Descriptors /\ ~(at < NumDescriptors)
  BY <1>3, RemediationAssumption DEF NextCheck, Checked, Paths, Descriptors, Binding
<1>4. QED BY <1>1, <1>2, <1>3 DEF TypeOK, Paths

\* The check of one file is over.
LEMMA CleanChecked ==
  ASSUME CleanInv, ReviewInv', NextCheck, NEW file, file = at, pc \in {"check", "observe", "judge"},
         UNCHANGED <<tree, files, run, outcome, last, quiet>>,
         queue \subseteq queue', IsFiniteSet(queue'),
         \A i \in queue' : i.kind # "stale" => i.path \in Descriptors,
         errors' = 0 => errors = 0,
         quiet /\ errors' = 0 /\ file \in run.hints => Coherent(file)'
  PROVE  CleanInv'
<1>1. pc' \in {"check", "apply"} /\ applied' = applied /\ applied = {}
  BY DEF NextCheck, CleanInv, outcome
<1>2. ASSUME quiet, errors' = 0, NEW p \in run.hints, Checked(p)'
      PROVE  Coherent(p)'
  <2>1. p \in Paths /\ TypeOK BY CleanIs
  <2>2. CASE p = file BY <1>2, <2>2
  <2>3. CASE p # file
    <3>1. Checked(p) BY <1>2, <2>1, <2>3, NextChecked
    <3>2. Coherent(p) BY <1>2, <3>1 DEF CleanInv
    <3>3. QED BY <2>1, <3>2, StaysCoherent
  <2>4. QED BY <2>2, <2>3
<1>3. PassedMeansClean' BY <1>1 DEF PassedMeansClean
<1>4. QED BY <1>1, <1>2, <1>3 DEF CleanInv, tree, outcome

\* The run goes on to observe the module of the file it checks.
LEMMA CleanLooks ==
  ASSUME CleanInv, ReviewInv', Look, NEW file, file = at, pc = "check", files[at].shape = "ok",
         UNCHANGED <<tree, files, run, outcome, last, quiet, errors>>,
         queue \subseteq queue', IsFiniteSet(queue'),
         \A i \in queue' : i.kind # "stale" => i.path \in Descriptors,
         file \in run.hints => LibsKnown(file)'
  PROVE  CleanInv'
<1>1. pc' = "observe" /\ at' = at /\ applied' = applied /\ applied = {}
  BY DEF Look, CleanInv, outcome
<1>2. Looked' BY <1>1 DEF Look, Looked
<1>3. ASSUME quiet, errors' = 0, NEW p \in run.hints, Checked(p)'
      PROVE  Coherent(p)'
  BY <1>1, <1>3, CleanIs, StaysCoherent DEF CleanInv, Checked
<1>4. PassedMeansClean' BY <1>1 DEF PassedMeansClean
<1>5. QED BY <1>1, <1>2, <1>3, <1>4 DEF CleanInv, tree, outcome

LEMMA CleanChecks ==
  ASSUME CleanInv, ReviewInv',
         CheckBroken \/ CheckDescriptor \/ CheckBinding \/ Observe \/ Judge
  PROVE  CleanInv'
<1>0. /\ TypeOK /\ at \in Paths /\ errors \in Nat /\ IsFiniteSet(queue)
      /\ files[at] \in File
      /\ \A i \in queue : i.kind # "stale" => i.path \in Descriptors
  BY CleanIs DEF CleanInv
<1> PICK file \in Paths : file = at BY <1>0
<1>1. CASE CheckBroken
  <2>1. errors' # 0 /\ queue' = queue BY <1>0, <1>1 DEF CheckBroken, Escalate
  <2>2. QED BY <1>0, <1>1, <2>1, CleanChecked DEF CheckBroken
<1>2. CASE CheckDescriptor
  <2> DEFINE dead == IF files[at].libs \subseteq present THEN {} ELSE Hinted("dead", at, None)
  <2>1. IsFiniteSet(dead) /\ \A i \in dead : i.kind = "dead" /\ i.path \in Descriptors
    <3>1. at \in Descriptors BY <1>2 DEF CheckDescriptor
    <3>2. dead = {} \/ dead = {Item("dead", at, None)} BY DEF Hinted
    <3> HIDE DEF dead
    <3>3. IsFiniteSet(dead) BY <3>2, FS_EmptySet, FS_Singleton, Zenon
    <3>4. QED BY <3>1, <3>2, <3>3 DEF Item
  <2>2. file \in run.hints /\ ~(files[at].libs \subseteq present) =>
          Item("dead", at, None) \in dead
    BY DEF Hinted
  <2>3. /\ UNCHANGED <<tree, files, run, outcome, last, quiet>>
        /\ pc = "check" /\ files[at].shape = "ok" /\ at \in Descriptors
        /\ queue' = queue \cup dead
        /\ \/ /\ files[at].frozen = None \/ ~run.tool
              /\ errors' = errors /\ NextCheck
           \/ errors' = errors + 1 /\ NextCheck
           \/ errors' = errors /\ Look
    BY <1>2 DEF CheckDescriptor, Found
  <2> HIDE DEF dead
  <2>4. /\ queue \subseteq queue' /\ IsFiniteSet(queue')
        /\ \A i \in queue' : i.kind # "stale" => i.path \in Descriptors
    BY <1>0, <2>1, <2>3, FS_Union
  <2>5. ASSUME file \in run.hints PROVE LibsKnown(file)'
    <3>1. CASE files[at].libs \subseteq present BY <2>3, <3>1 DEF LibsKnown, tree
    <3>2. CASE ~(files[at].libs \subseteq present)
      <4>1. Item("dead", at, None) \in Undone'
        BY <2>2, <2>3, <2>5, <3>2 DEF Undone, outcome, CleanInv
      <4>2. QED BY <2>3, <4>1 DEF LibsKnown, Item, tree
    <3>3. QED BY <3>1, <3>2
  <2>6. CASE Look /\ errors' = errors BY <2>3, <2>4, <2>5, <2>6, CleanLooks
  <2>7. CASE errors' = errors + 1 /\ NextCheck
    BY <1>0, <2>3, <2>4, <2>7, CleanChecked
  <2>8. CASE (files[at].frozen = None \/ ~run.tool) /\ errors' = errors /\ NextCheck
    <3>1. file \in run.hints => Coherent(file)' BY <2>3, <2>5, <2>8 DEF Coherent
    <3>2. QED BY <2>3, <2>4, <2>8, <3>1, CleanChecked
  <2>9. QED BY <2>3, <2>6, <2>7, <2>8
<1>3. CASE CheckBinding
  <2>1. /\ UNCHANGED <<tree, files, run, outcome, last, quiet>>
        /\ pc = "check" /\ files[at].shape = "ok" /\ at = Binding
        /\ queue' = queue
        /\ \/ ~run.tool /\ errors' = errors /\ NextCheck
           \/ errors' = errors + 1 /\ NextCheck
           \/ errors' = errors /\ Look
    BY <1>3 DEF CheckBinding, Escalate, found
  <2>2. LibsKnown(file)' BY <2>1 DEF CleanInv, LibsKnown
  <2>3. CASE Look /\ errors' = errors BY <1>0, <2>1, <2>2, <2>3, CleanLooks
  <2>4. CASE errors' = errors + 1 /\ NextCheck BY <1>0, <2>1, <2>4, CleanChecked
  <2>5. CASE ~run.tool /\ errors' = errors /\ NextCheck
    <3>1. Coherent(file)' BY <2>1, <2>2, <2>5 DEF Coherent
    <3>2. QED BY <1>0, <2>1, <2>5, <3>1, CleanChecked
  <2>6. QED BY <2>1, <2>3, <2>4, <2>5
<1>4. CASE Observe
  <2>1. /\ UNCHANGED <<tree, files, run, outcome, last, quiet, at, found>>
        /\ pc = "observe" /\ pc' = "judge" /\ seen'.frozen = seen.frozen
    BY <1>4, CleanIs DEF Observe, Seen
  <2>2. Looked => Looked' BY <1>0, <2>1, StaysCoherent DEF Looked, found
  <2>3. ASSUME quiet, errors = 0, NEW p \in run.hints, Checked(p)'
        PROVE  Coherent(p)'
    BY <2>1, <2>3, CleanIs, StaysCoherent DEF CleanInv, Checked, found
  <2>4. PassedMeansClean' BY <2>1 DEF PassedMeansClean
  <2>5. QED BY <2>1, <2>2, <2>3, <2>4 DEF CleanInv, tree, outcome, found
<1>5. CASE Judge
  <2>1. /\ UNCHANGED <<tree, files, run, outcome, last, quiet>> /\ NextCheck /\ pc = "judge"
    BY <1>5 DEF Judge
  <2>2. \/ errors' = errors + 1 /\ queue' = queue
        \/ seen.abi = seen.frozen /\ errors' = errors /\ queue' = queue
        \/ /\ at \in Descriptors /\ errors' = errors
           /\ queue' = queue \cup Hinted("missing", at, None)
        \/ errors' = errors /\ queue' = queue \cup Hinted("stale", at, seen.abi)
    BY <1>5, RemediationAssumption
       DEF Judge, JudgeDescriptor, JudgeBinding, Compare, Escalate, Found, LacksStd, found
  <2>3. quiet => Looked BY <2>1 DEF CleanInv
  <2>4. CASE errors' = errors + 1 /\ queue' = queue
    BY <1>0, <2>1, <2>4, CleanChecked
  <2>5. CASE seen.abi = seen.frozen /\ errors' = errors /\ queue' = queue
    <3>1. ASSUME quiet, files[at].frozen # None
          PROVE  files[at].frozen = worktree[Source(at)]
      <4>1. seen.abi \in Contents BY <1>0, <2>3, <2>5, <3>1 DEF Looked, File
      <4>2. QED BY <2>3, <2>5, <3>1, <4>1, CleanIs DEF Reviewed, Looked
    <3>2. quiet /\ file \in run.hints => Coherent(file)
      BY <2>3, <3>1 DEF Looked, Coherent
    <3>3. quiet /\ file \in run.hints => Coherent(file)'
      BY <1>0, <2>1, <2>5, <3>2, StaysCoherent
    <3>4. QED BY <1>0, <2>1, <2>5, <3>3, CleanChecked
  <2>6. ASSUME NEW kind \in {"missing", "stale"}, NEW to,
               queue' = queue \cup Hinted(kind, at, to), errors' = errors,
               kind = "missing" => at \in Descriptors
        PROVE  CleanInv'
    <3>1. /\ queue \subseteq queue' /\ IsFiniteSet(queue')
          /\ \A i \in queue' : i.kind # "stale" => i.path \in Descriptors
      <4>1. /\ Hinted(kind, at, to) = {} \/ Hinted(kind, at, to) = {Item(kind, at, to)}
            /\ kind # "stale" => at \in Descriptors
        BY <2>6 DEF Hinted
      <4>2. IsFiniteSet(Hinted(kind, at, to))
        <5>1. CASE Hinted(kind, at, to) = {} BY <5>1, FS_EmptySet
        <5>2. CASE Hinted(kind, at, to) = {Item(kind, at, to)}
          <6> DEFINE item == Item(kind, at, to)
          <6> HIDE DEF item
          <6>1. IsFiniteSet({item}) BY FS_Singleton
          <6>2. QED BY <5>2, <6>1 DEF item
        <5>3. QED BY <4>1, <5>1, <5>2
      <4>3. \A i \in Hinted(kind, at, to) : i.kind # "stale" => i.path \in Descriptors
        BY <4>1 DEF Item
      <4>4. QED BY <1>0, <2>6, <4>2, <4>3, FS_Union
    <3>2. ASSUME quiet, file \in run.hints PROVE Coherent(file)'
      <4>1. LibsKnown(file)' /\ files'[file].shape = "ok"
        BY <1>0, <2>1, <2>3, <3>1, <3>2, StaysCoherent DEF Looked
      <4>2. Item(kind, at, to) \in queue' /\ Item(kind, at, to) \in Undone'
        BY <2>1, <2>6, <3>2 DEF Hinted, Undone, CleanInv, outcome
      <4>3. QED BY <2>1, <2>6, <4>1, <4>2 DEF Coherent, Item
    <3>3. QED BY <2>1, <2>6, <3>1, <3>2, CleanChecked
  <2>7. QED BY <2>2, <2>4, <2>5, <2>6
<1>6. QED BY <1>1, <1>2, <1>3, <1>4, <1>5

\* What a repair leaves of a file: what it writes is right, and it is done only
\* when it validated.
LEMMA StaysRepaired ==
  ASSUME CleanInv, quiet, NEW i \in queue, NEW p \in Paths,
         Apply(i), Coherent(p)
  PROVE  Coherent(p)'
<1> USE DEF tree, found, outcome
<1>0. /\ files \in [Paths -> File] /\ files[p] \in File /\ i \in Items /\ Binding \in Paths
      /\ \A j \in queue : j.kind = "stale" => j.to = worktree[Source(j.path)]
  BY CleanIs, PathsTyped DEF Reviewed
<1>1. UNCHANGED <<worktree, present, run, queue>>
  BY DEF Apply, DryApply, ApplyDead, ApplyMissing, ApplyIdentity, ApplyBinding, Validate
<1>2. CASE DryApply(i)
  BY <1>2 DEF DryApply, Coherent, LibsKnown, Undone
<1>3. CASE Validate(i)
  <2>1. UNCHANGED files /\ (applied' = applied \/ (Valid(i) /\ applied' = applied \cup {i}))
    <3>1. CASE Valid(i) BY <1>3, <3>1 DEF Validate, Succeed
    <3>2. CASE ~Valid(i) BY <1>3, <3>2 DEF Validate, Fail
    <3>3. QED BY <3>1, <3>2
  <2>2. LibsKnown(p)'
    BY <1>1, <2>1 DEF Coherent, LibsKnown, Undone, Valid
  <2>3. ASSUME Valid(i), i.kind = "stale", i.path = p
        PROVE  files[p].frozen = worktree[Source(p)]
    BY <1>0, <2>3 DEF Valid
  <2>4. QED BY <1>1, <2>1, <2>2, <2>3 DEF Coherent, Undone
<1>4. ASSUME NEW file, applied' = applied,
             files' = [files EXCEPT ![i.path] = file],
             i.path = p => /\ file.shape = files[p].shape
                           /\ files[p].libs \subseteq present => file.libs \subseteq present
                           /\ \/ file.frozen = files[p].frozen
                              \/ file.frozen = worktree[Source(p)]
      PROVE  Coherent(p)'
  <2>1. files'[p] = IF i.path = p THEN file ELSE files[p] BY <1>0, <1>4
  <2>2. QED BY <1>1, <1>4, <2>1 DEF Coherent, LibsKnown, Undone
<1>5. CASE UNCHANGED <<files, applied>>
  BY <1>1, <1>5 DEF Coherent, LibsKnown, Undone
<1>6. CASE ApplyDead(i)
  BY <1>0, <1>4, <1>6 DEF ApplyDead, Written, File
<1>7. CASE ApplyMissing(i)
  BY <1>0, <1>4, <1>5, <1>7 DEF ApplyMissing, GivenUp, Fail, Written, File
<1>8. CASE ApplyIdentity(i)
  BY <1>0, <1>4, <1>8 DEF ApplyIdentity, Begin, Written, File
<1>9. CASE ApplyBinding(i)
  <2> DEFINE abi == Abi(Source(Binding), RepairRoots)
  <2>1. abi \in Contents => abi = worktree[Source(Binding)]
    BY ContentsApart DEF Abi
  <2> HIDE DEF abi
  <2>2. i.path = Binding /\ (UNCHANGED <<files, applied>>
          \/ (abi \in Contents /\ Written(i, [files[Binding] EXCEPT !.frozen = abi])))
    BY <1>9 DEF ApplyBinding, Begin, GivenUp, Fail, abi
  <2>3. QED BY <1>0, <1>4, <1>5, <2>1, <2>2 DEF Written, File
<1>10. QED BY <1>2, <1>3, <1>6, <1>7, <1>8, <1>9 DEF Apply

LEMMA CleanApply ==
  ASSUME CleanInv, ReviewInv', NEW i \in queue, Apply(i)
  PROVE  CleanInv'
<1> USE DEF tree, found, outcome
<1>1. /\ UNCHANGED <<present, run, queue, errors, last, quiet>>
      /\ pc \in {"apply", "validate"} /\ pc' \in {"apply", "validate"}
  BY DEF Apply, DryApply, ApplyDead, ApplyMissing, ApplyIdentity, ApplyBinding,
         Validate, Begin, GivenUp, Written
<1>2. files'[Binding].libs = {}
  <2>1. files \in [Paths -> File] /\ Binding \in Paths /\ files[Binding].libs = {}
    BY CleanIs, PathsTyped DEF CleanInv
  <2>2. files[Binding] \in File /\ (i.kind # "stale" => i.path # Binding)
    BY <2>1 DEF CleanInv, Descriptors, Binding
  <2>3. QED
    BY <2>1, <2>2
       DEF Apply, DryApply, ApplyDead, ApplyMissing, ApplyIdentity, ApplyBinding,
           Validate, Begin, GivenUp, Written, File
<1>3. ASSUME quiet, errors = 0, NEW p \in run.hints PROVE Coherent(p)'
  <2>1. Coherent(p) /\ p \in Paths BY <1>1, <1>3, CleanIs DEF CleanInv, Checked
  <2>2. QED BY <1>3, <2>1, StaysRepaired
<1>4. PassedMeansClean' BY <1>1 DEF PassedMeansClean
<1>5. QED BY <1>1, <1>2, <1>3, <1>4 DEF CleanInv

\* The count of errors is 0 only if all that was found was repaired.
LEMMA NothingLeft ==
  ASSUME TypeOK, IsFiniteSet(queue), ErrorsAfter = 0
  PROVE  errors = 0 /\ Undone = {} /\ (run.dry => queue = {})
<1>1. applied \subseteq queue /\ failed \subseteq queue \ applied /\ errors \in Nat
  BY DEF TypeOK
<1>2. /\ IsFiniteSet(applied) /\ IsFiniteSet(failed)
      /\ Cardinality(queue) \in Nat /\ Cardinality(applied) \in Nat
      /\ Cardinality(failed) \in Nat /\ Cardinality(applied) <= Cardinality(queue)
      /\ Cardinality(applied) = Cardinality(queue) => applied = queue
  BY <1>1, FS_Subset, FS_CardinalityType
<1>3. CASE run.dry
  <2>1. Cardinality(queue) = 0 /\ errors = 0 BY <1>1, <1>2, <1>3 DEF ErrorsAfter
  <2>2. QED BY <1>3, <2>1, FS_EmptySet DEF Undone
<1>4. CASE ~run.dry
  <2>1. errors = 0 /\ Cardinality(applied) = Cardinality(queue)
    <3>1. \A q, a, f, e \in Nat :
            a <= q /\ ((q + e) - a) + f = 0 => e = 0 /\ a = q
      OBVIOUS
    <3>2. ((Cardinality(queue) + errors) - Cardinality(applied)) + Cardinality(failed) = 0
      BY <1>1, <1>2, <1>4 DEF ErrorsAfter
    <3>3. QED BY <1>1, <1>2, <3>1, <3>2
  <2>2. QED BY <1>2, <1>4, <2>1 DEF Undone
<1>5. QED BY <1>3, <1>4

LEMMA CleanReport ==
  ASSUME CleanInv, Report
  PROVE  PassedMeansClean'
<1>1. /\ TypeOK /\ IsFiniteSet(queue) /\ pc = "apply"
      /\ UNCHANGED <<files, present, worktree>>
  BY CleanIs DEF CleanInv, Report, tree
<1>2. SUFFICES ASSUME last'.passed, NEW p \in last'.hints
               PROVE  /\ files[p].shape = "ok"
                      /\ files[p].libs \subseteq present
                      /\ last'.tool /\ files[p].frozen # None /\ p \notin last'.added
                           => files[p].frozen = worktree[Source(p)]
  BY <1>1 DEF PassedMeansClean
<1>3. quiet /\ ErrorsAfter = 0 BY <1>2 DEF Report, NoReport
<1>4. /\ p \in run.hints /\ last'.tool = run.tool
      /\ last'.added = {i.path : i \in {j \in applied : j.kind = "missing"}}
  BY <1>2, <1>3 DEF Report
<1>5. errors = 0 /\ Undone = {} /\ (run.dry => queue = {})
  BY <1>1, <1>3, NothingLeft
<1>6. Coherent(p) BY <1>1, <1>3, <1>4, <1>5 DEF CleanInv, Checked
<1>7. \A i \in queue : i.kind = "missing" => i.path \in last'.added
  BY <1>4, <1>5 DEF Undone
<1>8. QED BY <1>4, <1>5, <1>6, <1>7 DEF Coherent, LibsKnown

LEMMA CleanStep ==
  ASSUME CleanInv, ReviewInv', [Next]_vars
  PROVE  CleanInv'
<1> USE DEF tree, found, outcome
<1>1. CASE UNCHANGED vars
  BY <1>1 DEF vars, CleanInv, PassedMeansClean, Looked, Checked, Coherent, LibsKnown, Undone
<1>2. CASE \E dry, tool \in BOOLEAN, hints \in HintChoices, budget \in Budgets,
                path \in PathChoices :
             Start(dry, hints, budget, tool, path)
  <2>1. /\ pc' = "check" /\ UNCHANGED <<files, queue, applied>> /\ pc = "idle"
        /\ at' = IF NumDescriptors > 0 THEN 1 ELSE Binding
    BY <1>2 DEF Start
  <2>2. \A p \in run'.hints : ~Checked(p)'
    BY <2>1, RemediationAssumption DEF Checked, Descriptors, Binding
  <2>3. QED BY <2>1, <2>2 DEF CleanInv, PassedMeansClean
<1>3. CASE Report \/ Kill
  <2>1. /\ pc' = "idle" /\ queue' = {} /\ applied' = {} /\ UNCHANGED files
        /\ IsFiniteSet(queue')
    BY <1>3, FS_EmptySet DEF Report, Kill, Forget
  <2>2. PassedMeansClean'
    BY <1>3, CleanReport DEF Kill, NoReport, PassedMeansClean
  <2>3. QED BY <2>1, <2>2 DEF CleanInv
<1>4. CASE \/ \E m \in Modules : Edit(m) \/ Commit(m)
           \/ \E l \in Libraries : MoveLibrary(l)
  <2>1. /\ UNCHANGED <<files, queue, applied, pc>> /\ quiet' = (pc = "idle")
        /\ last' = NoReport
    BY <1>4 DEF Edit, Commit, MoveLibrary, Touched
  <2>2. QED BY <2>1 DEF CleanInv, PassedMeansClean, NoReport
<1>5. CASE MoveGenerator
  BY <1>5 DEF MoveGenerator, CleanInv, PassedMeansClean, Looked, Checked, Coherent,
              LibsKnown, Undone
<1>6. QED BY <1>1, <1>2, <1>3, <1>4, <1>5, CleanChecks, CleanApply DEF Next, Proceed

\* A passed envelope, whose verdict is computed by subtraction from counts,
\* speaks of a coherent checkout as long as nobody touches it: every file the
\* hints cover parses, has only live library entries, and is frozen to its
\* source unless it just gained its stdlib entry (PassedMeansClean).
THEOREM PassedIsClean == Spec => []PassedMeansClean
<1>1. Init => CleanInv
  <2> SUFFICES ASSUME Init PROVE CleanInv OBVIOUS
  <2>1. ReviewInv BY TypeInit, NothingReviewed DEF Init, ReviewInv, HintInv
  <2>2. QED BY <2>1, FS_EmptySet DEF Init, CleanInv, PassedMeansClean, NoReport
<1>2. CleanInv /\ ReviewInv' /\ [Next]_vars => CleanInv' BY CleanStep
<1>3. ReviewInv /\ HintInv' /\ [Next]_vars => ReviewInv' BY ReviewStep
<1>4. HintInv /\ TypeOK' /\ [Next]_vars => HintInv' BY HintStep
<1>5. CleanInv => ReviewInv /\ HintInv /\ PassedMeansClean
  BY DEF CleanInv, ReviewInv
<1>6. QED BY <1>1, <1>2, <1>3, <1>4, <1>5, TypeCorrect, PTL DEF Spec
=============================================================================
