------------------------------ MODULE Retention ------------------------------
(***************************************************************************)
(* retain and fetch (retain.py): a witness, or the evidence of a finished  *)
(* live session, is kept as one object of a store that several writers may *)
(* use at once and whose every commit names the generation it expects.     *)
(* The store is external: it refuses a put whose expected generation is    *)
(* not the current one, and otherwise keeps the payload under its identity *)
(* and moves to the next generation.                                       *)
(*                                                                         *)
(* A document is [kind, id, sound]: sound is what load_witness, or         *)
(* validate_document for live evidence, says of it.  files holds what each *)
(* writer was told to retain, and may be written again while it works.     *)
(***************************************************************************)
EXTENDS Integers

CONSTANTS
  Writers,     \* processes that retain
  Documents,   \* what a file may hold
  MaxRewrites  \* how often a file is written while it is retained

ASSUME RewriteAssumption == MaxRewrites \in Nat
ASSUME DocumentAssumption == \A d \in Documents : d.sound \in BOOLEAN

VARIABLES
  files,      \* the file each writer retains
  rewrites,   \* those still to come
  store,      \* generation and objects of the store
  retaining,  \* each writer's retain
  fetched     \* the last fetch

retentionVars == <<files, rewrites, store, retaining, fetched>>

Nothing == [kind |-> "nothing", id |-> "none", sound |-> FALSE]
NothingFetched == [asked |-> Nothing, result |-> "none", output |-> Nothing]
Keys == {[kind |-> d.kind, id |-> d.id] : d \in Documents}
KeyOf(d) == [kind |-> d.kind, id |-> d.id]

RetentionInit ==
  /\ files \in [Writers -> Documents]
  /\ rewrites = MaxRewrites
  /\ store = [generation |-> 0, objects |-> [k \in Keys |-> Nothing]]
  /\ retaining = [w \in Writers |-> [step |-> "start"]]
  /\ fetched = NothingFetched

Goto(w, r) == retaining' = [retaining EXCEPT ![w] = r]

\* Another command writes the file anew; a document keeps its kind.
Rewrite(w) ==
  /\ rewrites > 0
  /\ rewrites' = rewrites - 1
  /\ \E d \in Documents : d.kind = files[w].kind /\ files' = [files EXCEPT ![w] = d]
  /\ UNCHANGED <<store, retaining, fetched>>

\* A witness is validated from one read and its bytes are taken from the next;
\* live evidence is validated and stored from the same bytes.
ReadAndValidate(w) ==
  /\ retaining[w].step = "start"
  /\ LET d == files[w]
     IN Goto(w, CASE ~d.sound -> [step |-> "refused", why |-> "invalid"]
                  [] d.sound /\ d.kind = "witness" -> [step |-> "payload", key |-> KeyOf(d)]
                  [] OTHER -> [step |-> "open", key |-> KeyOf(d), payload |-> d])
  /\ UNCHANGED <<files, rewrites, store, fetched>>

ReadPayload(w) ==
  /\ retaining[w].step = "payload"
  /\ Goto(w, [step |-> "open", key |-> retaining[w].key, payload |-> files[w]])
  /\ UNCHANGED <<files, rewrites, store, fetched>>

\* A put of the payload of r that expects the generation of now.
Putting(r, first, again) ==
  [step |-> "put", key |-> r.key, payload |-> r.payload,
   first |-> first, expected |-> store.generation, again |-> again]

OpenStore(w) ==
  /\ retaining[w].step = "open"
  /\ Goto(w, Putting(retaining[w], store.generation, FALSE))
  /\ UNCHANGED <<files, rewrites, store, fetched>>

\* Mutant of GivesUp: the first stale generation is an error.
GivesUpAtOnce(r) == TRUE

\* A put that was refused twice is not tried again.
GivesUp(r) == r.again

\* put_bound_object: a commit, one more try with the generation of then, or,
\* when that one is stale too, an error.
Put(w) ==
  /\ retaining[w].step = "put"
  /\ LET r == retaining[w]
     IN IF r.expected = store.generation
        THEN /\ store' = [generation |-> store.generation + 1,
                          objects |-> [store.objects EXCEPT ![r.key] = r.payload]]
             /\ Goto(w, [step |-> "retained", key |-> r.key, generation |-> store.generation + 1])
        ELSE /\ UNCHANGED store
             /\ Goto(w, IF GivesUp(r)
                        THEN [step |-> "refused", why |-> "stale",
                              overtaken |-> store.generation - r.first]
                        ELSE [r EXCEPT !.step = "reopen"])
  /\ UNCHANGED <<files, rewrites, fetched>>

Reopen(w) ==
  /\ retaining[w].step = "reopen"
  /\ Goto(w, Putting(retaining[w], retaining[w].first, TRUE))
  /\ UNCHANGED <<files, rewrites, store, fetched>>

\* Mutant of FetchResult: any sound document is the one that was asked for.
FetchAnything(key, d) ==
  CASE d = Nothing -> "not retained"
    [] d # Nothing /\ ~d.sound -> "invalid"
    [] OTHER -> "fetched"

\* The identity of a witness is compared with the one that was asked for.
FetchResult(key, d) ==
  CASE d = Nothing -> "not retained"
    [] d # Nothing /\ ~d.sound -> "invalid"
    [] d # Nothing /\ d.sound /\ key.kind = "witness" /\ d.id # key.id -> "identity mismatch"
    [] OTHER -> "fetched"

\* The bytes of an object are written to the output before they are validated.
Fetch(key) ==
  /\ LET d == store.objects[key]
     IN fetched' = [asked |-> key, output |-> d, result |-> FetchResult(key, d)]
  /\ UNCHANGED <<files, rewrites, store, retaining>>

Retain(w) == ReadAndValidate(w) \/ ReadPayload(w) \/ OpenStore(w) \/ Put(w) \/ Reopen(w)

RetentionNext ==
  \/ \E w \in Writers : Rewrite(w) \/ Retain(w)
  \/ \E k \in Keys : Fetch(k)

RetentionSpec == RetentionInit /\ [][RetentionNext]_retentionVars

-----------------------------------------------------------------------------
\* A fetch that reports success gave out a sound document with the identity
\* that was asked for, whatever happened to the files while they were retained
\* (fetch_witness compares the identity, fetch_live_evidence does not).
FetchNeverLies ==
  fetched.result = "fetched" => fetched.output.sound /\ KeyOf(fetched.output) = fetched.asked

\* A retain gives up as stale only when two other commits overtook it between
\* its first look at the store and its last put: one rival never starves it.
OvertakenTwice ==
  \A w \in Writers :
    (retaining[w].step = "refused" /\ retaining[w].why = "stale") => retaining[w].overtaken >= 2
=============================================================================
