--------------------------- MODULE RetentionProofs ---------------------------
(***************************************************************************)
(* Proofs about Retention, for any number of writers, any documents and    *)
(* any number of rewrites: a fetch never gives out what was not asked for, *)
(* and a retain that gives up as stale was overtaken twice.                *)
(***************************************************************************)
EXTENDS Retention, TLAPS

\* The states of a retain, step by step.
Retaining ==
  [step : {"start"}]
    \cup [step : {"payload"}, key : Keys]
    \cup [step : {"open"}, key : Keys, payload : Documents]
    \cup [step : {"put", "reopen"}, key : Keys, payload : Documents,
          first : Nat, expected : Nat, again : BOOLEAN]
    \cup [step : {"retained"}, key : Keys, generation : Nat]
    \cup [step : {"refused"}, why : {"invalid"}]
    \cup [step : {"refused"}, why : {"stale"}, overtaken : Int]

\* Everything but the rewrites is of its type.
RetentionTypeOK ==
  /\ files \in [Writers -> Documents]
  /\ store \in [generation : Nat, objects : [Keys -> Documents \cup {Nothing}]]
  /\ retaining \in [Writers -> Retaining]

\* What a payload may be under a key: of the kind of the key, and for live
\* evidence the document that was validated.  A witness may be any document,
\* which is why a fetch must compare its identity.
Under(key, d) ==
  /\ d.kind = key.kind
  /\ key.kind # "witness" => d.sound /\ d.id = key.id

\* A retain carries a payload that belongs under its key; between the two reads
\* of a witness its file is still a witness.
CarriesItsOwn ==
  \A w \in Writers :
    /\ retaining[w].step = "payload" =>
         retaining[w].key.kind = "witness" /\ files[w].kind = "witness"
    /\ retaining[w].step \in {"open", "put", "reopen"} =>
         Under(retaining[w].key, retaining[w].payload)

\* The store keeps under each key nothing, or what belongs there.
StoreKeepsKinds ==
  \A k \in Keys : store.objects[k] # Nothing => Under(k, store.objects[k])

\* A retain looks at the store again only after one commit of another, and
\* never expects a generation that is still to come.
SeesThePast ==
  \A w \in Writers :
    LET r == retaining[w] IN
    /\ r.step = "put" =>
         r.first <= r.expected /\ r.expected <= store.generation
    /\ r.step = "put" /\ r.again => r.first < r.expected
    /\ r.step = "reopen" => r.first < store.generation

RetentionInv ==
  /\ RetentionTypeOK
  /\ CarriesItsOwn
  /\ StoreKeepsKinds
  /\ SeesThePast
  /\ FetchNeverLies
  /\ OvertakenTwice

-----------------------------------------------------------------------------
\* A document is filed under a key of its own kind and identity.
LEMMA KeyOfDocument ==
  ASSUME NEW d \in Documents
  PROVE  KeyOf(d) \in Keys /\ KeyOf(d).kind = d.kind /\ KeyOf(d).id = d.id
  BY DEF KeyOf, Keys

\* A key has a kind and an identity and nothing else.
LEMMA KeyShape ==
  ASSUME NEW k \in Keys
  PROVE  k = [kind |-> k.kind, id |-> k.id]
  BY DEF Keys

\* What is fetched from a store that keeps kinds is what was asked for.
LEMMA FetchIsTrue ==
  ASSUME NEW k \in Keys, NEW d \in Documents \cup {Nothing},
         d # Nothing => Under(k, d),
         FetchResult(k, d) = "fetched"
  PROVE  d.sound /\ KeyOf(d) = k
<1>1. d # Nothing
  BY DEF FetchResult
<1>2. d.sound \in BOOLEAN
  BY <1>1, DocumentAssumption
<1>3. d.sound
  BY <1>1, <1>2 DEF FetchResult
<1>4. d.kind = k.kind /\ d.id = k.id
  BY <1>1, <1>2, <1>3 DEF Under, FetchResult
<1>5. QED
  BY <1>3, <1>4, KeyShape DEF KeyOf

-----------------------------------------------------------------------------
LEMMA RetentionInitInv == RetentionInit => RetentionInv
<1> SUFFICES ASSUME RetentionInit PROVE RetentionInv
  OBVIOUS
<1>1. RetentionTypeOK
  BY DEF RetentionInit, RetentionTypeOK, Retaining
<1>2. CarriesItsOwn /\ SeesThePast /\ OvertakenTwice
  BY DEF RetentionInit, CarriesItsOwn, SeesThePast, OvertakenTwice
<1>3. StoreKeepsKinds /\ FetchNeverLies
  BY DEF RetentionInit, StoreKeepsKinds, FetchNeverLies, NothingFetched
<1>4. QED
  BY <1>1, <1>2, <1>3 DEF RetentionInv

\* A step of one retain that leaves the store alone keeps the invariant when
\* the retain's new state is typed, carries its own and sees the past.
LEMMA LocalStep ==
  ASSUME RetentionInv, NEW w \in Writers, NEW r \in Retaining, Goto(w, r),
         UNCHANGED <<files, store, fetched>>,
         r.step = "payload" => r.key.kind = "witness" /\ files[w].kind = "witness",
         r.step \in {"open", "put", "reopen"} => Under(r.key, r.payload),
         r.step = "put" => r.first <= r.expected /\ r.expected <= store.generation,
         r.step = "put" /\ r.again => r.first < r.expected,
         r.step = "reopen" => r.first < store.generation,
         r.step = "refused" /\ r.why = "stale" => r.overtaken >= 2
  PROVE  RetentionInv'
<1> USE DEF RetentionInv
<1>1. RetentionTypeOK'
  BY DEF Goto, RetentionTypeOK
<1>2. \A v \in Writers : retaining'[v] = IF v = w THEN r ELSE retaining[v]
  BY DEF Goto, RetentionTypeOK
<1>3. CarriesItsOwn'
  BY <1>2 DEF CarriesItsOwn
<1>4. SeesThePast'
  BY <1>2 DEF SeesThePast
<1>5. OvertakenTwice'
  BY <1>2 DEF OvertakenTwice
<1>6. StoreKeepsKinds' /\ FetchNeverLies'
  BY DEF StoreKeepsKinds, FetchNeverLies
<1>7. QED
  BY <1>1, <1>3, <1>4, <1>5, <1>6

LEMMA RewriteKeeps ==
  ASSUME RetentionInv, NEW w \in Writers, Rewrite(w)
  PROVE  RetentionInv'
<1> USE DEF RetentionInv
<1>1. PICK d \in Documents : d.kind = files[w].kind /\ files' = [files EXCEPT ![w] = d]
  BY DEF Rewrite
<1>2. UNCHANGED <<store, retaining, fetched>>
  BY DEF Rewrite
<1>3. RetentionTypeOK'
  BY <1>1, <1>2 DEF RetentionTypeOK
<1>4. \A v \in Writers : files'[v].kind = files[v].kind
  BY <1>1 DEF RetentionTypeOK
<1>5. CarriesItsOwn'
  BY <1>2, <1>4 DEF CarriesItsOwn
<1>6. (SeesThePast /\ OvertakenTwice /\ StoreKeepsKinds /\ FetchNeverLies)'
  BY <1>2 DEF SeesThePast, OvertakenTwice, StoreKeepsKinds, FetchNeverLies
<1>7. QED
  BY <1>3, <1>5, <1>6

LEMMA ReadAndValidateKeeps ==
  ASSUME RetentionInv, NEW w \in Writers, ReadAndValidate(w)
  PROVE  RetentionInv'
<1> DEFINE d == files[w]
<1>1. d \in Documents /\ d.sound \in BOOLEAN
  BY DocumentAssumption DEF RetentionInv, RetentionTypeOK
<1>2. UNCHANGED <<files, store, fetched>>
  BY DEF ReadAndValidate
<1>3. CASE ~d.sound
  <2> DEFINE r == [step |-> "refused", why |-> "invalid"]
  <2>1. Goto(w, r)
    BY <1>1, <1>3 DEF ReadAndValidate
  <2>2. r \in Retaining
    BY DEF Retaining
  <2>3. QED
    BY <1>2, <2>1, <2>2, LocalStep
<1>4. CASE d.sound /\ d.kind = "witness"
  <2> DEFINE r == [step |-> "payload", key |-> KeyOf(d)]
  <2>1. Goto(w, r)
    BY <1>1, <1>4 DEF ReadAndValidate
  <2>2. r \in Retaining /\ r.key.kind = "witness"
    BY <1>1, <1>4, KeyOfDocument DEF Retaining
  <2>3. QED
    BY <1>2, <1>4, <2>1, <2>2, LocalStep
<1>5. CASE d.sound /\ d.kind # "witness"
  <2> DEFINE r == [step |-> "open", key |-> KeyOf(d), payload |-> d]
  <2>1. Goto(w, r)
    BY <1>1, <1>5 DEF ReadAndValidate
  <2>2. r \in Retaining /\ Under(r.key, r.payload)
    BY <1>1, <1>5, KeyOfDocument DEF Retaining, Under
  <2>3. QED
    BY <1>2, <2>1, <2>2, LocalStep
<1>6. QED
  BY <1>1, <1>3, <1>4, <1>5

LEMMA ReadPayloadKeeps ==
  ASSUME RetentionInv, NEW w \in Writers, ReadPayload(w)
  PROVE  RetentionInv'
<1> DEFINE r == [step |-> "open", key |-> retaining[w].key, payload |-> files[w]]
<1>1. retaining[w] \in Retaining /\ retaining[w].step = "payload"
  BY DEF RetentionInv, RetentionTypeOK, ReadPayload
<1>2. retaining[w].key \in Keys
  BY <1>1 DEF Retaining
<1>3. files[w] \in Documents
  BY DEF RetentionInv, RetentionTypeOK
<1>4. Under(r.key, r.payload)
  BY <1>1 DEF RetentionInv, CarriesItsOwn, Under
<1>5. r \in Retaining
  BY <1>2, <1>3 DEF Retaining
<1>6. Goto(w, r) /\ UNCHANGED <<files, store, fetched>>
  BY DEF ReadPayload
<1>7. QED
  BY <1>4, <1>5, <1>6, LocalStep

LEMMA OpenStoreKeeps ==
  ASSUME RetentionInv, NEW w \in Writers, OpenStore(w)
  PROVE  RetentionInv'
<1> USE DEF Putting
<1> DEFINE r == Putting(retaining[w], store.generation, FALSE)
<1>1. retaining[w] \in Retaining /\ retaining[w].step = "open"
  BY DEF RetentionInv, RetentionTypeOK, OpenStore
<1>2. retaining[w].key \in Keys /\ retaining[w].payload \in Documents
  BY <1>1 DEF Retaining
<1>3. store.generation \in Nat
  BY DEF RetentionInv, RetentionTypeOK
<1>4. Under(r.key, r.payload)
  BY <1>1 DEF RetentionInv, CarriesItsOwn
<1>5. r \in Retaining
  BY <1>2, <1>3 DEF Retaining
<1>6. Goto(w, r) /\ UNCHANGED <<files, store, fetched>>
  BY DEF OpenStore
<1>7. QED
  BY <1>3, <1>4, <1>5, <1>6, LocalStep

LEMMA ReopenKeeps ==
  ASSUME RetentionInv, NEW w \in Writers, Reopen(w)
  PROVE  RetentionInv'
<1> USE DEF Putting
<1> DEFINE q == retaining[w]
           r == Putting(q, q.first, TRUE)
<1>1. q \in Retaining /\ q.step = "reopen"
  BY DEF RetentionInv, RetentionTypeOK, Reopen
<1>2. q.key \in Keys /\ q.payload \in Documents /\ q.first \in Nat
  BY <1>1 DEF Retaining
<1>3. store.generation \in Nat
  BY DEF RetentionInv, RetentionTypeOK
<1>4. Under(r.key, r.payload) /\ q.first < store.generation
  BY <1>1 DEF RetentionInv, CarriesItsOwn, SeesThePast
<1>5. r \in Retaining
  BY <1>2, <1>3 DEF Retaining
<1>6. Goto(w, r) /\ UNCHANGED <<files, store, fetched>>
  BY DEF Reopen
<1>7. QED
  BY <1>2, <1>3, <1>4, <1>5, <1>6, LocalStep

\* A put that is refused was overtaken since it last looked at the store.
LEMMA RefusedPutKeeps ==
  ASSUME RetentionInv, NEW w \in Writers, Put(w), retaining[w].expected # store.generation
  PROVE  RetentionInv'
<1> DEFINE q == retaining[w]
<1>1. q \in Retaining /\ q.step = "put"
  BY DEF RetentionInv, RetentionTypeOK, Put
<1>2. q \in [step : {"put", "reopen"}, key : Keys, payload : Documents,
             first : Nat, expected : Nat, again : BOOLEAN]
  BY <1>1 DEF Retaining
<1>3. store.generation \in Nat /\ q.first <= q.expected /\ q.expected < store.generation
  BY <1>1, <1>2 DEF RetentionInv, RetentionTypeOK, SeesThePast
<1>4. UNCHANGED <<files, store, fetched>>
  BY DEF Put
<1>5. CASE q.again
  <2> DEFINE r == [step |-> "refused", why |-> "stale", overtaken |-> store.generation - q.first]
  <2>1. Goto(w, r)
    BY <1>5 DEF Put, GivesUp
  <2>2. q.first < q.expected
    BY <1>1, <1>5 DEF RetentionInv, SeesThePast
  <2>3. r \in Retaining /\ r.overtaken >= 2
    BY <1>2, <1>3, <2>2 DEF Retaining
  <2>4. QED
    BY <1>4, <2>1, <2>3, LocalStep
<1>6. CASE ~q.again
  <2> DEFINE r == [q EXCEPT !.step = "reopen"]
  <2>1. Goto(w, r)
    BY <1>6 DEF Put, GivesUp
  <2>2. r = [step |-> "reopen", key |-> q.key, payload |-> q.payload,
             first |-> q.first, expected |-> q.expected, again |-> q.again]
    BY <1>2
  <2>3. r \in Retaining
    BY <1>2, <2>2 DEF Retaining
  <2>4. Under(r.key, r.payload)
    BY <1>1, <2>2 DEF RetentionInv, CarriesItsOwn
  <2>5. r.step = "reopen" /\ r.first < store.generation
    BY <1>2, <1>3, <2>2
  <2> HIDE DEF r
  <2>6. QED
    BY <1>4, <2>1, <2>3, <2>4, <2>5, LocalStep
<1>7. QED
  BY <1>2, <1>5, <1>6

\* A commit moves the store to the next generation and files the payload under
\* its key.
LEMMA CommitKeeps ==
  ASSUME RetentionInv, NEW w \in Writers, Put(w), retaining[w].expected = store.generation
  PROVE  RetentionInv'
<1> USE DEF RetentionInv
<1> DEFINE q == retaining[w]
           r == [step |-> "retained", key |-> q.key, generation |-> store.generation + 1]
<1>1. q \in Retaining /\ q.step = "put"
  BY DEF RetentionTypeOK, Put
<1>2. q.key \in Keys /\ q.payload \in Documents
  BY <1>1 DEF Retaining
<1>3. /\ store' = [generation |-> store.generation + 1,
                   objects |-> [store.objects EXCEPT ![q.key] = q.payload]]
      /\ Goto(w, r)
      /\ UNCHANGED <<files, rewrites, fetched>>
  BY DEF Put
<1>4. r \in Retaining
  BY <1>2 DEF Retaining, RetentionTypeOK
<1>5. RetentionTypeOK'
  BY <1>2, <1>3, <1>4 DEF RetentionTypeOK, Goto
<1>6. \A v \in Writers : retaining'[v] = IF v = w THEN r ELSE retaining[v]
  BY <1>3 DEF Goto, RetentionTypeOK
<1>7. CarriesItsOwn'
  BY <1>3, <1>6 DEF CarriesItsOwn
<1>8. SeesThePast'
  <2> SUFFICES ASSUME NEW v \in Writers, v # w
               PROVE  /\ retaining[v].step = "put" =>
                           /\ retaining[v].first <= retaining[v].expected
                           /\ retaining[v].expected <= store.generation + 1
                      /\ retaining[v].step = "put" /\ retaining[v].again =>
                           retaining[v].first < retaining[v].expected
                      /\ retaining[v].step = "reopen" =>
                           retaining[v].first < store.generation + 1
    BY <1>3, <1>6 DEF SeesThePast
  <2>1. store.generation \in Nat /\ retaining[v] \in Retaining
    BY DEF RetentionTypeOK
  <2>2. retaining[v].step \in {"put", "reopen"} =>
          retaining[v].first \in Nat /\ retaining[v].expected \in Nat
    BY <2>1 DEF Retaining
  <2>3. QED
    BY <2>1, <2>2 DEF SeesThePast
<1>9. OvertakenTwice'
  BY <1>6 DEF OvertakenTwice
<1>10. StoreKeepsKinds'
  <2>1. Under(q.key, q.payload)
    BY <1>1 DEF CarriesItsOwn
  <2>2. \A k \in Keys : store'.objects[k] = IF k = q.key THEN q.payload ELSE store.objects[k]
    BY <1>2, <1>3 DEF RetentionTypeOK
  <2>3. QED
    BY <2>1, <2>2 DEF StoreKeepsKinds
<1>11. FetchNeverLies'
  BY <1>3 DEF FetchNeverLies
<1>12. QED
  BY <1>5, <1>7, <1>8, <1>9, <1>10, <1>11

LEMMA FetchKeeps ==
  ASSUME RetentionInv, NEW k \in Keys, Fetch(k)
  PROVE  RetentionInv'
<1> USE DEF RetentionInv
<1> DEFINE d == store.objects[k]
<1>1. fetched' = [asked |-> k, output |-> d, result |-> FetchResult(k, d)]
  BY DEF Fetch
<1>2. UNCHANGED <<files, rewrites, store, retaining>>
  BY DEF Fetch
<1>3. d \in Documents \cup {Nothing} /\ (d # Nothing => Under(k, d))
  BY DEF RetentionTypeOK, StoreKeepsKinds
<1>4. FetchResult(k, d) = "fetched" => d.sound /\ KeyOf(d) = k
  BY <1>3, FetchIsTrue
<1>5. FetchNeverLies'
  BY <1>1, <1>4 DEF FetchNeverLies
<1>6. (RetentionTypeOK /\ CarriesItsOwn /\ StoreKeepsKinds /\ SeesThePast /\ OvertakenTwice)'
  BY <1>2 DEF RetentionTypeOK, CarriesItsOwn, StoreKeepsKinds, SeesThePast, OvertakenTwice
<1>7. QED
  BY <1>5, <1>6

LEMMA RetentionStepInv == RetentionInv /\ [RetentionNext]_retentionVars => RetentionInv'
<1> SUFFICES ASSUME RetentionInv, [RetentionNext]_retentionVars PROVE RetentionInv'
  OBVIOUS
<1>1. CASE \E w \in Writers : Rewrite(w)
  BY <1>1, RewriteKeeps
<1>2. CASE \E w \in Writers : Retain(w)
  <2>1. PICK w \in Writers : Retain(w)
    BY <1>2
  <2>2. CASE ReadAndValidate(w)
    BY <2>2, ReadAndValidateKeeps
  <2>3. CASE ReadPayload(w)
    BY <2>3, ReadPayloadKeeps
  <2>4. CASE OpenStore(w)
    BY <2>4, OpenStoreKeeps
  <2>5. CASE Put(w)
    BY <2>5, RefusedPutKeeps, CommitKeeps
  <2>6. CASE Reopen(w)
    BY <2>6, ReopenKeeps
  <2>7. QED
    BY <2>1, <2>2, <2>3, <2>4, <2>5, <2>6 DEF Retain
<1>3. CASE \E k \in Keys : Fetch(k)
  BY <1>3, FetchKeeps
<1>4. CASE UNCHANGED retentionVars
  BY <1>4 DEF retentionVars, RetentionInv, RetentionTypeOK, CarriesItsOwn, StoreKeepsKinds,
              SeesThePast, FetchNeverLies, OvertakenTwice
<1>5. QED
  BY <1>1, <1>2, <1>3, <1>4 DEF RetentionNext

\* However many processes retain and whatever happens to their files, a fetch
\* that reports success gives out a sound document of the identity asked for
\* (fetch_witness, fetch_live_evidence).
THEOREM FetchesAreTrue == RetentionSpec => []FetchNeverLies
<1>1. RetentionInv => FetchNeverLies
  BY DEF RetentionInv
<1>2. QED
  BY <1>1, RetentionInitInv, RetentionStepInv, PTL DEF RetentionSpec

\* However many processes retain, one that gives up as stale was overtaken by
\* two commits of others (retain_witness, retain_live_evidence).
THEOREM GivesUpAfterTwo == RetentionSpec => []OvertakenTwice
<1>1. RetentionInv => OvertakenTwice
  BY DEF RetentionInv
<1>2. QED
  BY <1>1, RetentionInitInv, RetentionStepInv, PTL DEF RetentionSpec
=============================================================================
