-------------------------- MODULE ResidentSession --------------------------
(***************************************************************************)
(* A resident session: one directory that holds a copy of a witness, its   *)
(* handle, indexes and a memo of query results, and the processes that     *)
(* open, attach, query and close it (mncs_debug/session.py).               *)
(*                                                                         *)
(* No lock protects the directory.  Every helper is split where it reads   *)
(* or writes a file another process can change; each file is replaced in   *)
(* one step.  A query's result is known by the witness it was computed     *)
(* from, the bytes of a witness by the witness they encode.                *)
(***************************************************************************)
EXTENDS Naturals, Sequences, SequencesExt, FiniteSetsExt

CONSTANTS
  Clients,     \* processes that may work on the session directory
  Witnesses,   \* witnesses a session may be opened from
  Questions,   \* an operation with its normalized parameters
  Size,        \* bytes of the memo entry that answers a question
  NumIndexes,  \* index files: 4 in the code
  MaxEntries,  \* MAX_MEMO_ENTRIES
  MaxBytes,    \* MAX_MEMO_BYTES
  Forces,      \* values "session open" takes for --force
  Faults       \* which of "crash", "swap", "tamper", "lose_index" may happen

ASSUME SizesAssumption ==
  /\ Size \in [Questions -> Nat]
  /\ NumIndexes \in Nat \ {0}
  /\ MaxEntries \in Nat
  /\ MaxBytes \in Nat
ASSUME ResidentChoices ==
  /\ Forces \subseteq BOOLEAN
  /\ Faults \subseteq {"crash", "swap", "tamper", "lose_index"}
ASSUME NamesApart ==
  /\ {"none", "tampered"} \cap Witnesses = {}
  /\ {"open", "attach"} \cap Questions = {}

Nothing == "none"      \* no file, or no value
Tampered == "tampered" \* bytes that do not pass the integrity check

VARIABLES
  doc,       \* session.json
  held,      \* witness.json
  indexes,   \* what each index file was built from
  memo,      \* key -> the witness its result was computed from
  recent,    \* the keys in the memo, oldest file first
  pc,        \* where each client is
  goal,      \* what it is asked: "open", "attach" or the question
  mine,      \* its copy of session.json
  asked,     \* the witness_id query_session took its memo key from
  loaded,    \* the witness it has in memory
  next,      \* the index file it writes next
  listing,   \* the memo files _memo_evict still may remove ...
  missed,    \* ... and those it could not remove, and still counts
  wiping     \* close --wipe: what rmtree still has to remove

dir == <<doc, held, indexes, memo, recent>>
locals == <<goal, mine, asked, loaded, next, listing, missed, wiping>>
vars == <<dir, pc, locals>>

Indexes == 1..NumIndexes
Keys == Witnesses \X Questions
Contents == Witnesses \cup {Nothing, Tampered}
Known == Witnesses \cup {Nothing}
Goals == {"open", "attach"} \cup Questions

\* witness_sha256 is the digest of the bytes that were copied; they need not
\* be those of witness_id.
Document == [state : {"absent", "open", "stale", "closed"},
             witness : Known, digest : Known]
NoDocument == [state |-> "absent", witness |-> Nothing, digest |-> Nothing]

\* What rmtree finds below the root, in no particular order.
Parts == {"session.json", "witness.json", "indexes", "memo"}
Present(f) ==
  CASE f = "session.json" -> doc # NoDocument
    [] f = "witness.json" -> held # Nothing
    [] f = "indexes" -> \E i \in Indexes : indexes[i] # Nothing
    [] f = "memo" -> \E k \in Keys : memo[k] # Nothing

Labels == {"idle", "place", "index", "commit", "check", "orient", "record",
           "reread", "load", "store", "list", "evict", "count", "mark", "scan",
           "wipe"}

\* Every file and client stays within the values the code writes: the handle
\* only has states attach_session and query_session know.
TypeOK ==
  /\ doc \in Document
  /\ held \in Contents
  /\ indexes \in [Indexes -> Known]
  /\ memo \in [Keys -> Known]
  /\ recent \in Seq(Keys)
  /\ pc \in [Clients -> Labels]
  /\ goal \in [Clients -> Goals]
  /\ mine \in [Clients -> Document]
  /\ asked \in [Clients -> Known]
  /\ loaded \in [Clients -> Known]
  /\ next \in [Clients -> Indexes]
  /\ listing \in [Clients -> Seq(Keys)]
  /\ missed \in [Clients -> SUBSET Keys]
  /\ wiping \in [Clients -> SUBSET Parts]

Init ==
  /\ doc = NoDocument
  /\ held = Nothing
  /\ indexes = [i \in Indexes |-> Nothing]
  /\ memo = [k \in Keys |-> Nothing]
  /\ recent = <<>>
  /\ pc = [c \in Clients |-> "idle"]
  /\ goal = [c \in Clients |-> "attach"]
  /\ mine = [c \in Clients |-> NoDocument]
  /\ asked = [c \in Clients |-> Nothing]
  /\ loaded = [c \in Clients |-> Nothing]
  /\ next = [c \in Clients |-> 1]
  /\ listing = [c \in Clients |-> <<>>]
  /\ missed = [c \in Clients |-> {}]
  /\ wiping = [c \in Clients |-> {}]

-----------------------------------------------------------------------------
Goto(c, label) == pc' = [pc EXCEPT ![c] = label]

\* The helper returns or raises: its locals are gone.
Return(c) ==
  /\ Goto(c, "idle")
  /\ goal' = [goal EXCEPT ![c] = "attach"]
  /\ mine' = [mine EXCEPT ![c] = NoDocument]
  /\ asked' = [asked EXCEPT ![c] = Nothing]
  /\ loaded' = [loaded EXCEPT ![c] = Nothing]
  /\ next' = [next EXCEPT ![c] = 1]
  /\ listing' = [listing EXCEPT ![c] = <<>>]
  /\ missed' = [missed EXCEPT ![c] = {}]
  /\ wiping' = [wiping EXCEPT ![c] = {}]

\* attach_session is done: query_session goes on if the session is open.
Answer(c) ==
  IF goal[c] \in Questions /\ mine[c].state = "open"
  THEN /\ Goto(c, "reread")
       /\ asked' = [asked EXCEPT ![c] = mine[c].witness]
       /\ UNCHANGED <<goal, mine, loaded, next, listing, missed, wiping>>
  ELSE Return(c)

----------------------------------------------------------------------------
(* open_session *)

\* The witness is validated, then its bytes are read again to be copied: the
\* source file may be another valid witness by then.
OpenRead(c) ==
  /\ pc[c] = "idle"
  /\ \E force \in Forces : force \/ doc.state = "absent"
  /\ \E w, b \in Witnesses :
       /\ b = w \/ "swap" \in Faults
       /\ mine' = [mine EXCEPT ![c] = [state |-> "open", witness |-> w, digest |-> b]]
       /\ loaded' = [loaded EXCEPT ![c] = w]
  /\ goal' = [goal EXCEPT ![c] = "open"]
  /\ Goto(c, "place")
  /\ UNCHANGED <<dir, asked, next, listing, missed, wiping>>

OpenPlace(c) ==
  /\ pc[c] = "place"
  /\ held' = mine[c].digest
  /\ Goto(c, "index")
  /\ UNCHANGED <<doc, indexes, memo, recent, locals>>

\* _write_indexes, for a new session or to rebuild the indexes of one.
WriteIndex(c) ==
  /\ pc[c] = "index"
  /\ indexes' = [indexes EXCEPT ![next[c]] = loaded[c]]
  /\ IF next[c] < NumIndexes
     THEN /\ next' = [next EXCEPT ![c] = @ + 1]
          /\ UNCHANGED pc
     ELSE /\ Goto(c, IF goal[c] = "open" THEN "commit" ELSE "record")
          /\ UNCHANGED next
  /\ UNCHANGED <<doc, held, memo, recent>>
  /\ UNCHANGED <<goal, mine, asked, loaded, listing, missed, wiping>>

OpenCommit(c) ==
  /\ pc[c] = "commit"
  /\ doc' = mine[c]
  /\ Return(c)
  /\ UNCHANGED <<held, indexes, memo, recent>>

----------------------------------------------------------------------------
(* attach_session, by itself or at the start of query_session *)

\* Mutant of AttachRead: a closed session is checked like any other.
AttachReadClosed(c) ==
  /\ pc[c] = "idle"
  /\ doc.state # "absent"
  /\ \E g \in Goals \ {"open"} : goal' = [goal EXCEPT ![c] = g]
  /\ mine' = [mine EXCEPT ![c] = doc]
  /\ Goto(c, "check")
  /\ UNCHANGED <<dir, asked, loaded, next, listing, missed, wiping>>

\* A closed session is reported, and answers nothing.
AttachRead(c) ==
  /\ pc[c] = "idle"
  /\ doc.state \in {"open", "stale"}
  /\ \E g \in Goals \ {"open"} : goal' = [goal EXCEPT ![c] = g]
  /\ mine' = [mine EXCEPT ![c] = doc]
  /\ Goto(c, "check")
  /\ UNCHANGED <<dir, asked, loaded, next, listing, missed, wiping>>

AttachFresh(c) ==
  /\ pc[c] = "check"
  /\ held = mine[c].digest
  /\ Goto(c, "orient")
  /\ UNCHANGED <<dir, locals>>

\* Mutant of AttachStale: the handle gets a state no reader knows.
AttachInvalid(c) ==
  /\ pc[c] = "check"
  /\ held # mine[c].digest
  /\ doc' = [mine[c] EXCEPT !.state = "invalid"]
  /\ Return(c)
  /\ UNCHANGED <<held, indexes, memo, recent>>

\* The document written is the one read before the digest was taken.
AttachStale(c) ==
  /\ pc[c] = "check"
  /\ held # mine[c].digest
  /\ doc' = [mine[c] EXCEPT !.state = "stale"]
  /\ Return(c)
  /\ UNCHANGED <<held, indexes, memo, recent>>

\* Orientation comes from the index files if all of them can be read.
AttachOrient(c) ==
  /\ pc[c] = "orient"
  /\ \A i \in Indexes : indexes[i] # Nothing
  /\ Answer(c)
  /\ UNCHANGED dir

\* Mutant of Loads: the witness_id of the held witness is not compared.
LoadsAny(c) == held \in Witnesses

\* _load_session_witness: a valid witness, and the one the handle binds.
Loads(c) == held \in Witnesses /\ held = mine[c].witness

AttachRebuild(c) ==
  /\ pc[c] = "orient"
  /\ \E i \in Indexes : indexes[i] = Nothing
  /\ IF Loads(c)
     THEN /\ loaded' = [loaded EXCEPT ![c] = held]
          /\ Goto(c, "index")
          /\ UNCHANGED <<goal, mine, asked, next, listing, missed, wiping>>
     ELSE Return(c)
  /\ UNCHANGED dir

AttachRecord(c) ==
  /\ pc[c] = "record"
  /\ doc' = mine[c]
  /\ Answer(c)
  /\ UNCHANGED <<held, indexes, memo, recent>>

----------------------------------------------------------------------------
(* query_session, after attach_session *)

Key(c) == <<asked[c], goal[c]>>

\* The memo is looked up under the witness that was attached; then the handle
\* is read again, and its state is not looked at.
QueryReread(c) ==
  /\ pc[c] = "reread"
  /\ IF doc.state = "absent"
     THEN Return(c)
     ELSE /\ mine' = [mine EXCEPT ![c] = doc]
          /\ Goto(c, IF memo[Key(c)] # Nothing THEN "count" ELSE "load")
          /\ UNCHANGED <<goal, asked, loaded, next, listing, missed, wiping>>
  /\ UNCHANGED dir

\* The result is computed from the held witness; either part may raise.
QueryLoad(c) ==
  /\ pc[c] = "load"
  /\ \/ /\ Loads(c)
        /\ loaded' = [loaded EXCEPT ![c] = held]
        /\ Goto(c, "store")
        /\ UNCHANGED <<goal, mine, asked, next, listing, missed, wiping>>
     \/ Return(c)
  /\ UNCHANGED dir

MemoStore(c) ==
  /\ pc[c] = "store"
  /\ memo' = [memo EXCEPT ![Key(c)] = loaded[c]]
  /\ recent' = Append(RemoveFirst(recent, Key(c)), Key(c))
  /\ Goto(c, "list")
  /\ UNCHANGED <<doc, held, indexes, locals>>

\* _memo_evict: the files are listed, oldest first ...
MemoList(c) ==
  /\ pc[c] = "list"
  /\ listing' = [listing EXCEPT ![c] = recent]
  /\ Goto(c, "evict")
  /\ UNCHANGED <<dir, goal, mine, asked, loaded, next, missed, wiping>>

Bytes(keys) == MapThenSumSet(LAMBDA k : Size[k[2]], keys)
Counted(c) == ToSet(listing[c]) \cup missed[c]

\* Mutant of Full: the entry bound only counts when the byte bound is passed.
FullBoth(c) ==
  /\ Cardinality(Counted(c)) > MaxEntries
  /\ Bytes(Counted(c)) > MaxBytes

Full(c) ==
  \/ Cardinality(Counted(c)) > MaxEntries
  \/ Bytes(Counted(c)) > MaxBytes

Evicting(c) == pc[c] = "evict" /\ listing[c] # <<>> /\ Full(c)

Unlink(k) ==
  /\ memo' = [memo EXCEPT ![k] = Nothing]
  /\ recent' = RemoveFirst(recent, k)

\* Mutants of MemoEvict: a file another client removed stays at the head of
\* the candidates, or the newest result is removed first.
MemoEvictStuck(c) ==
  /\ Evicting(c)
  /\ LET k == Head(listing[c])
     IN /\ Unlink(k)
        /\ listing' = [listing EXCEPT ![c] = IF memo[k] = Nothing THEN @ ELSE Tail(@)]
  /\ UNCHANGED <<doc, held, indexes, pc, goal, mine, asked, loaded, next, missed, wiping>>

MemoEvictNewest(c) ==
  /\ Evicting(c)
  /\ Unlink(Last(listing[c]))
  /\ listing' = [listing EXCEPT ![c] = Front(@)]
  /\ UNCHANGED <<doc, held, indexes, pc, goal, mine, asked, loaded, next, missed, wiping>>

\* ... and removed until the bounds hold.  A file that is gone already counts
\* as if it were still there.
MemoEvict(c) ==
  /\ Evicting(c)
  /\ LET k == Head(listing[c])
     IN /\ Unlink(k)
        /\ missed' = [missed EXCEPT ![c] = IF memo[k] = Nothing THEN @ \cup {k} ELSE @]
  /\ listing' = [listing EXCEPT ![c] = Tail(@)]
  /\ UNCHANGED <<doc, held, indexes, pc, goal, mine, asked, loaded, next, wiping>>

MemoEvicted(c) ==
  /\ pc[c] = "evict"
  /\ ~Evicting(c)
  /\ Goto(c, "count")
  /\ UNCHANGED <<dir, locals>>

\* The counters go into the document read before the query was executed.
QueryCount(c) ==
  /\ pc[c] = "count"
  /\ doc' = mine[c]
  /\ Return(c)
  /\ UNCHANGED <<held, indexes, memo, recent>>

----------------------------------------------------------------------------
(* close_session *)

CloseRead(c, wipe) ==
  /\ pc[c] = "idle"
  /\ doc.state # "absent"
  /\ mine' = [mine EXCEPT ![c] = [doc EXCEPT !.state = "closed"]]
  /\ wiping' = [wiping EXCEPT ![c] = IF wipe THEN Parts ELSE {}]
  /\ Goto(c, "mark")
  /\ UNCHANGED <<dir, goal, asked, loaded, next, listing, missed>>

CloseMark(c) ==
  /\ pc[c] = "mark"
  /\ doc' = mine[c]
  /\ IF wiping[c] = {}
     THEN Return(c)
     ELSE Goto(c, "scan") /\ UNCHANGED locals
  /\ UNCHANGED <<held, indexes, memo, recent>>

WipeScan(c) ==
  /\ pc[c] = "scan"
  /\ wiping' = [wiping EXCEPT ![c] = {f \in Parts : Present(f)}]
  /\ Goto(c, "wipe")
  /\ UNCHANGED <<dir, goal, mine, asked, loaded, next, listing, missed>>

\* rmtree, without ignore_errors: a part that is gone may end it (Python up to
\* 3.12) or be passed over (later ones).
WipeOne(c) ==
  /\ pc[c] = "wipe"
  /\ \E f \in wiping[c] :
       /\ doc' = IF f = "session.json" THEN NoDocument ELSE doc
       /\ held' = IF f = "witness.json" THEN Nothing ELSE held
       /\ indexes' = IF f = "indexes" THEN [i \in Indexes |-> Nothing] ELSE indexes
       /\ memo' = IF f = "memo" THEN [k \in Keys |-> Nothing] ELSE memo
       /\ recent' = IF f = "memo" THEN <<>> ELSE recent
       /\ \/ /\ wiping' = [wiping EXCEPT ![c] = @ \ {f}]
             /\ UNCHANGED <<pc, goal, mine, asked, loaded, next, listing, missed>>
          \/ ~Present(f) /\ Return(c)

WipeDone(c) ==
  /\ pc[c] = "wipe"
  /\ wiping[c] = {}
  /\ Return(c)
  /\ UNCHANGED dir

----------------------------------------------------------------------------
(* What happens to a client and to the directory. *)

Crash(c) ==
  /\ "crash" \in Faults
  /\ pc[c] # "idle"
  /\ Return(c)
  /\ UNCHANGED dir

\* Somebody removes, damages or exchanges the held witness.
Tamper ==
  /\ "tamper" \in Faults
  /\ held # Nothing
  /\ \E b \in Contents : held' = b
  /\ UNCHANGED <<doc, indexes, memo, recent, pc, locals>>

\* An index file is removed or damaged.
LoseIndex ==
  /\ "lose_index" \in Faults
  /\ \E i \in Indexes : indexes' = [indexes EXCEPT ![i] = Nothing]
  /\ UNCHANGED <<doc, held, memo, recent, pc, locals>>

Invoke(c) ==
  \/ OpenRead(c)
  \/ AttachRead(c)
  \/ \E wipe \in BOOLEAN : CloseRead(c, wipe)

\* What a running client goes on to do by itself.
Proceed(c) ==
  \/ OpenPlace(c) \/ WriteIndex(c) \/ OpenCommit(c)
  \/ AttachFresh(c) \/ AttachStale(c) \/ AttachOrient(c)
  \/ AttachRebuild(c) \/ AttachRecord(c)
  \/ QueryReread(c) \/ QueryLoad(c) \/ MemoStore(c) \/ MemoList(c)
  \/ MemoEvict(c) \/ MemoEvicted(c) \/ QueryCount(c)
  \/ CloseMark(c) \/ WipeScan(c) \/ WipeOne(c) \/ WipeDone(c)

Next ==
  \/ \E c \in Clients : Invoke(c) \/ Proceed(c) \/ Crash(c)
  \/ Tamper
  \/ LoseIndex

Spec == Init /\ [][Next]_vars

\* A command that was started keeps running until it returns.
FairSpec == Spec /\ \A c \in Clients : WF_vars(Proceed(c))
-----------------------------------------------------------------------------
(***************************************************************************)
(* What the session directory promises.                                    *)
(***************************************************************************)
Settled == \A c \in Clients : pc[c] = "idle"

\* A memoized result is a result of the witness its key names, whatever is
\* done to witness.json between the check of its digest and its load.
MemoSound ==
  \A k \in Keys : memo[k] \in {Nothing, k[1]}

\* A closed session stays as it is, and a stale one stays stale or is closed,
\* until "open --force" or a wipe: neither attach nor a query brings it back.
RetiredStays ==
  [][doc.state \in {"closed", "stale"} /\ doc' # doc =>
       \/ \E c \in Clients : OpenCommit(c)
       \/ doc' = NoDocument
       \/ doc' = [doc EXCEPT !.state = "closed"]]_doc

\* Indexes rebuilt by attach_session are those of the witness the handle binds.
RebuildFaithful ==
  [][\A i \in Indexes, c \in Clients :
       goal[c] # "open" /\ WriteIndex(c) /\ indexes'[i] # indexes[i] =>
         indexes'[i] = doc.witness]_indexes

\* A result that fits the memo survives the eviction its own store causes, so
\* asking again is a hit.
FreshResultKept ==
  [][\A c \in Clients :
       MemoEvicted(c) /\ Size[goal[c]] <= MaxBytes /\ MaxEntries > 0 =>
         memo[Key(c)] # Nothing]_pc

\* When no command runs the memo respects both of its bounds, although clients
\* list, count and unlink its files with no lock.
MemoBounded ==
  Settled =>
    LET keys == {k \in Keys : memo[k] # Nothing}
    IN Cardinality(keys) <= MaxEntries /\ Bytes(keys) <= MaxBytes

\* Every command returns.
CommandsReturn ==
  \A c \in Clients : pc[c] # "idle" ~> pc[c] = "idle"
=============================================================================
