-------------------------- MODULE CapsuleRegistry --------------------------
(***************************************************************************)
(* The capsule registry (services/capsule-registry): capsules, their       *)
(* numbered versions, the write-once store of their contents and the       *)
(* results kept for repeated requests.                                     *)
(*                                                                         *)
(* A request has a database session of its own.  Its statements see what   *)
(* others have committed, but the session's identity map keeps the row of  *)
(* a capsule as it was first loaded: a second SELECT does not refresh it.  *)
(* What a request decides it therefore decides from the first load, and    *)
(* only the unique indexes and foreign keys are checked at the commit.     *)
(* A client may name the id of the capsule it creates, also one that was   *)
(* deleted for good: what was loaded, or kept for a repeated request, is   *)
(* then of another capsule than the one that has the id.                   *)
(* The model is of one tenant; a content stands for its hash.              *)
(***************************************************************************)
EXTENDS Naturals, FiniteSets

CONSTANTS
    Requests,     \* requests the service receives
    Keys,         \* idempotency keys
    Capsules,     \* capsule ids
    Names,        \* capsule names
    Contents,     \* valid YAML documents, each with its content hash
    None,         \* an absent row, result, key, ...
    MaxVersions   \* max_versions_per_capsule

ASSUME ConfigAssumption == MaxVersions \in Nat \ {0}

Statuses == {"active", "deleted"}

\* History: born tells the capsules apart that had an id, by the first etag, and
\* mixed that a request published into this one that had loaded an earlier one
Row == [name: Names, status: Statuses, latest: 1..MaxVersions, etag: Nat,
        born: Nat, mixed: BOOLEAN]
Version == [capsule: Capsules, version: 1..MaxVersions, content: Contents, born: Nat]

ASSUME NoneAssumption ==
    None \notin Row \cup Version \cup Keys \cup Capsules \cup Names \cup Contents

VARIABLES
    rows,      \* table capsules
    versions,  \* table capsule_versions
    blobs,     \* table capsule_blobs: the contents it holds
    worm,      \* write-once files, by content
    results,   \* the idempotency provider: key -> the version that was made
    etags,     \* how many etags have been made
    calls      \* the requests and how far they are

vars == <<rows, versions, blobs, worm, results, etags, calls>>

-----------------------------------------------------------------------------
\* A request

Call == [pc: {"new", "lookup", "check", "blob", "commit", "store",
              "load", "write", "delete", "done", "failed", "lost"},
         op: {"none", "create", "publish", "status", "delete"},
         key: Keys \cup {None},
         subject: Capsules \cup Names \cup {None},  \* a name for "create"
         content: Contents \cup {None},
         want: Statuses, tag: Nat,                  \* of a status request
         seen: Row \cup {None},                     \* in the identity map
         blob: {"unread", "kept", "missing"},
         answer: Version \cup {None},
         misled: BOOLEAN]                           \* history: see Misled

Sent(op, pc, k, subject, h, row) ==
    [pc |-> pc, op |-> op, key |-> k, subject |-> subject, content |-> h,
     want |-> "active", tag |-> 0, seen |-> row, blob |-> "unread", answer |-> None,
     misled |-> FALSE]

NewCall == Sent("none", "new", None, None, None, None)

Init ==
    /\ rows = [c \in Capsules |-> None]
    /\ versions = {} /\ blobs = {} /\ worm = {}
    /\ results = [k \in Keys |-> None]
    /\ etags = 0
    /\ calls = [r \in Requests |-> NewCall]

At(r, op, pc) == calls[r].op = op /\ calls[r].pc = pc

Goes(r, pc) == calls' = [calls EXCEPT ![r].pc = pc]

\* The request is over: its session is closed
Over(r, pc, answer, misled) ==
    [calls[r] EXCEPT !.pc = pc, !.answer = answer, !.misled = misled,
                     !.seen = None, !.blob = "unread"]

Ends(r, pc, answer) == calls' = [calls EXCEPT ![r] = Over(r, pc, answer, FALSE)]

Unstored == UNCHANGED <<rows, versions, blobs, results, etags>>

\* A client uses a key again only to send the same request again
Fits(k, op, subject, h) == \A q \in Requests :
    calls[q].key = k =>
        calls[q].op = op /\ calls[q].subject = subject /\ calls[q].content = h

-----------------------------------------------------------------------------
\* Creating a capsule and publishing a version.  The content is written to its
\* file before the database is asked whether there is anything to do.

\* A request that is refused before it changes anything is left out: no
\* capsule, its version limit, an invalid document, a file that cannot be
\* written

SendCreate(r) ==
    /\ calls[r].pc = "new"
    /\ \E k \in Keys, n \in Names, h \in Contents :
        /\ Fits(k, "create", n, h)
        /\ calls' = [calls EXCEPT ![r] = Sent("create", "lookup", k, n, h, None)]
        /\ worm' = worm \cup {h}
    /\ Unstored

SendPublish(r) ==
    /\ calls[r].pc = "new"
    /\ \E k \in Keys, c \in Capsules, h \in Contents :
        /\ Fits(k, "publish", c, h)
        /\ rows[c] # None /\ rows[c].latest < MaxVersions
        /\ calls' = [calls EXCEPT ![r] = Sent("publish", "lookup", k, c, h, rows[c])]
        /\ worm' = worm \cup {h}
    /\ Unstored

Latest(c) == {v \in versions : v.capsule = c /\ v.version = rows[c].latest}

\* Mutant: a repeated publish is answered like a repeated create
MutStored(r) ==
    LET found == results[calls[r].key]
    IN  IF rows[found.capsule] = None THEN {} ELSE Latest(found.capsule)

\* What a repeated request is answered: for a create the capsule's latest
\* version, for a publish the version that was made; none if it is gone
Stored(r) ==
    LET found == results[calls[r].key]
    IN  IF calls[r].op = "create"
        THEN IF rows[found.capsule] = None THEN {} ELSE Latest(found.capsule)
        ELSE {v \in versions : /\ v.capsule = calls[r].subject
                               /\ v.version = found.version}

\* The capsule the result is about was deleted for good, and another has its id
Misled(r) ==
    LET found == results[calls[r].key]
    IN  rows[found.capsule] # None /\ rows[found.capsule].born # found.born

Replay(r) ==
    /\ calls[r].pc = "lookup" /\ results[calls[r].key] # None
    /\ \/ \E v \in Stored(r) : calls' = [calls EXCEPT ![r] = Over(r, "done", v, Misled(r))]
       \/ Stored(r) = {} /\ Ends(r, "failed", None)
    /\ UNCHANGED worm /\ Unstored

Lookup(r) ==
    /\ calls[r].pc = "lookup" /\ results[calls[r].key] = None
    /\ Goes(r, "check")
    /\ UNCHANGED worm /\ Unstored

\* The name may be used again once its capsule is marked deleted; the second
\* SELECT of a publish tells only whether the row is still there
Allowed(r) ==
    LET x == calls[r]
    IN  IF x.op = "create"
        THEN \A c \in Capsules :
                rows[c] # None /\ rows[c].name = x.subject => rows[c].status # "active"
        ELSE /\ rows[x.subject] # None /\ x.seen.status # "deleted"
             /\ \A v \in versions : v.capsule = x.subject => v.content # x.content

Check(r) ==
    /\ calls[r].pc = "check"
    /\ IF Allowed(r) THEN Goes(r, "blob") ELSE Ends(r, "failed", None)
    /\ UNCHANGED worm /\ Unstored

ReadBlob(r) ==
    /\ calls[r].pc = "blob"
    /\ calls' = [calls EXCEPT ![r].pc = "commit",
           ![r].blob = IF calls[r].content \in blobs THEN "kept" ELSE "missing"]
    /\ UNCHANGED worm /\ Unstored

\* The unique index on the tenant's content hashes
BlobFits(r) == calls[r].blob = "missing" => calls[r].content \notin blobs

Inserted(r, v) ==
    /\ versions' = versions \cup {v}
    /\ blobs' = blobs \cup {calls[r].content}
    /\ etags' = etags + 1
    /\ calls' = [calls EXCEPT ![r].pc = "store", ![r].answer = v]
    /\ UNCHANGED <<worm, results>>

\* The unique index on names counts the capsules marked deleted, too
NameFree(n) == \A c \in Capsules : rows[c] # None => rows[c].name # n

\* The id is new, or one the client names that no capsule has now
CommitCreate(r) ==
    /\ At(r, "create", "commit")
    /\ BlobFits(r) /\ NameFree(calls[r].subject)
    /\ \E c \in Capsules :
        /\ rows[c] = None
        /\ rows' = [rows EXCEPT ![c] = [name |-> calls[r].subject,
               status |-> "active", latest |-> 1, etag |-> etags + 1,
               born |-> etags + 1, mixed |-> FALSE]]
        /\ Inserted(r, [capsule |-> c, version |-> 1, content |-> calls[r].content,
                        born |-> etags + 1])

\* Mutant: the row is refreshed before the number is taken
MutNextNumber(r) ==
    LET row == rows[calls[r].subject] IN IF row = None THEN 1 ELSE row.latest + 1

\* The number after the one of the row that was loaded first
NextNumber(r) == calls[r].seen.latest + 1

\* The unique index on capsule and version number
NumberFree(c, n) == \A v \in versions : v.capsule = c => v.version # n

\* The UPDATE names the row by its id alone
CommitPublish(r) ==
    LET c == calls[r].subject
        n == NextNumber(r)
    IN  /\ At(r, "publish", "commit")
        /\ BlobFits(r) /\ NumberFree(c, n) /\ rows[c] # None
        /\ rows' = [rows EXCEPT ![c].latest = n, ![c].etag = etags + 1,
               ![c].mixed = rows[c].mixed \/ calls[r].seen.born # rows[c].born]
        /\ Inserted(r, [capsule |-> c, version |-> n, content |-> calls[r].content,
                        born |-> rows[c].born])

\* A key or an index refuses the commit, which is rolled back.  A client may have
\* named the id of a capsule that is there
Refused(r) ==
    /\ \/ /\ At(r, "create", "commit")
          /\ ~(BlobFits(r) /\ NameFree(calls[r].subject)) \/ \E c \in Capsules : rows[c] # None
       \/ /\ At(r, "publish", "commit")
          /\ ~(/\ BlobFits(r) /\ NumberFree(calls[r].subject, NextNumber(r))
               /\ rows[calls[r].subject] # None)
    /\ Ends(r, "failed", None)
    /\ UNCHANGED worm /\ Unstored

StoreResult(r) ==
    /\ calls[r].pc = "store"
    /\ results' = [results EXCEPT ![calls[r].key] = calls[r].answer]
    /\ Ends(r, "done", calls[r].answer)
    /\ UNCHANGED <<rows, versions, blobs, worm, etags>>

-----------------------------------------------------------------------------
\* Marking a capsule deleted, or active again, with the etag of an earlier read

SendStatus(r) ==
    /\ calls[r].pc = "new"
    /\ \E c \in Capsules, s \in Statuses :
        /\ rows[c] # None
        /\ calls' = [calls EXCEPT ![r] =
               [Sent("status", "load", None, c, None, None) EXCEPT
                   !.want = s, !.tag = rows[c].etag]]
    /\ UNCHANGED worm /\ Unstored

LoadStatus(r) ==
    /\ calls[r].pc = "load"
    /\ LET row == rows[calls[r].subject]
       IN  IF row # None /\ row.etag = calls[r].tag
           THEN calls' = [calls EXCEPT ![r].pc = "write", ![r].seen = row]
           ELSE Ends(r, "failed", None)
    /\ UNCHANGED worm /\ Unstored

\* The UPDATE names the row by its id alone, and only the columns whose value
\* differs from the loaded one
WriteStatus(r) ==
    /\ calls[r].pc = "write"
    /\ LET x == calls[r]
           c == x.subject
       IN  IF rows[c] = None
           THEN Ends(r, "failed", None) /\ UNCHANGED <<rows, etags>>
           ELSE /\ rows' = [rows EXCEPT ![c].etag = etags + 1,
                       ![c].status = IF x.want = x.seen.status
                                     THEN rows[c].status ELSE x.want]
                /\ etags' = etags + 1
                /\ Ends(r, "done", None)
    /\ UNCHANGED <<versions, blobs, worm, results>>

-----------------------------------------------------------------------------
\* Deleting a capsule for good, with the versions and audit entries loaded
\* before.  Every write of a capsule adds an audit entry and an etag: one that
\* was not loaded refers to the capsule, and its foreign key refuses the commit.

BeginDelete(r) ==
    /\ calls[r].pc = "new"
    /\ \E c \in Capsules :
        /\ rows[c] # None
        /\ calls' = [calls EXCEPT ![r] = Sent("delete", "delete", None, c, None, rows[c])]
    /\ UNCHANGED worm /\ Unstored

\* Mutant: no foreign key protects the capsule of a version not loaded
MutCommitDelete(r) ==
    /\ calls[r].pc = "delete"
    /\ LET c == calls[r].subject
       IN  /\ rows' = [rows EXCEPT ![c] = None]
           /\ versions' = {v \in versions :
                  v.capsule = c => v.version > calls[r].seen.latest}
    /\ Ends(r, "done", None)
    /\ UNCHANGED <<blobs, worm, results, etags>>

CommitDelete(r) ==
    /\ calls[r].pc = "delete"
    /\ LET c == calls[r].subject
       IN  IF rows[c] # None /\ rows[c].etag = calls[r].seen.etag
           THEN /\ rows' = [rows EXCEPT ![c] = None]
                /\ versions' = {v \in versions : v.capsule # c}
                /\ Ends(r, "done", None)
           ELSE Ends(r, "failed", None) /\ UNCHANGED <<rows, versions>>
    /\ UNCHANGED <<blobs, worm, results, etags>>

-----------------------------------------------------------------------------
\* The process stops, the client gives up, or a statement, the idempotency
\* provider or the event publisher fails: what is not committed is rolled back
Lost(r) ==
    /\ calls[r].pc \notin {"new", "done", "failed", "lost"}
    /\ Ends(r, "lost", None)
    /\ UNCHANGED worm /\ Unstored

Next == \E r \in Requests :
    \/ SendCreate(r) \/ SendPublish(r) \/ Lookup(r) \/ Replay(r) \/ Check(r)
    \/ ReadBlob(r) \/ CommitCreate(r) \/ CommitPublish(r) \/ Refused(r)
    \/ StoreResult(r) \/ SendStatus(r) \/ LoadStatus(r) \/ WriteStatus(r)
    \/ BeginDelete(r) \/ CommitDelete(r) \/ Lost(r)

Spec == Init /\ [][Next]_vars

-----------------------------------------------------------------------------
\* Properties

TypeOK ==
    /\ rows \in [Capsules -> Row \cup {None}]
    /\ versions \subseteq Version
    /\ blobs \subseteq Contents /\ worm \subseteq Contents
    /\ results \in [Keys -> Version \cup {None}]
    /\ etags \in Nat
    /\ calls \in [Requests -> Call]

VersionsOf(c) == {v \in versions : v.capsule = c}

\* Nothing was published into the capsule by a request that had loaded another
Unmixed(c) == rows[c] # None => ~rows[c].mixed

\* The versions of a capsule are numbered from 1 to its latest_version without
\* a gap, although a publish takes the number from a row it loaded several
\* awaits before, while others publish, restore and delete.  The exception is a
\* capsule that got the id of a deleted one, and a version a request numbered
\* after that (repo.py:195-235).
VersionsInOrder == \A c \in Capsules :
    /\ \A v, w \in VersionsOf(c) : v.version = w.version => v = w
    /\ Unmixed(c) => {v.version : v \in VersionsOf(c)} =
                         IF rows[c] = None THEN {} ELSE 1..rows[c].latest

\* A content is published at most once in a capsule, with the same exception,
\* although the search for it and the insert are apart and no index forbids the
\* second row: whoever missed the other's version has loaded an older row and
\* takes the same number (repo.py:197-210).
OneVersionPerContent == \A v, w \in versions :
    v.capsule = w.capsule /\ v.content = w.content /\ Unmixed(v.capsule) => v = w

\* A publish that was answered with a version number, at once or as a repeated
\* request, published this content under this number, and it can be read as
\* long as the capsule is not deleted for good.  Only a repeated request may be
\* answered with the version of another capsule: when that has got the id of the
\* deleted one its first answer was about (repo.py:163-179).
AnswersHold == \A r \in Requests :
    At(r, "publish", "done") =>
        LET v == calls[r].answer
            row == rows[v.capsule]
        IN  /\ v.capsule = calls[r].subject
            /\ v.content = calls[r].content \/ calls[r].misled
            /\ row # None /\ row.born = v.born => v \in versions /\ v.content \in blobs \cap worm

=============================================================================
