----------------------- MODULE CapsuleRegistryProofs -----------------------
(***************************************************************************)
(* Proofs about CapsuleRegistry, for every set of requests, keys, capsules *)
(* and contents and every limit.  A capsule id may be used again: what     *)
(* agrees, agrees about the same capsule, which its first etag tells.      *)
(***************************************************************************)
EXTENDS CapsuleRegistry, Integers, TLAPS

-----------------------------------------------------------------------------
\* The inductive invariant

\* The capsule that the version was made in still has its id
Alive(v) == rows[v.capsule] # None /\ rows[v.capsule].born = v.born

\* A version that was made stays as long as its capsule does
Kept(v) ==
    /\ v \in Version /\ v.born <= etags
    /\ Alive(v) => v \in versions

Busy == {"lookup", "check", "blob", "commit"}

\* The fields of a call that its operation and its place in it call for
Shape(x) ==
    /\ x.op = "create" => x.subject \in Names
    /\ x.op = "publish" => x.subject \in Capsules
    /\ x.op \in {"create", "publish"} => x.key \in Keys /\ x.content \in Contents
    /\ x.op \in {"status", "delete"} => x.subject \in Capsules
    /\ x.op \notin {"create", "publish"} => x.key = None
    /\ x.pc \in Busy \cup {"store"} => x.op \in {"create", "publish"}
    /\ x.pc \in {"load", "write"} => x.op = "status"
    /\ x.pc = "delete" => x.op = "delete"
    /\ x.pc = "new" => x.op = "none"
    /\ x.pc \in {"write", "delete"} => x.seen \in Row
    /\ x.content # None => x.content \in worm

\* The capsule a publish has loaded still has its id, and no request has
\* published into it that had loaded another
Same(x) ==
    LET row == rows[x.subject]
    IN  row # None /\ row.born = x.seen.born /\ ~row.mixed

\* A publish on its way has seen no later state than the present one, and
\* once it has searched, no version up to the one it saw has its content
Loaded(x) == x.op = "publish" /\ x.pc \in Busy =>
    /\ x.seen \in Row /\ x.seen.latest < MaxVersions /\ x.seen.born <= etags
    /\ Same(x) => x.seen.latest <= rows[x.subject].latest

Searched(x) == x.op = "publish" /\ x.pc \in {"blob", "commit"} /\ Same(x) =>
    \A v \in versions :
        v.capsule = x.subject /\ v.version <= x.seen.latest => v.content # x.content

Answered(x) ==
    /\ x.pc = "store" => Kept(x.answer)
    /\ x.op = "publish" /\ x.pc \in {"store", "done"} =>
          /\ Kept(x.answer) /\ x.answer.capsule = x.subject
          /\ x.answer.content = x.content \/ (x.pc = "done" /\ x.misled)

CallOK(x) == Shape(x) /\ Loaded(x) /\ Searched(x) /\ Answered(x)

\* The tables agree with each other
VersionOK(v) ==
    LET row == rows[v.capsule]
    IN  /\ row # None /\ row.born = v.born
        /\ ~row.mixed => v.version <= row.latest
        /\ v.content \in blobs /\ v.content \in worm

TablesOK ==
    /\ \A c \in Capsules : rows[c] # None => rows[c].born <= etags
    /\ \A v \in versions : VersionOK(v)
    /\ \A c \in Capsules : rows[c] # None /\ ~rows[c].mixed =>
          \A n \in 1..rows[c].latest : \E v \in versions : v.capsule = c /\ v.version = n
    /\ \A v, w \in versions : v.capsule = w.capsule /\ v.version = w.version => v = w

\* Requests with the same key are the same request, and a result is of them
SameRequest(x, y) == x.op = y.op /\ x.subject = y.subject /\ x.content = y.content

KeysOK ==
    /\ \A q, r \in Requests :
          calls[q].key = calls[r].key /\ calls[q].key # None => SameRequest(calls[q], calls[r])
    /\ \A k \in Keys : results[k] # None =>
          Kept(results[k]) /\ \E q \in Requests : calls[q].key = k
    /\ \A r \in Requests :
          calls[r].op = "publish" /\ results[calls[r].key] # None =>
              /\ results[calls[r].key].capsule = calls[r].subject
              /\ results[calls[r].key].content = calls[r].content

RegistryInv ==
    /\ TypeOK /\ TablesOK /\ OneVersionPerContent /\ KeysOK
    /\ \A r \in Requests : CallOK(calls[r])

-----------------------------------------------------------------------------
\* Facts about the data

LEMMA RowShape ==
  ASSUME TypeOK, NEW c \in Capsules, rows[c] # None
  PROVE  /\ rows[c] \in Row /\ rows[c].name \in Names /\ rows[c].status \in Statuses
         /\ rows[c].latest \in 1..MaxVersions /\ rows[c].latest \in Nat /\ rows[c].etag \in Nat
         /\ rows[c].born \in Nat /\ rows[c].mixed \in BOOLEAN
  <1>1. rows[c] \in Row
    BY DEF TypeOK
  <1>2. QED
    BY <1>1, ConfigAssumption DEF Row

LEMMA VersionShape ==
  ASSUME NEW v \in Version
  PROVE  /\ v.capsule \in Capsules /\ v.content \in Contents
         /\ v.version \in 1..MaxVersions /\ v.version \in Nat /\ v.born \in Nat
  BY ConfigAssumption DEF Version

LEMMA CallShape ==
  ASSUME TypeOK, NEW r \in Requests
  PROVE  /\ calls[r] \in Call
         /\ \A pc \in {"lookup", "check", "blob", "commit", "store", "write"} :
               [calls[r] EXCEPT !.pc = pc] \in Call
  BY DEF TypeOK, Call

LEMMA OverShape ==
  ASSUME TypeOK, NEW r \in Requests, NEW pc \in {"done", "failed", "lost"},
         NEW a \in Version \cup {None}, NEW m \in BOOLEAN
  PROVE  /\ Over(r, pc, a, m) \in Call
         /\ SameRequest(Over(r, pc, a, m), calls[r])
         /\ Over(r, pc, a, m).key = calls[r].key
         /\ Over(r, pc, a, m).pc = pc /\ Over(r, pc, a, m).answer = a
         /\ Over(r, pc, a, m).misled = m
  <1>1. PICK x \in Call : x = calls[r]
    BY CallShape
  <1> DEFINE y == [x EXCEPT !.pc = pc, !.answer = a, !.misled = m,
                             !.seen = None, !.blob = "unread"]
  <1>2. y \in Call
    BY ZenonT(60) DEF Call
  <1>3. y.op = x.op /\ y.subject = x.subject /\ y.content = x.content
    BY DEF Call
  <1>4. y.key = x.key /\ y.pc = pc /\ y.answer = a /\ y.misled = m
    BY DEF Call
  <1>5. QED
    BY <1>1, <1>2, <1>3, <1>4 DEF Over, SameRequest

-----------------------------------------------------------------------------
\* What every step leaves true of the calls it does not touch

\* The tables of a capsule only grow, or lose it altogether; another that gets
\* its id has a later etag
GoesOnAs(c) ==
    /\ rows[c] # None /\ rows'[c].born = rows[c].born
    /\ ~rows'[c].mixed => ~rows[c].mixed /\ rows[c].latest <= rows'[c].latest

Comes(v) == \/ rows'[v.capsule].mixed \/ rows'[v.capsule].born > etags
            \/ v.version > rows[v.capsule].latest

Grown ==
    /\ worm \subseteq worm' /\ etags <= etags'
    /\ \A c \in Capsules : rows'[c] # None => rows'[c].born > etags \/ GoesOnAs(c)
    /\ \A v \in versions : Alive(v)' => v \in versions'
    /\ \A v \in versions' \ versions : Comes(v)

\* A capsule with an earlier etag goes on
LEMMA OldGrown ==
  ASSUME TypeOK, TypeOK', Grown, NEW c \in Capsules, NEW b \in Nat, b <= etags,
         rows'[c] # None, rows'[c].born = b
  PROVE  GoesOnAs(c)
  <1>1. ~(rows'[c].born > etags)
    BY DEF TypeOK
  <1>2. QED
    BY <1>1 DEF Grown

LEMMA KeptGrown ==
  ASSUME TypeOK, TypeOK', Grown, NEW v, Kept(v)
  PROVE  Kept(v)'
  <1>1. v \in Version /\ v.capsule \in Capsules /\ v.born \in Nat /\ v.born <= etags
    BY VersionShape DEF Kept
  <1>2. v.born <= etags'
    BY <1>1 DEF Grown, TypeOK
  <1>3. ASSUME Alive(v)'
        PROVE  v \in versions'
    <2>1. rows'[v.capsule] # None /\ rows'[v.capsule].born = v.born
      BY <1>3 DEF Alive
    <2>2. GoesOnAs(v.capsule)
      BY <1>1, <2>1, OldGrown
    <2>3. Alive(v)
      BY <2>1, <2>2 DEF Alive, GoesOnAs
    <2>4. QED
      BY <1>3, <2>3 DEF Kept, Grown
  <1>4. QED
    BY <1>1, <1>2, <1>3 DEF Kept

\* What a publish has loaded is no later than it is after the step
LEMMA SameGrown ==
  ASSUME TypeOK, TypeOK', Grown, NEW x \in Call, CallOK(x),
         x.op = "publish", x.pc \in Busy, Same(x)'
  PROVE  /\ Same(x) /\ x.subject \in Capsules /\ x.seen \in Row
         /\ rows[x.subject].latest <= rows'[x.subject].latest
         /\ x.seen.latest \in Int /\ rows[x.subject].latest \in Int
         /\ rows'[x.subject].latest \in Int
  <1> DEFINE c == x.subject
  <1>1. c \in Capsules /\ x.seen \in Row /\ x.seen.born <= etags
    BY DEF CallOK, Shape, Loaded
  <1>2. x.seen.born \in Nat /\ x.seen.latest \in Int
    BY <1>1, ConfigAssumption DEF Row
  <1>3. rows'[c] # None /\ rows'[c].born = x.seen.born /\ ~rows'[c].mixed
    BY DEF Same
  <1>4. GoesOnAs(c)
    BY <1>1, <1>2, <1>3, OldGrown
  <1>5. rows[c] \in Row /\ rows'[c] \in Row
    BY <1>1, <1>3, <1>4 DEF TypeOK, GoesOnAs
  <1>6. rows[c].latest \in Int /\ rows'[c].latest \in Int
    BY <1>5, ConfigAssumption DEF Row
  <1>7. QED
    BY <1>1, <1>2, <1>3, <1>4, <1>6 DEF Same, GoesOnAs

LEMMA LoadedGrown ==
  ASSUME TypeOK, TypeOK', Grown, NEW x \in Call, CallOK(x)
  PROVE  Loaded(x)'
  <1> SUFFICES ASSUME x.op = "publish", x.pc \in Busy
               PROVE  /\ x.seen \in Row /\ x.seen.latest < MaxVersions
                      /\ x.seen.born <= etags'
                      /\ Same(x)' => x.seen.latest <= rows'[x.subject].latest
    BY DEF Loaded
  <1>1. /\ x.seen \in Row /\ x.seen.latest < MaxVersions /\ x.seen.born <= etags
        /\ Same(x) => x.seen.latest <= rows[x.subject].latest
    BY DEF CallOK, Loaded
  <1>2. x.seen.born \in Nat
    BY <1>1 DEF Row
  <1>3. x.seen.born <= etags'
    BY <1>1, <1>2 DEF Grown, TypeOK
  <1>4. ASSUME Same(x)'
        PROVE  x.seen.latest <= rows'[x.subject].latest
    <2>1. /\ Same(x) /\ rows[x.subject].latest <= rows'[x.subject].latest
          /\ x.seen.latest \in Int /\ rows[x.subject].latest \in Int
          /\ rows'[x.subject].latest \in Int
      BY <1>4, SameGrown
    <2>2. x.seen.latest <= rows[x.subject].latest
      BY <1>1, <2>1
    <2>3. QED
      BY <2>1, <2>2
  <1>5. QED
    BY <1>1, <1>3, <1>4

LEMMA SearchedGrown ==
  ASSUME TypeOK, TypeOK', Grown, NEW x \in Call, CallOK(x)
  PROVE  Searched(x)'
  <1> SUFFICES ASSUME x.op = "publish", x.pc \in {"blob", "commit"}, Same(x)', NEW v \in versions',
                      v.capsule = x.subject, v.version <= x.seen.latest
               PROVE  v.content # x.content
    BY DEF Searched
  <1>0. x.pc \in Busy
    BY DEF Busy
  <1>1. /\ Same(x) /\ x.subject \in Capsules /\ x.seen \in Row
        /\ x.seen.latest \in Int /\ rows[x.subject].latest \in Int
    BY <1>0, SameGrown
  <1>2. v \in versions
    <2> SUFFICES ASSUME v \notin versions PROVE FALSE
      OBVIOUS
    <2>1. Comes(v)
      BY DEF Grown
    <2>2. ~rows'[x.subject].mixed /\ rows'[x.subject].born = x.seen.born
      BY DEF Same
    <2>3. x.seen.born \in Nat /\ x.seen.born <= etags /\ etags \in Nat
      BY <1>0, <1>1 DEF CallOK, Loaded, Row, TypeOK
    <2>4. v.version > rows[x.subject].latest
      BY <2>1, <2>2, <2>3 DEF Comes
    <2>5. x.seen.latest <= rows[x.subject].latest
      BY <1>0, <1>1 DEF CallOK, Loaded
    <2>6. v.version \in Int
      BY VersionShape DEF TypeOK
    <2>7. QED
      BY <1>1, <2>4, <2>5, <2>6
  <1>3. QED
    BY <1>1, <1>2 DEF CallOK, Searched

LEMMA CallOKGrown ==
  ASSUME TypeOK, TypeOK', Grown, NEW x \in Call, CallOK(x)
  PROVE  CallOK(x)'
  <1>1. Shape(x)'
    BY DEF CallOK, Shape, Grown
  <1>2. Answered(x)'
    BY KeptGrown DEF CallOK, Answered
  <1>3. QED
    BY <1>1, <1>2, LoadedGrown, SearchedGrown DEF CallOK

LEMMA OneCallOK ==
  ASSUME RegistryInv, NEW r \in Requests, NEW x \in Call,
         calls' = [calls EXCEPT ![r] = x], TypeOK', Grown, CallOK(x)',
         NEW q \in Requests
  PROVE  CallOK(calls[q])'
  <1> USE DEF RegistryInv
  <1>1. calls'[r] = x /\ (q # r => calls'[q] = calls[q])
    BY DEF TypeOK
  <1>2. CASE q = r
    <2>1. CallOK(x)' <=> CallOK(calls[q])'
      BY <1>1, <1>2 DEF CallOK, Shape, Loaded, Searched, Answered, Kept, Alive, Same
    <2>2. QED
      BY <2>1
  <1>3. CASE q # r
    <2> DEFINE y == calls[q]
    <2>1. y \in Call /\ CallOK(y)
      BY DEF TypeOK
    <2>2. PICK z \in Call : z = y
      BY <2>1
    <2>3. CallOK(z)'
      BY <2>1, <2>2, CallOKGrown
    <2>4. calls'[q] = z
      BY <1>1, <1>3, <2>2
    <2>5. QED
      BY <2>3, <2>4 DEF CallOK, Shape, Loaded, Searched, Answered, Kept, Alive, Same
  <1>4. QED
    BY <1>2, <1>3

\* A step of one request keeps the invariant if it leaves the tables in order
\* and its own record right.  The record has the key it had, or a new one.
LEMMA OneCallMoves ==
  ASSUME RegistryInv, NEW r \in Requests, NEW x \in Call,
         calls' = [calls EXCEPT ![r] = x], TypeOK', Grown, CallOK(x)',
         TablesOK', OneVersionPerContent',
         \/ x.key = calls[r].key /\ SameRequest(x, calls[r])
         \/ /\ calls[r].key = None
            /\ x.key # None => \A q \in Requests :
                  calls[q].key = x.key => SameRequest(calls[q], x),
         results' = results
  PROVE  RegistryInv'
  <1> USE DEF RegistryInv
  <1>1. calls'[r] = x /\ \A q \in Requests : q # r => calls'[q] = calls[q]
    BY DEF TypeOK
  <1>2. ASSUME NEW q \in Requests
        PROVE  CallOK(calls[q])'
    BY OneCallOK
  <1>3. KeysOK'
    <2>1. ASSUME NEW q \in Requests, NEW s \in Requests,
                 calls'[q].key = calls'[s].key, calls'[q].key # None
          PROVE  SameRequest(calls'[q], calls'[s])
      BY <1>1, <2>1 DEF KeysOK, SameRequest
    <2>2. ASSUME NEW k \in Keys, results[k] # None
          PROVE  Kept(results[k])' /\ \E q \in Requests : calls'[q].key = k
      <3>1. Kept(results[k]) /\ \E q \in Requests : calls[q].key = k
        BY <2>2 DEF KeysOK
      <3>2. Kept(results[k])'
        <4>1. PICK w \in Version : w = results[k]
          BY <3>1 DEF Kept
        <4>2. Kept(w)'
          BY <3>1, <4>1, KeptGrown
        <4>3. QED
          BY <4>1, <4>2 DEF Kept, Alive
      <3>3. PICK q \in Requests : calls[q].key = k
        BY <3>1
      <3>4. calls'[q].key = k
        BY <1>1, <3>3, NoneAssumption
      <3>5. QED
        BY <3>2, <3>4
    <2>3. ASSUME NEW s \in Requests, calls'[s].op = "publish", results[calls'[s].key] # None
          PROVE  /\ results[calls'[s].key].capsule = calls'[s].subject
                 /\ results[calls'[s].key].content = calls'[s].content
      <3>1. CallOK(calls[s])'
        BY <1>2
      <3>2. calls'[s].key \in Keys
        BY <2>3, <3>1 DEF CallOK, Shape
      <3>3. PICK q \in Requests : calls[q].key = calls'[s].key
        BY <2>2, <2>3, <3>2 DEF KeysOK
      <3>4. SameRequest(calls[q], calls'[s])
        BY <1>1, <3>2, <3>3, NoneAssumption DEF KeysOK, SameRequest
      <3>5. QED
        BY <2>3, <3>3, <3>4 DEF KeysOK, SameRequest
    <2>4. QED
      BY <2>1, <2>2, <2>3 DEF KeysOK
  <1>4. QED
    BY <1>2, <1>3

-----------------------------------------------------------------------------
\* Steps that leave the tables alone

LEMMA Quiet ==
  ASSUME RegistryInv, Unstored, worm \subseteq worm', worm' \subseteq Contents,
         calls' \in [Requests -> Call]
  PROVE  TypeOK' /\ Grown /\ TablesOK' /\ OneVersionPerContent'
  <1>1. TypeOK'
    BY DEF RegistryInv, TypeOK, Unstored
  <1>2. \A c \in Capsules : rows[c] # None => rows[c].latest <= rows[c].latest
    BY RowShape DEF RegistryInv
  <1>3. Grown
    BY <1>2 DEF Grown, GoesOnAs, Unstored, RegistryInv, TypeOK
  <1>4. TablesOK'
    BY DEF RegistryInv, TablesOK, VersionOK, Unstored
  <1>5. OneVersionPerContent'
    BY DEF RegistryInv, OneVersionPerContent, Unmixed, Unstored
  <1>6. QED
    BY <1>1, <1>3, <1>4, <1>5

\* A request that sends, or goes on
LEMMA QuietMove ==
  ASSUME RegistryInv, NEW r \in Requests, NEW x \in Call,
         calls' = [calls EXCEPT ![r] = x], Unstored,
         worm \subseteq worm', worm' \subseteq Contents, CallOK(x)',
         \/ x.key = calls[r].key /\ SameRequest(x, calls[r])
         \/ /\ calls[r].key = None
            /\ x.key # None => \A q \in Requests :
                  calls[q].key = x.key => SameRequest(calls[q], x)
  PROVE  RegistryInv'
  <1>1. calls' \in [Requests -> Call]
    BY DEF RegistryInv, TypeOK
  <1>2. TypeOK' /\ Grown /\ TablesOK' /\ OneVersionPerContent'
    BY <1>1, Quiet
  <1>3. results' = results
    BY DEF Unstored
  <1>4. QED
    BY <1>2, <1>3, OneCallMoves

\* A request that ends, whatever it has done to the tables
LEMMA OverOK ==
  ASSUME RegistryInv, TypeOK', Grown, NEW r \in Requests,
         NEW pc \in {"done", "failed", "lost"}, NEW a \in Version \cup {None},
         NEW m \in BOOLEAN, NEW y \in Call, y = Over(r, pc, a, m),
         calls[r].op = "publish" /\ pc = "done" =>
             /\ Kept(a)' /\ a.capsule = calls[r].subject
             /\ a.content = calls[r].content \/ m
  PROVE  CallOK(y)'
  <1>1. /\ SameRequest(y, calls[r]) /\ y.key = calls[r].key
        /\ y.pc = pc /\ y.answer = a /\ y.misled = m
    BY OverShape DEF RegistryInv
  <1>2. Shape(calls[r]) /\ calls[r] \in Call
    BY DEF RegistryInv, CallOK, TypeOK
  <1>3. Shape(y)'
    BY <1>1, <1>2 DEF Shape, SameRequest, Grown, Busy
  <1>4. Loaded(y)' /\ Searched(y)'
    BY <1>1 DEF Loaded, Searched, Busy
  <1>5. Answered(y)'
    BY <1>1 DEF Answered, SameRequest
  <1>6. QED
    BY <1>3, <1>4, <1>5 DEF CallOK

LEMMA CallIsOver ==
  ASSUME RegistryInv, NEW r \in Requests,
         NEW pc \in {"done", "failed", "lost"}, NEW a \in Version \cup {None},
         NEW m \in BOOLEAN, calls' = [calls EXCEPT ![r] = Over(r, pc, a, m)],
         TypeOK', Grown, TablesOK', OneVersionPerContent', results' = results,
         calls[r].op = "publish" /\ pc = "done" =>
             /\ Kept(a)' /\ a.capsule = calls[r].subject
             /\ a.content = calls[r].content \/ m
  PROVE  RegistryInv'
  <1>1. PICK y \in Call : y = Over(r, pc, a, m)
    BY OverShape DEF RegistryInv
  <1>2. SameRequest(y, calls[r]) /\ y.key = calls[r].key
    BY <1>1, OverShape DEF RegistryInv
  <1>3. CallOK(y)'
    BY <1>1, OverOK
  <1>4. calls' = [calls EXCEPT ![r] = y]
    BY <1>1
  <1>5. QED
    BY <1>2, <1>3, <1>4, OneCallMoves

LEMMA CallEnds ==
  ASSUME RegistryInv, NEW r \in Requests, calls[r].op # "publish",
         NEW pc \in {"done", "failed", "lost"}, NEW a \in Version \cup {None},
         Ends(r, pc, a), TypeOK', Grown, TablesOK', OneVersionPerContent', results' = results
  PROVE  RegistryInv'
  BY CallIsOver DEF Ends

\* ... or nothing
LEMMA QuietOver ==
  ASSUME RegistryInv, NEW r \in Requests,
         NEW pc \in {"done", "failed", "lost"}, NEW a \in Version \cup {None},
         NEW m \in BOOLEAN, calls' = [calls EXCEPT ![r] = Over(r, pc, a, m)],
         Unstored, worm' = worm,
         calls[r].op = "publish" /\ pc = "done" =>
             /\ Kept(a) /\ a.capsule = calls[r].subject
             /\ a.content = calls[r].content \/ m
  PROVE  RegistryInv'
  <1>1. calls' \in [Requests -> Call]
    <2>1. PICK y \in Call : y = Over(r, pc, a, m)
      BY OverShape DEF RegistryInv
    <2>2. calls' = [calls EXCEPT ![r] = y]
      BY <2>1
    <2>3. QED
      BY <2>2 DEF RegistryInv, TypeOK
  <1>2. worm \subseteq worm' /\ worm' \subseteq Contents
    BY DEF RegistryInv, TypeOK
  <1>3. TypeOK' /\ Grown /\ TablesOK' /\ OneVersionPerContent' /\ results' = results
    BY <1>1, <1>2, Quiet DEF Unstored
  <1>4. calls[r].op = "publish" /\ pc = "done" =>
            /\ Kept(a)' /\ a.capsule = calls[r].subject
            /\ a.content = calls[r].content \/ m
    BY <1>3, KeptGrown DEF RegistryInv
  <1>5. QED
    BY <1>3, <1>4, CallIsOver

LEMMA QuietEnd ==
  ASSUME RegistryInv, NEW r \in Requests, NEW pc \in {"done", "failed", "lost"},
         Ends(r, pc, None), Unstored, worm' = worm, calls[r].op = "publish" => pc # "done"
  PROVE  RegistryInv'
  BY QuietOver DEF Ends

-----------------------------------------------------------------------------
\* The steps that change no table

LEMMA SendCreateKeeps ==
  ASSUME RegistryInv, NEW r \in Requests, SendCreate(r)
  PROVE  RegistryInv'
  <1>1. calls[r].op = "none" /\ calls[r].key = None
    BY DEF RegistryInv, CallOK, Shape, SendCreate
  <1>2. PICK k \in Keys, n \in Names, h \in Contents :
           /\ Fits(k, "create", n, h)
           /\ calls' = [calls EXCEPT ![r] = Sent("create", "lookup", k, n, h, None)]
           /\ worm' = worm \cup {h}
    BY DEF SendCreate
  <1>3. PICK x \in Call : x = Sent("create", "lookup", k, n, h, None)
    BY DEF Sent, Call, Statuses
  <1>4. CallOK(x)'
    BY <1>2, <1>3 DEF CallOK, Shape, Loaded, Searched, Answered, Sent, Busy
  <1>5. \A q \in Requests : calls[q].key = x.key => SameRequest(calls[q], x)
    BY <1>2, <1>3 DEF Fits, SameRequest, Sent
  <1>6. worm \subseteq worm' /\ worm' \subseteq Contents /\ Unstored
    BY <1>2 DEF RegistryInv, TypeOK, SendCreate
  <1>7. QED
    BY <1>1, <1>2, <1>3, <1>4, <1>5, <1>6, QuietMove

LEMMA SendPublishKeeps ==
  ASSUME RegistryInv, NEW r \in Requests, SendPublish(r)
  PROVE  RegistryInv'
  <1>1. calls[r].op = "none" /\ calls[r].key = None
    BY DEF RegistryInv, CallOK, Shape, SendPublish
  <1>2. PICK k \in Keys, c \in Capsules, h \in Contents :
           /\ Fits(k, "publish", c, h)
           /\ rows[c] # None /\ rows[c].latest < MaxVersions
           /\ calls' = [calls EXCEPT ![r] = Sent("publish", "lookup", k, c, h, rows[c])]
           /\ worm' = worm \cup {h}
    BY DEF SendPublish
  <1>3. rows[c] \in Row /\ rows[c].latest \in Nat /\ rows[c].born <= etags
    BY <1>2, RowShape DEF RegistryInv, TablesOK
  <1>4. PICK x \in Call : x = Sent("publish", "lookup", k, c, h, rows[c])
    BY <1>3 DEF Sent, Call, Statuses
  <1>5. Unstored
    BY DEF SendPublish
  <1>6. CallOK(x)'
    <2>1. x.op = "publish" /\ x.pc = "lookup" /\ x.seen = rows[c] /\ x.subject = c
          /\ x.key = k /\ x.content = h
      BY <1>4 DEF Sent
    <2>2. Shape(x)'
      BY <1>2, <1>3, <1>5, <2>1 DEF Shape, Busy, Unstored
    <2>3. Loaded(x)'
      BY <1>2, <1>3, <1>5, <2>1 DEF Loaded, Same, Unstored
    <2>4. Searched(x)' /\ Answered(x)'
      BY <2>1 DEF Searched, Answered
    <2>5. QED
      BY <2>2, <2>3, <2>4 DEF CallOK
  <1>7. \A q \in Requests : calls[q].key = x.key => SameRequest(calls[q], x)
    BY <1>2, <1>4 DEF Fits, SameRequest, Sent
  <1>8. worm \subseteq worm' /\ worm' \subseteq Contents
    BY <1>2 DEF RegistryInv, TypeOK
  <1>9. QED
    BY <1>1, <1>2, <1>4, <1>5, <1>6, <1>7, <1>8, QuietMove

\* A request that goes on within the same operation
LEMMA GoesOn ==
  ASSUME RegistryInv, NEW r \in Requests, calls[r].pc \in Busy, NEW x \in Call,
         calls' = [calls EXCEPT ![r] = x], Unstored, worm' = worm,
         x.pc \in Busy, SameRequest(x, calls[r]), x.key = calls[r].key,
         x.seen = calls[r].seen, Searched(x)
  PROVE  RegistryInv'
  <1>1. Shape(calls[r]) /\ Loaded(calls[r])
    BY DEF RegistryInv, CallOK
  <1>2. Shape(x)'
    BY <1>1 DEF Shape, SameRequest, Busy, Unstored
  <1>3. Loaded(x)'
    BY <1>1 DEF Loaded, Same, SameRequest, Unstored
  <1>4. Searched(x)'
    BY DEF Searched, Same, Unstored
  <1>5. Answered(x)'
    BY DEF Answered, Busy
  <1>6. CallOK(x)'
    BY <1>2, <1>3, <1>4, <1>5 DEF CallOK
  <1>7. worm \subseteq worm' /\ worm' \subseteq Contents
    BY DEF RegistryInv, TypeOK
  <1>8. QED
    BY <1>6, <1>7, QuietMove

LEMMA LookupKeeps ==
  ASSUME RegistryInv, NEW r \in Requests, Lookup(r)
  PROVE  RegistryInv'
  <1>1. calls[r] \in Call
    BY DEF RegistryInv, TypeOK
  <1>2. PICK x \in Call : x = [calls[r] EXCEPT !.pc = "check"]
    BY <1>1, ZenonT(60) DEF Call
  <1>3. SameRequest(x, calls[r]) /\ x.pc = "check" /\ x.key = calls[r].key
        /\ x.seen = calls[r].seen
    BY <1>1, <1>2 DEF SameRequest, Call
  <1>4. Searched(x) /\ x.pc \in Busy /\ calls[r].pc \in Busy
    BY <1>3 DEF Searched, Busy, Lookup
  <1>5. calls' = [calls EXCEPT ![r] = x] /\ Unstored /\ worm' = worm
    BY <1>2 DEF Lookup, Goes
  <1>6. QED
    BY <1>3, <1>4, <1>5, GoesOn

LEMMA CheckKeeps ==
  ASSUME RegistryInv, NEW r \in Requests, Check(r)
  PROVE  RegistryInv'
  <1>0. calls[r] \in Call /\ calls[r].pc = "check" /\ Unstored /\ worm' = worm
    BY DEF RegistryInv, TypeOK, Check
  <1>1. CASE Allowed(r)
    <2>1. PICK x \in Call : x = [calls[r] EXCEPT !.pc = "blob"]
      BY <1>0 DEF Call
    <2>2. SameRequest(x, calls[r]) /\ x.pc = "blob" /\ x.key = calls[r].key
          /\ x.seen = calls[r].seen
      BY <1>0, <2>1 DEF SameRequest, Call
    <2>3. Searched(x)
      BY <1>1, <2>2 DEF Searched, Allowed, SameRequest
    <2>4. calls' = [calls EXCEPT ![r] = x]
      BY <1>1, <2>1 DEF Check, Goes
    <2>5. x.pc \in Busy /\ calls[r].pc \in Busy
      BY <1>0, <2>2 DEF Busy
    <2>6. QED
      BY <1>0, <2>2, <2>3, <2>4, <2>5, GoesOn
  <1>2. CASE ~Allowed(r)
    BY <1>0, <1>2, QuietEnd DEF Check
  <1>3. QED
    BY <1>1, <1>2

LEMMA ReadBlobKeeps ==
  ASSUME RegistryInv, NEW r \in Requests, ReadBlob(r)
  PROVE  RegistryInv'
  <1>1. calls[r] \in Call /\ calls[r].pc = "blob" /\ Unstored /\ worm' = worm
        /\ Searched(calls[r])
    BY DEF RegistryInv, TypeOK, CallOK, ReadBlob
  <1>2. PICK b \in {"kept", "missing"} :
           calls' = [calls EXCEPT ![r].pc = "commit", ![r].blob = b]
    BY DEF ReadBlob
  <1>3. PICK x \in Call : x = [calls[r] EXCEPT !.pc = "commit", !.blob = b]
    BY <1>1, ZenonT(60) DEF Call
  <1>4. SameRequest(x, calls[r]) /\ x.pc = "commit" /\ x.key = calls[r].key
        /\ x.seen = calls[r].seen
    BY <1>1, <1>3 DEF SameRequest, Call
  <1>5. Searched(x) /\ x.pc \in Busy /\ calls[r].pc \in Busy
    BY <1>1, <1>4 DEF Searched, Same, Busy, SameRequest
  <1>6. calls' = [calls EXCEPT ![r] = x]
    BY <1>2, <1>3
  <1>7. QED
    BY <1>1, <1>4, <1>5, <1>6, GoesOn

\* A repeated publish is answered with the version its result names, unless the
\* capsule of that version is gone and another has its id
LEMMA ReplayKeeps ==
  ASSUME RegistryInv, NEW r \in Requests, Replay(r)
  PROVE  RegistryInv'
  <1> DEFINE w == results[calls[r].key]
  <1>0. calls[r] \in Call /\ calls[r].pc = "lookup" /\ Unstored /\ worm' = worm
        /\ w # None
    BY DEF RegistryInv, TypeOK, Replay
  <1>1. CASE Ends(r, "failed", None)
    BY <1>0, <1>1, QuietEnd
  <1>2. ASSUME NEW v \in Stored(r), calls' = [calls EXCEPT ![r] = Over(r, "done", v, Misled(r))]
        PROVE  RegistryInv'
    <2>1. v \in versions /\ v \in Version /\ v.capsule \in Capsules
      BY VersionShape DEF Stored, Latest, RegistryInv, TypeOK
    <2>2. rows[v.capsule] # None /\ rows[v.capsule].born = v.born
      BY <2>1 DEF RegistryInv, TablesOK, VersionOK
    <2>3. Kept(v)
      BY <2>1, <2>2 DEF Kept, RegistryInv, TablesOK
    <2>4. Misled(r) \in BOOLEAN
      BY DEF Misled
    <2>5. ASSUME calls[r].op = "publish"
          PROVE  v.capsule = calls[r].subject /\ (v.content = calls[r].content \/ Misled(r))
      <3>1. calls[r].key \in Keys
        BY <2>5 DEF RegistryInv, CallOK, Shape
      <3>2. Kept(w) /\ w.capsule = calls[r].subject /\ w.content = calls[r].content
        BY <1>0, <2>5, <3>1 DEF RegistryInv, KeysOK
      <3>3. v.capsule = w.capsule /\ v.version = w.version
        BY <2>5, <3>2 DEF Stored
      <3>4. ASSUME ~Misled(r)
            PROVE  v = w
        <4>1. Alive(w)
          BY <2>2, <3>3, <3>4 DEF Alive, Misled
        <4>2. w \in versions
          BY <3>2, <4>1 DEF Kept
        <4>3. QED
          BY <2>1, <3>3, <4>2 DEF RegistryInv, TablesOK
      <3>5. QED
        BY <3>2, <3>3, <3>4
    <2>6. QED
      BY <1>0, <1>2, <2>1, <2>3, <2>4, <2>5, QuietOver
  <1>3. QED
    BY <1>1, <1>2 DEF Replay

LEMMA RefusedKeeps ==
  ASSUME RegistryInv, NEW r \in Requests, Refused(r)
  PROVE  RegistryInv'
  BY QuietEnd DEF Refused

LEMMA LostKeeps ==
  ASSUME RegistryInv, NEW r \in Requests, Lost(r)
  PROVE  RegistryInv'
  BY QuietEnd DEF Lost

LEMMA SendStatusKeeps ==
  ASSUME RegistryInv, NEW r \in Requests, SendStatus(r)
  PROVE  RegistryInv'
  <1>1. calls[r].op = "none" /\ calls[r].key = None /\ Unstored /\ worm' = worm
    BY DEF RegistryInv, CallOK, Shape, SendStatus
  <1>2. PICK c \in Capsules, s \in Statuses :
           /\ rows[c] # None
           /\ calls' = [calls EXCEPT ![r] =
                  [Sent("status", "load", None, c, None, None) EXCEPT
                      !.want = s, !.tag = rows[c].etag]]
    BY DEF SendStatus
  <1>3. rows[c].etag \in Nat
    BY <1>2, RowShape DEF RegistryInv
  <1> DEFINE y == Sent("status", "load", None, c, None, None)
  <1>4. y \in Call
    BY DEF Sent, Call, Statuses
  <1>5. PICK x \in Call : x = [y EXCEPT !.want = s, !.tag = rows[c].etag]
    BY <1>3, <1>4 DEF Call
  <1>6. /\ x.op = "status" /\ x.pc = "load" /\ x.key = None
        /\ x.content = None /\ x.subject = c
    BY <1>4, <1>5 DEF Sent, Call
  <1>7. CallOK(x)'
    BY <1>6, NoneAssumption DEF CallOK, Shape, Loaded, Searched, Answered, Busy
  <1>8. worm \subseteq worm' /\ worm' \subseteq Contents
    BY <1>1 DEF RegistryInv, TypeOK
  <1>9. QED
    BY <1>1, <1>2, <1>5, <1>6, <1>7, <1>8, QuietMove

LEMMA LoadStatusKeeps ==
  ASSUME RegistryInv, NEW r \in Requests, LoadStatus(r)
  PROVE  RegistryInv'
  <1>1. /\ calls[r] \in Call /\ Shape(calls[r])
        /\ calls[r].pc = "load" /\ Unstored /\ worm' = worm
    BY DEF RegistryInv, TypeOK, CallOK, LoadStatus
  <1>2. CASE Ends(r, "failed", None)
    BY <1>1, <1>2, QuietEnd
  <1>3. CASE /\ rows[calls[r].subject] # None
             /\ calls' = [calls EXCEPT ![r].pc = "write", ![r].seen = rows[calls[r].subject]]
    <2>1. calls[r].op = "status" /\ calls[r].subject \in Capsules
      BY <1>1 DEF Shape
    <2>2. rows[calls[r].subject] \in Row
      BY <1>3, <2>1, RowShape DEF RegistryInv
    <2>3. PICK x \in Call :
             x = [calls[r] EXCEPT !.pc = "write", !.seen = rows[calls[r].subject]]
      BY <1>1, <2>2 DEF Call
    <2>4. SameRequest(x, calls[r]) /\ x.pc = "write" /\ x.key = calls[r].key
          /\ x.seen \in Row
      BY <1>1, <2>2, <2>3 DEF SameRequest, Call
    <2>5. CallOK(x)'
      BY <1>1, <2>1, <2>4 DEF CallOK, Shape, Loaded, Searched, Answered, Busy, SameRequest
    <2>6. worm \subseteq worm' /\ worm' \subseteq Contents
      BY <1>1 DEF RegistryInv, TypeOK
    <2>7. calls' = [calls EXCEPT ![r] = x]
      BY <1>3, <2>3
    <2>8. QED
      BY <1>1, <2>4, <2>5, <2>6, <2>7, QuietMove
  <1>4. QED
    BY <1>2, <1>3 DEF LoadStatus

LEMMA BeginDeleteKeeps ==
  ASSUME RegistryInv, NEW r \in Requests, BeginDelete(r)
  PROVE  RegistryInv'
  <1>1. calls[r].op = "none" /\ calls[r].key = None /\ Unstored /\ worm' = worm
    BY DEF RegistryInv, CallOK, Shape, BeginDelete
  <1>2. PICK c \in Capsules :
           /\ rows[c] # None
           /\ calls' = [calls EXCEPT ![r] = Sent("delete", "delete", None, c, None, rows[c])]
    BY DEF BeginDelete
  <1>3. rows[c] \in Row
    BY <1>2, RowShape DEF RegistryInv
  <1>4. PICK x \in Call : x = Sent("delete", "delete", None, c, None, rows[c])
    BY <1>3 DEF Sent, Call, Statuses
  <1>5. CallOK(x)'
    BY <1>3, <1>4, NoneAssumption
       DEF CallOK, Shape, Loaded, Searched, Answered, Sent, Busy
  <1>6. x.key = None
    BY <1>4 DEF Sent
  <1>7. worm \subseteq worm' /\ worm' \subseteq Contents
    BY <1>1 DEF RegistryInv, TypeOK
  <1>8. QED
    BY <1>1, <1>2, <1>4, <1>5, <1>6, <1>7, QuietMove

-----------------------------------------------------------------------------
\* The steps that change a table

LEMMA WriteStatusKeeps ==
  ASSUME RegistryInv, NEW r \in Requests, WriteStatus(r)
  PROVE  RegistryInv'
  <1> DEFINE c == calls[r].subject
             t == IF calls[r].want = calls[r].seen.status THEN rows[c].status
                  ELSE calls[r].want
  <1>1. /\ calls[r] \in Call /\ calls[r].pc = "write" /\ calls[r].op = "status"
        /\ c \in Capsules /\ calls[r].want \in Statuses
    BY DEF RegistryInv, TypeOK, CallOK, Shape, WriteStatus, Call
  <1>2. UNCHANGED <<versions, blobs, worm, results>>
    BY DEF WriteStatus
  <1>3. CASE rows[c] = None
    BY <1>1, <1>2, <1>3, QuietEnd DEF WriteStatus, Unstored
  <1>4. CASE rows[c] # None
    <2>1. /\ rows' = [rows EXCEPT ![c].etag = etags + 1, ![c].status = t]
          /\ etags' = etags + 1 /\ Ends(r, "done", None)
      BY <1>4 DEF WriteStatus
    <2>2. rows[c] \in Row /\ t \in Statuses
      BY <1>1, <1>4, RowShape DEF RegistryInv
    <2> HIDE DEF t
    <2>3. PICK w \in Row : /\ w = [rows[c] EXCEPT !.etag = etags + 1, !.status = t]
                            /\ w.latest = rows[c].latest
                            /\ w.born = rows[c].born /\ w.mixed = rows[c].mixed
      <3>1. PICK u \in Row, e \in Nat, z \in Statuses :
               u = rows[c] /\ e = etags + 1 /\ z = t
        BY <2>2 DEF RegistryInv, TypeOK
      <3>2. [u EXCEPT !.etag = e, !.status = z] \in Row
        BY DEF Row
      <3>3. /\ [u EXCEPT !.etag = e, !.status = z].latest = u.latest
            /\ [u EXCEPT !.etag = e, !.status = z].born = u.born
            /\ [u EXCEPT !.etag = e, !.status = z].mixed = u.mixed
        BY DEF Row
      <3>4. QED
        BY <3>1, <3>2, <3>3
    <2>4. /\ w.latest = rows[c].latest /\ w # None
          /\ w.born = rows[c].born /\ w.mixed = rows[c].mixed
      BY <2>3, NoneAssumption
    <2>5. rows' = [rows EXCEPT ![c] = w]
      BY <2>1, <2>3
    <2>6. \A b \in Capsules : /\ rows'[b] = None <=> rows[b] = None
                              /\ rows[b] # None =>
                                    /\ rows'[b].latest = rows[b].latest
                                    /\ rows'[b].born = rows[b].born
                                    /\ rows'[b].mixed = rows[b].mixed
      BY <1>1, <1>4, <2>4, <2>5 DEF RegistryInv, TypeOK
    <2>7. calls' \in [Requests -> Call]
      <3>1. PICK y \in Call : y = Over(r, "done", None, FALSE)
        BY OverShape DEF RegistryInv
      <3>2. calls' = [calls EXCEPT ![r] = y]
        BY <2>1, <3>1 DEF Ends, Over
      <3>3. QED
        BY <3>2 DEF RegistryInv, TypeOK
    <2>8. TypeOK'
      BY <1>1, <1>2, <2>1, <2>5, <2>7 DEF RegistryInv, TypeOK
    <2>9. \A b \in Capsules : rows[b] # None => rows[b].latest <= rows[b].latest
      BY RowShape DEF RegistryInv
    <2>10. \A v \in versions : v.capsule \in Capsules
      BY VersionShape DEF RegistryInv, TypeOK
    <2>11. etags' = etags + 1 /\ etags \in Nat
      BY <2>1 DEF RegistryInv, TypeOK
    <2>12. Grown
      <3>1. \A v \in versions : Alive(v)' => v \in versions'
        BY <1>2
      <3>2. \A b \in Capsules : rows'[b] # None => GoesOnAs(b)
        BY <2>6, <2>9 DEF GoesOnAs
      <3>3. QED
        BY <1>2, <2>11, <3>1, <3>2 DEF Grown
    <2>13. TablesOK'
      <3>1. \A b \in Capsules : rows'[b] # None => rows'[b].born <= etags'
        <4>1. \A b \in Capsules : rows[b] # None => rows[b].born \in Nat /\ rows[b].born <= etags
          BY RowShape DEF RegistryInv, TablesOK
        <4>2. QED
          BY <2>6, <2>11, <4>1
      <3>2. \A v \in versions : VersionOK(v)'
        BY <1>2, <2>6, <2>10 DEF RegistryInv, TablesOK, VersionOK
      <3>3. QED
        BY <1>2, <2>6, <3>1, <3>2 DEF RegistryInv, TablesOK
    <2>14. OneVersionPerContent'
      BY <1>2, <2>6, <2>10 DEF RegistryInv, OneVersionPerContent, Unmixed
    <2>15. QED
      BY <1>1, <1>2, <2>1, <2>8, <2>12, <2>13, <2>14, CallEnds
  <1>5. QED
    BY <1>3, <1>4

LEMMA CommitDeleteKeeps ==
  ASSUME RegistryInv, NEW r \in Requests, CommitDelete(r)
  PROVE  RegistryInv'
  <1> DEFINE c == calls[r].subject
  <1>1. /\ calls[r] \in Call /\ calls[r].pc = "delete" /\ calls[r].op = "delete"
        /\ c \in Capsules
    BY DEF RegistryInv, TypeOK, CallOK, Shape, CommitDelete
  <1>2. UNCHANGED <<blobs, worm, results, etags>>
    BY DEF CommitDelete
  <1>3. CASE Ends(r, "failed", None) /\ UNCHANGED <<rows, versions>>
    BY <1>1, <1>2, <1>3, QuietEnd DEF Unstored
  <1>4. CASE /\ rows' = [rows EXCEPT ![c] = None]
             /\ versions' = {v \in versions : v.capsule # c}
             /\ Ends(r, "done", None)
    <2>1. /\ rows'[c] = None
          /\ \A b \in Capsules : b # c => rows'[b] = rows[b]
      BY <1>1, <1>4 DEF RegistryInv, TypeOK
    <2>2. calls' \in [Requests -> Call]
      <3>1. PICK y \in Call : y = Over(r, "done", None, FALSE)
        BY OverShape DEF RegistryInv
      <3>2. calls' = [calls EXCEPT ![r] = y]
        BY <1>4, <3>1 DEF Ends, Over
      <3>3. QED
        BY <3>2 DEF RegistryInv, TypeOK
    <2>3. TypeOK'
      BY <1>1, <1>2, <1>4, <2>2 DEF RegistryInv, TypeOK
    <2>4. \A b \in Capsules : rows[b] # None => rows[b].latest <= rows[b].latest
      BY RowShape DEF RegistryInv
    <2>5. \A v \in versions : v.capsule \in Capsules
      BY VersionShape DEF RegistryInv, TypeOK
    <2>6. etags \in Nat
      BY DEF RegistryInv, TypeOK
    <2>7. Grown
      <3>1. \A v \in versions : Alive(v)' => v \in versions'
        BY <1>4, <2>1 DEF Alive
      <3>2. \A b \in Capsules : rows'[b] # None => GoesOnAs(b)
        BY <2>1, <2>4 DEF GoesOnAs
      <3>3. QED
        BY <1>2, <1>4, <2>6, <3>1, <3>2 DEF Grown
    <2>8. TablesOK'
      <3>1. \A b \in Capsules : rows'[b] # None => rows[b] # None /\ rows'[b] = rows[b] /\ b # c
        BY <2>1
      <3>2. \A v \in versions' : v \in versions /\ rows'[v.capsule] = rows[v.capsule]
        BY <1>4, <2>1, <2>5
      <3>3. \A b \in Capsules : rows'[b] # None => rows'[b].born <= etags'
        BY <1>2, <3>1 DEF RegistryInv, TablesOK
      <3>4. \A v \in versions' : VersionOK(v)'
        BY <1>2, <3>2 DEF RegistryInv, TablesOK, VersionOK
      <3>5. ASSUME NEW b \in Capsules, rows'[b] # None, ~rows'[b].mixed,
                   NEW n \in 1..rows'[b].latest
            PROVE  \E v \in versions' : v.capsule = b /\ v.version = n
        BY <1>4, <3>1, <3>5 DEF RegistryInv, TablesOK
      <3>6. \A v, w \in versions' : v.capsule = w.capsule /\ v.version = w.version => v = w
        BY <3>2 DEF RegistryInv, TablesOK
      <3>7. QED
        BY <3>3, <3>4, <3>5, <3>6 DEF TablesOK
    <2>9. OneVersionPerContent'
      BY <1>4, <2>1, <2>5 DEF RegistryInv, OneVersionPerContent, Unmixed
    <2>10. QED
      BY <1>1, <1>2, <1>4, <2>3, <2>7, <2>8, <2>9, CallEnds
  <1>5. QED
    BY <1>3, <1>4 DEF CommitDelete

LEMMA StoreResultKeeps ==
  ASSUME RegistryInv, NEW r \in Requests, StoreResult(r)
  PROVE  RegistryInv'
  <1>1. /\ calls[r].pc = "store" /\ Shape(calls[r]) /\ Answered(calls[r])
        /\ calls[r] \in Call
    BY DEF RegistryInv, TypeOK, CallOK, StoreResult
  <1>2. PICK v \in Version : v = calls[r].answer
    BY <1>1 DEF Answered, Kept
  <1>3. PICK k \in Keys : k = calls[r].key
    BY <1>1 DEF Shape
  <1>4. /\ results' = [results EXCEPT ![k] = v]
        /\ Ends(r, "done", v) /\ Kept(v)
        /\ UNCHANGED <<rows, versions, blobs, worm, etags>>
    BY <1>1, <1>2, <1>3 DEF StoreResult, Answered
  <1>5. PICK y \in Call : y = Over(r, "done", v, FALSE)
    BY OverShape DEF RegistryInv
  <1>6. SameRequest(y, calls[r]) /\ y.key = k
    <2>1. TypeOK
      BY DEF RegistryInv
    <2>2. ASSUME NEW m \in BOOLEAN
          PROVE  SameRequest(Over(r, "done", v, m), calls[r]) /\ Over(r, "done", v, m).key = calls[r].key
      BY <2>1, OverShape
    <2>3. QED
      BY <1>3, <1>5, <2>2
  <1>7. calls' = [calls EXCEPT ![r] = y]
    BY <1>4, <1>5 DEF Ends, Over
  <1>8. TypeOK'
    BY <1>4, <1>7 DEF RegistryInv, TypeOK
  <1>9. \A c \in Capsules : rows[c] # None => rows[c].latest <= rows[c].latest
    BY RowShape DEF RegistryInv
  <1>10. Grown
    BY <1>4, <1>9 DEF Grown, GoesOnAs, RegistryInv, TypeOK
  <1>11. TablesOK'
    BY <1>4 DEF RegistryInv, TablesOK, VersionOK
  <1>12. OneVersionPerContent'
    BY <1>4 DEF RegistryInv, OneVersionPerContent, Unmixed
  <1>13. calls[r].op = "publish" => v.capsule = calls[r].subject /\ v.content = calls[r].content
    BY <1>1, <1>2 DEF Answered
  <1>14. Kept(v)'
    BY <1>4, <1>8, <1>10, KeptGrown DEF RegistryInv
  <1>15. CallOK(y)'
    BY <1>5, <1>8, <1>10, <1>13, <1>14, OverOK
  <1>16. \A q \in Requests : CallOK(calls[q])'
    BY <1>7, <1>8, <1>10, <1>15, OneCallOK
  <1>17. \A q \in Requests : /\ calls'[q].key = calls[q].key
                             /\ SameRequest(calls'[q], calls[q])
    BY <1>3, <1>6, <1>7 DEF RegistryInv, TypeOK, SameRequest
  <1>18. KeysOK'
    <2>1. \A q, s \in Requests :
             calls'[q].key = calls'[s].key /\ calls'[q].key # None
                 => SameRequest(calls'[q], calls'[s])
      BY <1>17 DEF RegistryInv, KeysOK, SameRequest
    <2>2. ASSUME NEW j \in Keys, results'[j] # None
          PROVE  Kept(results[j])' /\ \E q \in Requests : calls'[q].key = j
      <3>1. CASE j = k
        <4>1. results'[j] = v
          BY <1>4, <3>1 DEF RegistryInv, TypeOK
        <4>2. Kept(results[j])'
          BY <1>14, <4>1 DEF Kept, Alive
        <4>3. QED
          BY <1>3, <1>17, <3>1, <4>2
      <3>2. CASE j # k
        <4>1. results'[j] = results[j]
          BY <1>4, <3>2 DEF RegistryInv, TypeOK
        <4>2. Kept(results[j]) /\ \E q \in Requests : calls[q].key = j
          BY <2>2, <4>1 DEF RegistryInv, KeysOK
        <4>3. Kept(results[j])'
          BY <1>4, <4>1, <4>2 DEF Kept, Alive
        <4>4. QED
          BY <1>17, <4>2, <4>3
      <3>3. QED
        BY <3>1, <3>2
    <2>3. ASSUME NEW s \in Requests, calls'[s].op = "publish", results'[calls'[s].key] # None
          PROVE  /\ results'[calls'[s].key].capsule = calls'[s].subject
                 /\ results'[calls'[s].key].content = calls'[s].content
      <3>1. /\ calls[s].op = "publish" /\ calls'[s].key = calls[s].key
            /\ calls'[s].subject = calls[s].subject /\ calls'[s].content = calls[s].content
        BY <1>17, <2>3 DEF SameRequest
      <3>2. calls[s].key \in Keys
        BY <3>1 DEF RegistryInv, CallOK, Shape
      <3>3. CASE calls[s].key = k
        <4>1. SameRequest(calls[r], calls[s])
          BY <1>3, <3>3, NoneAssumption DEF RegistryInv, KeysOK
        <4>2. results'[calls'[s].key] = v
          BY <1>4, <3>1, <3>3 DEF RegistryInv, TypeOK
        <4>3. QED
          BY <1>13, <3>1, <4>1, <4>2 DEF SameRequest
      <3>4. CASE calls[s].key # k
        <4>1. results'[calls'[s].key] = results[calls[s].key]
          BY <1>4, <3>1, <3>2, <3>4 DEF RegistryInv, TypeOK
        <4>2. QED
          BY <2>3, <3>1, <4>1 DEF RegistryInv, KeysOK
      <3>5. QED
        BY <3>3, <3>4
    <2>4. QED
      BY <2>1, <2>2, <2>3 DEF KeysOK
  <1>19. QED
    BY <1>8, <1>11, <1>12, <1>16, <1>18 DEF RegistryInv

\* A new version v and the row w of its capsule: the row of a capsule that was not
\* there, or the row whose latest number v takes on from, or that of a capsule the
\* request had not loaded.
FirstOf(v) == rows[v.capsule] = None /\ v.version = 1 /\ v.born = etags + 1

TakesOn(v) ==
    /\ ~rows[v.capsule].mixed /\ v.version = rows[v.capsule].latest + 1
    /\ \A u \in versions : u.capsule = v.capsule => u.content # v.content

AnotherOf(v, w) ==
    /\ rows[v.capsule] # None /\ v.born = rows[v.capsule].born
    /\ NumberFree(v.capsule, v.version)
    /\ w.mixed \/ TakesOn(v)

LEMMA InsertKeeps ==
  ASSUME RegistryInv, NEW r \in Requests, NEW v \in Version, NEW w \in Row,
         calls[r].pc = "commit", calls[r].op \in {"create", "publish"},
         v.content = calls[r].content,
         rows' = [rows EXCEPT ![v.capsule] = w],
         Inserted(r, v), w.latest = v.version, w.born = v.born,
         FirstOf(v) \/ AnotherOf(v, w),
         calls[r].op = "publish" => v.capsule = calls[r].subject
  PROVE  RegistryInv'
  <1> DEFINE c == v.capsule
  <1> USE DEF RegistryInv
  <1>1. /\ calls[r] \in Call /\ Shape(calls[r]) /\ c \in Capsules /\ w # None
        /\ v.content \in Contents /\ v.content \in worm
        /\ v.version \in Nat /\ v.version \in 1..MaxVersions
        /\ v.born \in Nat /\ etags \in Nat
    BY VersionShape, NoneAssumption DEF TypeOK, CallOK, Shape
  <1>2. /\ versions' = versions \cup {v} /\ blobs' = blobs \cup {v.content}
        /\ etags' = etags + 1 /\ UNCHANGED <<worm, results>>
        /\ calls' = [calls EXCEPT ![r].pc = "store", ![r].answer = v]
    BY DEF Inserted
  <1>3. PICK x \in Call : x = [calls[r] EXCEPT !.pc = "store", !.answer = v]
    <2>1. PICK y \in Call : y = calls[r]
      BY <1>1
    <2>2. [y EXCEPT !.pc = "store", !.answer = v] \in Call
      BY DEF Call
    <2>3. QED
      BY <2>1, <2>2
  <1>4. SameRequest(x, calls[r]) /\ x.key = calls[r].key /\ x.pc = "store" /\ x.answer = v
    BY <1>1, <1>3 DEF SameRequest, Call
  <1>5. calls' = [calls EXCEPT ![r] = x]
    BY <1>2, <1>3
  <1>6. TypeOK'
    <2>1. rows' \in [Capsules -> Row \cup {None}] /\ results' \in [Keys -> Version \cup {None}]
      BY <1>1, <1>2 DEF TypeOK
    <2>2. versions' \subseteq Version /\ blobs' \subseteq Contents /\ worm' \subseteq Contents
      BY <1>1, <1>2 DEF TypeOK
    <2>3. etags' \in Nat
      BY <1>2 DEF TypeOK
    <2>4. calls' \in [Requests -> Call]
      BY <1>5 DEF TypeOK
    <2>5. QED
      BY <2>1, <2>2, <2>3, <2>4 DEF TypeOK
  <1>7. rows'[c] = w /\ \A b \in Capsules : b # c => rows'[b] = rows[b]
    BY <1>1 DEF TypeOK
  <1>8. \A u \in versions : u \in Version /\ u.capsule \in Capsules /\ u.version \in Nat
    BY VersionShape DEF TypeOK
  <1>9. \A b \in Capsules : rows[b] # None =>
           rows[b].latest \in Nat /\ rows[b].born \in Nat /\ rows[b].born <= etags
    BY RowShape DEF TablesOK
  <1>10. ASSUME ~w.mixed, rows[c] # None
         PROVE  TakesOn(v) /\ rows[c].latest <= w.latest
    <2>1. TakesOn(v)
      BY <1>10 DEF FirstOf, AnotherOf
    <2>2. w.latest = rows[c].latest + 1 /\ rows[c].latest \in Nat
      BY <1>1, <1>9, <1>10, <2>1 DEF TakesOn
    <2>3. QED
      BY <2>1, <2>2
  <1>11. \A u \in versions : u.capsule = c =>
            rows[c] # None /\ u.born = rows[c].born /\ AnotherOf(v, w) /\ u.version # v.version
    BY DEF TablesOK, VersionOK, FirstOf, AnotherOf, NumberFree
  <1>12. Grown
    <2>1. ASSUME NEW b \in Capsules, rows'[b] # None
          PROVE  rows'[b].born > etags \/ GoesOnAs(b)
      <3>1. CASE b = c /\ FirstOf(v)
        BY <1>1, <1>7, <3>1 DEF FirstOf
      <3>2. CASE b = c /\ AnotherOf(v, w)
        <4>1. rows[c] # None /\ w.born = rows[c].born
          BY <3>2 DEF AnotherOf
        <4>2. ~w.mixed => ~rows[c].mixed /\ rows[c].latest <= w.latest
          BY <1>10, <4>1 DEF TakesOn
        <4>3. QED
          BY <1>7, <3>2, <4>1, <4>2 DEF GoesOnAs
      <3>3. CASE b # c
        BY <1>7, <1>9, <2>1, <3>3 DEF GoesOnAs
      <3>4. QED
        BY <3>1, <3>2, <3>3
    <2>2. Comes(v)
      <3>1. CASE FirstOf(v)
        BY <1>1, <1>7, <3>1 DEF Comes, FirstOf
      <3>2. CASE AnotherOf(v, w)
        BY <1>1, <1>7, <1>9, <3>2 DEF Comes, AnotherOf, TakesOn
      <3>3. QED
        BY <3>1, <3>2
    <2>3. QED
      BY <1>1, <1>2, <2>1, <2>2 DEF Grown
  <1>13. TablesOK'
    <2>1. \A b \in Capsules : rows'[b] # None => rows'[b].born <= etags'
      <3>1. w.born <= etags + 1
        BY <1>1, <1>9 DEF FirstOf, AnotherOf
      <3>2. \A b \in Capsules : rows[b] # None => rows[b].born <= etags + 1
        BY <1>1, <1>9
      <3>3. QED
        BY <1>2, <1>7, <3>1, <3>2
    <2>2. ASSUME NEW u \in versions'
          PROVE  VersionOK(u)'
      <3>1. CASE u = v
        BY <1>1, <1>2, <1>7, <3>1 DEF VersionOK
      <3>2. CASE u \in versions /\ u.capsule = c
        <4>1. rows[c] # None /\ u.born = rows[c].born /\ w.born = u.born
          BY <1>11, <3>2 DEF AnotherOf
        <4>2. ASSUME ~w.mixed
              PROVE  u.version <= w.latest
          <5>1. TakesOn(v) /\ rows[c].latest <= w.latest
            BY <1>10, <4>1, <4>2
          <5>2. u.version <= rows[c].latest
            BY <3>2, <5>1 DEF TakesOn, TablesOK, VersionOK
          <5>3. u.version \in Nat /\ rows[c].latest \in Nat /\ w.latest \in Nat
            BY <1>1, <1>8, <1>9, <3>2, <4>1
          <5>4. QED
            BY <5>1, <5>2, <5>3
        <4>3. u.content \in blobs' /\ u.content \in worm'
          BY <1>2, <3>2 DEF TablesOK, VersionOK
        <4>4. QED
          BY <1>1, <1>7, <3>2, <4>1, <4>2, <4>3 DEF VersionOK
      <3>3. CASE u \in versions /\ u.capsule # c
        BY <1>2, <1>7, <1>8, <3>3 DEF TablesOK, VersionOK
      <3>4. QED
        BY <1>2, <3>1, <3>2, <3>3
    <2>3. ASSUME NEW b \in Capsules, rows'[b] # None, ~rows'[b].mixed, NEW n \in 1..rows'[b].latest
          PROVE  \E u \in versions' : u.capsule = b /\ u.version = n
      <3>1. CASE b # c
        BY <1>2, <1>7, <2>3, <3>1 DEF TablesOK
      <3>2. CASE b = c /\ n = v.version
        BY <1>2, <3>2
      <3>3. CASE b = c /\ n # v.version
        <4>1. n \in 1..v.version /\ n < v.version
          BY <1>1, <1>7, <2>3, <3>3
        <4>2. AnotherOf(v, w)
          BY <1>1, <4>1 DEF FirstOf
        <4>3. /\ rows[c] # None /\ ~rows[c].mixed /\ v.version = rows[c].latest + 1
          BY <1>7, <2>3, <3>3, <4>2 DEF AnotherOf, TakesOn
        <4>4. n \in 1..rows[c].latest
          BY <1>1, <1>9, <4>1, <4>3
        <4>5. QED
          BY <1>1, <1>2, <3>3, <4>3, <4>4 DEF TablesOK
      <3>4. QED
        BY <3>1, <3>2, <3>3
    <2>4. \A s, u \in versions' : s.capsule = u.capsule /\ s.version = u.version => s = u
      BY <1>2, <1>11 DEF TablesOK
    <2>5. QED
      BY <2>1, <2>2, <2>3, <2>4 DEF TablesOK
  <1>14. OneVersionPerContent'
    <2> SUFFICES ASSUME NEW s \in versions', NEW u \in versions', s.capsule = u.capsule,
                        s.content = u.content, Unmixed(s.capsule)'
                 PROVE  s = u
      BY DEF OneVersionPerContent
    <2>1. CASE s.capsule = c
      <3>1. ~w.mixed
        BY <1>1, <1>7, <2>1 DEF Unmixed
      <3>2. \A t \in versions : t.capsule = c => t.content # v.content /\ Unmixed(c)
        BY <1>10, <1>11, <3>1 DEF TakesOn, Unmixed
      <3>3. QED
        BY <1>2, <2>1, <3>2 DEF OneVersionPerContent
    <2>2. CASE s.capsule # c
      <3>1. s \in versions /\ u \in versions
        BY <1>2, <2>2
      <3>2. Unmixed(s.capsule)
        BY <1>7, <1>8, <2>2, <3>1 DEF Unmixed
      <3>3. QED
        BY <3>1, <3>2 DEF OneVersionPerContent
    <2>3. QED
      BY <2>1, <2>2
  <1>15. CallOK(x)'
    <2>1. Kept(v)'
      <3>1. v.born <= etags'
        BY <1>1, <1>2, <1>9 DEF FirstOf, AnotherOf
      <3>2. QED
        BY <1>2, <3>1 DEF Kept
    <2>2. Shape(x)'
      BY <1>1, <1>2, <1>4 DEF Shape, SameRequest, Busy
    <2>3. Loaded(x)' /\ Searched(x)'
      BY <1>4 DEF Loaded, Searched, Busy
    <2>4. Answered(x)'
      BY <1>4, <2>1 DEF Answered, SameRequest
    <2>5. QED
      BY <2>2, <2>3, <2>4 DEF CallOK
  <1>16. QED
    BY <1>2, <1>4, <1>5, <1>6, <1>12, <1>13, <1>14, <1>15, OneCallMoves

LEMMA CommitCreateKeeps ==
  ASSUME RegistryInv, NEW r \in Requests, CommitCreate(r)
  PROVE  RegistryInv'
  <1>1. /\ calls[r] \in Call /\ calls[r].pc = "commit" /\ calls[r].op = "create"
        /\ calls[r].subject \in Names /\ calls[r].content \in Contents
    BY DEF RegistryInv, TypeOK, CallOK, Shape, CommitCreate, At
  <1>2. PICK c \in Capsules :
           /\ rows[c] = None
           /\ rows' = [rows EXCEPT ![c] = [name |-> calls[r].subject,
                  status |-> "active", latest |-> 1, etag |-> etags + 1,
                  born |-> etags + 1, mixed |-> FALSE]]
           /\ Inserted(r, [capsule |-> c, version |-> 1, content |-> calls[r].content,
                           born |-> etags + 1])
    BY DEF CommitCreate
  <1>3. 1 \in 1..MaxVersions /\ etags + 1 \in Nat
    BY ConfigAssumption DEF RegistryInv, TypeOK
  <1>4. PICK v \in Version : v = [capsule |-> c, version |-> 1, content |-> calls[r].content,
                                  born |-> etags + 1]
    BY <1>1, <1>3 DEF Version
  <1>5. PICK w \in Row : w = [name |-> calls[r].subject, status |-> "active", latest |-> 1,
                              etag |-> etags + 1, born |-> etags + 1, mixed |-> FALSE]
    BY <1>1, <1>3 DEF Row, Statuses
  <1>6. /\ v.capsule = c /\ v.version = 1 /\ v.content = calls[r].content /\ w.latest = 1
        /\ v.born = etags + 1 /\ w.born = etags + 1
    BY <1>4, <1>5
  <1>7. Inserted(r, v) /\ rows' = [rows EXCEPT ![v.capsule] = w]
    BY <1>2, <1>4, <1>5, <1>6, SMTT(30)
  <1>8. FirstOf(v)
    BY <1>2, <1>6 DEF FirstOf
  <1>9. QED
    BY <1>1, <1>6, <1>7, <1>8, InsertKeeps

LEMMA CommitPublishKeeps ==
  ASSUME RegistryInv, NEW r \in Requests, CommitPublish(r)
  PROVE  RegistryInv'
  <1> DEFINE c == calls[r].subject
             n == calls[r].seen.latest
             m == rows[c].mixed \/ calls[r].seen.born # rows[c].born
  <1>1. /\ calls[r] \in Call /\ calls[r].pc = "commit" /\ calls[r].op = "publish"
        /\ rows[c] # None /\ Shape(calls[r]) /\ Loaded(calls[r]) /\ Searched(calls[r])
    BY DEF RegistryInv, TypeOK, CallOK, CommitPublish, At
  <1>2. /\ c \in Capsules /\ calls[r].content \in Contents
        /\ calls[r].seen \in Row /\ n < MaxVersions
        /\ Same(calls[r]) => n <= rows[c].latest
    BY <1>1 DEF RegistryInv, TypeOK, Shape, Loaded, Busy
  <1>3. rows[c] \in Row /\ rows[c].latest \in Nat /\ n \in Nat /\ MaxVersions \in Nat
        /\ n \in 1..MaxVersions /\ rows[c].born \in Nat
    BY <1>1, <1>2, RowShape, ConfigAssumption DEF RegistryInv, Row
  <1>4. n + 1 \in 1..MaxVersions /\ etags + 1 \in Nat
    BY <1>2, <1>3 DEF RegistryInv, TypeOK
  <1>5. /\ NextNumber(r) = n + 1 /\ NumberFree(c, n + 1)
        /\ rows' = [rows EXCEPT ![c].latest = n + 1, ![c].etag = etags + 1, ![c].mixed = m]
        /\ Inserted(r, [capsule |-> c, version |-> n + 1, content |-> calls[r].content,
                        born |-> rows[c].born])
    BY DEF CommitPublish, NextNumber
  <1>6. PICK v \in Version : v = [capsule |-> c, version |-> n + 1,
                                  content |-> calls[r].content, born |-> rows[c].born]
    BY <1>2, <1>3, <1>4 DEF Version
  <1>7. /\ v.capsule = c /\ v.version = n + 1 /\ v.content = calls[r].content
        /\ v.born = rows[c].born /\ Inserted(r, v)
    BY <1>5, <1>6
  <1>8. m \in BOOLEAN
    BY <1>3 DEF Row
  <1> HIDE DEF m
  <1>9. PICK w \in Row : /\ w = [rows[c] EXCEPT !.latest = n + 1, !.etag = etags + 1, !.mixed = m]
                         /\ w.latest = n + 1 /\ w.born = rows[c].born /\ w.mixed = m
    <2>1. PICK u \in Row, e \in Nat, k \in 1..MaxVersions, b \in BOOLEAN :
             u = rows[c] /\ e = etags + 1 /\ k = n + 1 /\ b = m
      BY <1>3, <1>4, <1>8
    <2>2. [u EXCEPT !.latest = k, !.etag = e, !.mixed = b] \in Row
      BY DEF Row
    <2>3. /\ [u EXCEPT !.latest = k, !.etag = e, !.mixed = b].latest = k
          /\ [u EXCEPT !.latest = k, !.etag = e, !.mixed = b].born = u.born
          /\ [u EXCEPT !.latest = k, !.etag = e, !.mixed = b].mixed = b
      BY DEF Row
    <2>4. QED
      BY <2>1, <2>2, <2>3
  <1>10. ASSUME ~m
         PROVE  TakesOn(v)
    <2>1. Same(calls[r]) /\ ~rows[c].mixed
      BY <1>1, <1>10 DEF Same, m
    <2>2. n = rows[c].latest
      <3> SUFFICES ASSUME n < rows[c].latest PROVE FALSE
        BY <1>2, <1>3, <2>1
      <3>1. n + 1 \in 1..rows[c].latest
        BY <1>3
      <3>2. PICK u \in versions : u.capsule = c /\ u.version = n + 1
        BY <1>1, <1>2, <2>1, <3>1 DEF RegistryInv, TablesOK
      <3>3. QED
        BY <1>5, <3>2 DEF NumberFree
    <2>3. \A u \in versions : u.capsule = c => u.version <= n
      BY <2>1, <2>2 DEF RegistryInv, TablesOK, VersionOK
    <2>4. \A u \in versions : u.capsule = c => u.content # v.content
      BY <1>1, <1>7, <2>1, <2>3 DEF Searched
    <2>5. QED
      BY <1>7, <2>1, <2>2, <2>4 DEF TakesOn
  <1>11. AnotherOf(v, w)
    BY <1>1, <1>5, <1>7, <1>9, <1>10 DEF AnotherOf
  <1>12. rows' = [rows EXCEPT ![v.capsule] = w]
    BY <1>5, <1>7, <1>9
  <1>13. QED
    BY <1>1, <1>7, <1>9, <1>11, <1>12, InsertKeeps

-----------------------------------------------------------------------------
\* The theorems

\* No request holds anything at the start.
LEMMA InitInvariant ==
  ASSUME Init
  PROVE  RegistryInv
  <1>1. \A r \in Requests : calls[r] = NewCall
    BY DEF Init
  <1>2. NewCall \in Call
    BY DEF NewCall, Sent, Call, Statuses
  <1>3. /\ NewCall.op = "none" /\ NewCall.pc = "new" /\ NewCall.key = None
        /\ NewCall.content = None
    BY DEF NewCall, Sent
  <1>4. TypeOK
    BY <1>2 DEF Init, TypeOK
  <1>5. TablesOK /\ OneVersionPerContent
    BY DEF Init, TablesOK, OneVersionPerContent
  <1>6. KeysOK
    BY <1>1, <1>3 DEF Init, KeysOK
  <1>7. \A r \in Requests : CallOK(calls[r])
    BY <1>1, <1>3 DEF CallOK, Shape, Loaded, Searched, Answered, Busy
  <1>8. QED
    BY <1>4, <1>5, <1>6, <1>7 DEF RegistryInv

\* Every step keeps the invariant.
LEMMA NextInvariant ==
  ASSUME RegistryInv, [Next]_vars
  PROVE  RegistryInv'
  <1>1. CASE UNCHANGED vars
    BY <1>1 DEF vars, RegistryInv, TypeOK, TablesOK, VersionOK, OneVersionPerContent,
                Unmixed, KeysOK, CallOK, Shape, Loaded, Same, Searched, Answered, Kept, Alive, Alive, Same
  <1>2. ASSUME NEW r \in Requests,
               \/ SendCreate(r) \/ SendPublish(r) \/ Lookup(r) \/ Replay(r) \/ Check(r)
               \/ ReadBlob(r) \/ CommitCreate(r) \/ CommitPublish(r) \/ Refused(r)
               \/ StoreResult(r) \/ SendStatus(r) \/ LoadStatus(r) \/ WriteStatus(r)
               \/ BeginDelete(r) \/ CommitDelete(r) \/ Lost(r)
        PROVE  RegistryInv'
    BY <1>2, SendCreateKeeps, SendPublishKeeps, LookupKeeps, ReplayKeeps, CheckKeeps,
       ReadBlobKeeps, CommitCreateKeeps, CommitPublishKeeps, RefusedKeeps,
       StoreResultKeeps, SendStatusKeeps, LoadStatusKeeps, WriteStatusKeeps,
       BeginDeleteKeeps, CommitDeleteKeeps, LostKeeps
  <1>3. QED
    BY <1>1, <1>2 DEF Next

\* What the tables, the results and the requests in flight hold of a capsule agrees
\* at every moment, as long as the same capsule has the id: the argument behind the
\* three theorems below.
THEOREM Invariance == Spec => []RegistryInv
  <1>1. Init => RegistryInv
    BY InitInvariant
  <1>2. RegistryInv /\ [Next]_vars => RegistryInv'
    BY NextInvariant
  <1>3. QED
    BY <1>1, <1>2, PTL DEF Spec

\* Numbers are dense: no publish, delete or restore of another request in
\* between makes a publish skip a number or take one twice, unless a request
\* publishes into another capsule than it had loaded.
THEOREM DenseNumbers == Spec => []VersionsInOrder
  <1>1. ASSUME RegistryInv
        PROVE  VersionsInOrder
    <2>1. ASSUME NEW c \in Capsules
          PROVE  \A v, w \in VersionsOf(c) : v.version = w.version => v = w
      BY <1>1 DEF RegistryInv, TablesOK, VersionsOf
    <2>2. ASSUME NEW c \in Capsules, rows[c] = None
          PROVE  {v.version : v \in VersionsOf(c)} = {}
      <3>1. VersionsOf(c) = {}
        BY <1>1, <2>2 DEF RegistryInv, TablesOK, VersionOK, VersionsOf
      <3>2. QED
        BY <3>1
    <2>3. ASSUME NEW c \in Capsules, rows[c] # None, ~rows[c].mixed
          PROVE  {v.version : v \in VersionsOf(c)} = 1..rows[c].latest
      <3>1. rows[c].latest \in Nat
        BY <1>1, <2>3, RowShape DEF RegistryInv
      <3>2. ASSUME NEW v \in VersionsOf(c)
            PROVE  v.version \in 1..rows[c].latest
        <4>1. v \in versions /\ v.capsule = c
          BY DEF VersionsOf
        <4>2. v.version \in Nat /\ v.version \in 1..MaxVersions /\ v.version <= rows[c].latest
          BY <1>1, <2>3, <4>1, VersionShape DEF RegistryInv, TypeOK, TablesOK, VersionOK
        <4>3. QED
          BY <3>1, <4>2, ConfigAssumption
      <3>3. ASSUME NEW n \in 1..rows[c].latest
            PROVE  \E v \in VersionsOf(c) : v.version = n
        BY <1>1, <2>3 DEF RegistryInv, TablesOK, VersionsOf
      <3>4. QED
        BY <3>2, <3>3
    <2>4. QED
      BY <2>1, <2>2, <2>3 DEF VersionsInOrder, Unmixed
  <1>2. QED
    BY <1>1, Invariance, PTL

\* The search for the content and the insert are apart, yet no content is
\* published twice in a capsule, with the same exception.
THEOREM NoContentTwice == Spec => []OneVersionPerContent
  <1>1. RegistryInv => OneVersionPerContent
    BY DEF RegistryInv
  <1>2. QED
    BY <1>1, Invariance, PTL

\* An answered publish, the first or a repeated one, names the version that was
\* made for it, and the version is there while the capsule is; only a repeated one
\* about a capsule whose id another has got may name other content.
THEOREM AnswersStayTrue == Spec => []AnswersHold
  <1>1. ASSUME RegistryInv, NEW r \in Requests, At(r, "publish", "done")
        PROVE  LET v == calls[r].answer
                   row == rows[v.capsule]
               IN  /\ v.capsule = calls[r].subject
                   /\ v.content = calls[r].content \/ calls[r].misled
                   /\ row # None /\ row.born = v.born =>
                          v \in versions /\ v.content \in blobs \cap worm
    BY <1>1 DEF RegistryInv, CallOK, Answered, Kept, Alive, TablesOK, VersionOK, At
  <1>2. RegistryInv => AnswersHold
    BY <1>1 DEF AnswersHold
  <1>3. QED
    BY <1>2, Invariance, PTL
=============================================================================
