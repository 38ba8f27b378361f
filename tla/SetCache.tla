----------------------------- MODULE SetCache -----------------------------
(* trust.Set under concurrency: Valid takes no lock when its cache answers,  *)
(* and fills the cache after it has let go of the read lock, while records   *)
(* are added under the write lock.                                           *)
(*                                                                           *)
(* Who is a member is a function of the records; all that matters here is    *)
(* that a record change may change it in any way, so `records' is the set of *)
(* identities the stored records make members.  The cache is a map that      *)
(* every change replaces; maps are numbered in the order they are created.   *)
EXTENDS Integers

CONSTANTS
    Id,         \* the identities Valid is asked about
    Reader,     \* goroutines in Valid, one call at a time each
    MaxChange   \* bound on the number of record changes

ASSUME CacheAssumption == MaxChange \in Nat

VARIABLES
    records,    \* the identities the stored records make members
    writer,     \* the write lock: "free", or how far its holder is
    readers,    \* the goroutines that hold the read lock
    cur,        \* s.members: the map in use
    maps,       \* the identities cached in each map
    pc,         \* where each goroutine is in Valid
    arg,        \* the identity it asks about
    cached,     \* the map it has loaded
    ans,        \* its answer
    truth,      \* history: who was a member after the last finished change
    seen        \* history: what was true of arg since the call began

locks == <<writer, readers>>
vars == <<records, writer, readers, cur, maps, pc, arg, cached, ans, truth, seen>>

Verdict(id, ids) == IF id \in ids THEN "yes" ELSE "no"
Answer(r) == IF ans[r] THEN "yes" ELSE "no"

Map == 0 .. MaxChange

Active == {"load", "lookup", "rlock", "judge", "runlock", "store", "return"}

TypeOK ==
    /\ records \in SUBSET Id
    /\ writer \in {"free", "held", "changed", "done"}
    /\ readers \in SUBSET Reader
    /\ cur \in Map
    /\ maps \in [Map -> SUBSET Id]
    /\ pc \in [Reader -> Active \cup {"idle"}]
    /\ arg \in [Reader -> Id]
    /\ cached \in [Reader -> Map]
    /\ ans \in [Reader -> BOOLEAN]
    /\ truth \in SUBSET Id
    /\ seen \in [Reader -> SUBSET {"yes", "no"}]

Init ==
    /\ records \in SUBSET Id
    /\ writer = "free"
    /\ readers = {}
    /\ cur = 0
    /\ maps = [m \in Map |-> {}]
    /\ pc = [r \in Reader |-> "idle"]
    /\ arg \in [Reader -> Id]
    /\ cached = [r \in Reader |-> 0]
    /\ ans = [r \in Reader |-> FALSE]
    /\ truth = records
    /\ seen = [r \in Reader |-> {}]

-----------------------------------------------------------------------------
(* AddAdmission and AddRevocation. *)

Lock ==
    /\ writer = "free" /\ readers = {}
    /\ writer' = "held"
    /\ UNCHANGED <<records, readers, cur, maps, pc, arg, cached, ans, truth, seen>>

(* The record is stored; the cache still has the answers from before.        *)
ChangeRecord ==
    /\ writer = "held" /\ cur < MaxChange
    /\ records' \in SUBSET Id
    /\ writer' = "changed"
    /\ UNCHANGED <<readers, cur, maps, pc, arg, cached, ans, truth, seen>>

(* The record was known already: nothing is stored.                          *)
KeepRecords ==
    /\ writer = "held"
    /\ writer' = "done"
    /\ UNCHANGED <<records, readers, cur, maps, pc, arg, cached, ans, truth, seen>>

(* From here on every new call is answered from the new records.             *)
Forget ==
    /\ writer = "changed"
    /\ cur' = cur + 1
    /\ truth' = records
    /\ seen' = [r \in Reader |-> IF pc[r] = "idle" THEN {} ELSE seen[r] \cup {Verdict(arg[r], records)}]
    /\ writer' = "done"
    /\ UNCHANGED <<records, readers, maps, pc, arg, cached, ans>>

Unlock ==
    /\ writer = "done"
    /\ writer' = "free"
    /\ UNCHANGED <<records, readers, cur, maps, pc, arg, cached, ans, truth, seen>>

-----------------------------------------------------------------------------
(* Valid. *)

Goto(r, from, to) == pc[r] = from /\ pc' = [pc EXCEPT ![r] = to]

Call(r, id) ==
    /\ Goto(r, "idle", "load")
    /\ arg' = [arg EXCEPT ![r] = id]
    /\ seen' = [seen EXCEPT ![r] = {Verdict(id, truth)}]
    /\ UNCHANGED <<records, locks, cur, maps, cached, ans, truth>>

Load(r) ==
    /\ Goto(r, "load", "lookup")
    /\ cached' = [cached EXCEPT ![r] = cur]
    /\ UNCHANGED <<records, locks, cur, maps, arg, ans, truth, seen>>

BugHit(r) ==
    /\ maps[cached[r]] # {}
    /\ Goto(r, "lookup", "return")
    /\ ans' = [ans EXCEPT ![r] = TRUE]
    /\ UNCHANGED <<records, locks, cur, maps, arg, cached, truth, seen>>

Hit(r) ==
    /\ arg[r] \in maps[cached[r]]
    /\ Goto(r, "lookup", "return")
    /\ ans' = [ans EXCEPT ![r] = TRUE]
    /\ UNCHANGED <<records, locks, cur, maps, arg, cached, truth, seen>>

Miss(r) ==
    /\ arg[r] \notin maps[cached[r]]
    /\ Goto(r, "lookup", "rlock")
    /\ UNCHANGED <<records, locks, cur, maps, arg, cached, ans, truth, seen>>

BugRLock(r) ==
    /\ Goto(r, "rlock", "judge")
    /\ readers' = readers \cup {r}
    /\ UNCHANGED <<records, writer, cur, maps, arg, cached, ans, truth, seen>>

RLock(r) ==
    /\ writer = "free"
    /\ Goto(r, "rlock", "judge")
    /\ readers' = readers \cup {r}
    /\ UNCHANGED <<records, writer, cur, maps, arg, cached, ans, truth, seen>>

Judge(r) ==
    /\ Goto(r, "judge", "runlock")
    /\ ans' = [ans EXCEPT ![r] = arg[r] \in records]
    /\ UNCHANGED <<records, locks, cur, maps, arg, cached, truth, seen>>

RUnlock(r) ==
    /\ Goto(r, "runlock", IF ans[r] THEN "store" ELSE "return")
    /\ readers' = readers \ {r}
    /\ UNCHANGED <<records, writer, cur, maps, arg, cached, ans, truth, seen>>

(* The answer goes into the map loaded at the start, which may have been     *)
(* replaced since.                                                           *)
Store(r) ==
    /\ Goto(r, "store", "return")
    /\ maps' = [maps EXCEPT ![cached[r]] = @ \cup {arg[r]}]
    /\ UNCHANGED <<records, locks, cur, arg, cached, ans, truth, seen>>

Return(r) ==
    /\ Goto(r, "return", "idle")
    /\ seen' = [seen EXCEPT ![r] = {}]
    /\ UNCHANGED <<records, locks, cur, maps, arg, cached, ans, truth>>

Write == Lock \/ ChangeRecord \/ KeepRecords \/ Forget \/ Unlock

Read(r) ==
    \/ \E id \in Id : Call(r, id)
    \/ Load(r) \/ Hit(r) \/ Miss(r) \/ RLock(r) \/ Judge(r) \/ RUnlock(r)
    \/ Store(r) \/ Return(r)

Next == Write \/ \E r \in Reader : Read(r)

Spec == Init /\ [][Next]_vars

-----------------------------------------------------------------------------
(* The map in use never calls a non-member a member: an answer computed from *)
(* records that have changed since cannot be stored in it (Valid loads the   *)
(* map before it judges, forget replaces it under the write lock).           *)
CacheSound == maps[cur] \subseteq truth

(* Every answer of Valid was right at some moment of the call: no call that  *)
(* begins after a revocation has been added is told the identity is still a  *)
(* member, whoever else is in Valid at the time.                             *)
AnswersLinearizable == \A r \in Reader : pc[r] = "return" => Answer(r) \in seen[r]

-----------------------------------------------------------------------------
(* Why they hold: the parts of the inductive invariant. *)

Judged(r) == pc[r] \in {"runlock", "store"} /\ ans[r]

(* A goroutine that judges or has judged holds the read lock, and no change  *)
(* is under way then.                                                        *)
ReadersExcludeWriter ==
    /\ \A r \in Reader : pc[r] \in {"judge", "runlock"} => r \in readers
    /\ readers # {} => writer = "free"

(* Between changes the records are what the last one left.                   *)
TruthFollowsRecords == writer # "changed" => records = truth

OnlyYesStored == \A r \in Reader : pc[r] = "store" => ans[r]

RoomForMap == writer = "changed" => cur < MaxChange

(* Maps still to be created are empty, and nobody has loaded one.            *)
FutureMapsEmpty ==
    /\ \A m \in Map : m > cur => maps[m] = {}
    /\ \A r \in Reader : cached[r] <= cur

(* A goroutine that will store in the map in use judged the latest records.  *)
PendingStoresSound ==
    \A r \in Reader : Judged(r) /\ cached[r] = cur => arg[r] \in truth

(* A call in progress has seen what is true now, ...                         *)
SeenCurrent == \A r \in Reader : pc[r] # "idle" => Verdict(arg[r], truth) \in seen[r]

(* ... and what it may yet be told: by its own judgement, by the map it has  *)
(* loaded, or by somebody about to store the same identity in that map.      *)
SeenAnswers ==
    \A r \in Reader :
        /\ pc[r] \in {"runlock", "store", "return"} => Answer(r) \in seen[r]
        /\ pc[r] \in Active \ {"load"} =>
              /\ arg[r] \in maps[cached[r]] => "yes" \in seen[r]
              /\ \A q \in Reader :
                    Judged(q) /\ cached[q] = cached[r] /\ arg[q] = arg[r] => "yes" \in seen[r]

(* The inductive invariant: why an answer stored late (Valid) cannot reach a *)
(* map that a change of the records has put in place (forget).               *)
CacheInv ==
    /\ TypeOK
    /\ ReadersExcludeWriter
    /\ TruthFollowsRecords
    /\ RoomForMap
    /\ OnlyYesStored
    /\ FutureMapsEmpty
    /\ PendingStoresSound
    /\ SeenCurrent
    /\ SeenAnswers
    /\ CacheSound
=============================================================================
