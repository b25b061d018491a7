------------------------------- MODULE Snapshots -------------------------------
(***************************************************************************)
(* The images of one service's snapshots.  A snapshot is a row and a tag   *)
(* of the service's image that exists on this host only; services restored *)
(* from it and sandboxes forked from it run from that tag.  Tags go with a *)
(* snapshot that is deleted or past the retention, with the service, and   *)
(* by GC, once no container and no row refers to them.                     *)
(*                                                                         *)
(* All tags are of one image, which is older than minImageAge: TagImage    *)
(* does not change the age that GC looks at.  Docker's own refusal to      *)
(* remove the last tag of an image in use is one way for RemoveImage to    *)
(* fail.                                                                   *)
(***************************************************************************)
EXTENDS Naturals, Sequences, SequencesExt

CONSTANTS
  Snaps,           \* snapshots that may be taken
  Used,            \* bound: those something is made from
  MaxPerService,   \* the retention limit
  MaxFaults,       \* bound: calls and writes that fail
  MaxCrashes       \* bound: restarts of ah

Built == "built"   \* the tag the service's build made

SnapshotsAssumption == Built \notin Snaps /\ MaxPerService \in Nat

Deleters == {"api", "gc"}

VARIABLES
  service,    \* the service: a row that names Built, with a container or none; or gone
  tags,       \* Docker's tags
  rows,       \* the snapshots rows, oldest first
  creator,    \* per snapshot, where Create is
  user,       \* per snapshot, the service or sandbox made from it
  deletion,   \* per deleter, the snapshot that deleteSnapshot is at
  gc,         \* where GC is: what it has listed, what is in use, what it has left to do
  removal,    \* services.Delete: where it is, and the image refs it has read
  attempted,  \* history: snapshots that a deletion was begun of
  exposed,    \* history: tags that GC saw while their row was not there yet
  late,       \* history: users whose row was made when their snapshot's deletion had begun
  faults, crashes   \* bounds

vars == <<service, tags, rows, creator, user, deletion, gc, removal, attempted, exposed, late,
          faults, crashes>>

NoDeletion == [pc |-> "none", snap |-> Built]
NoRemoval == [pc |-> "none", refs |-> {}]
Idle == [pc |-> "idle", listed |-> {}, inUse |-> {}, excess |-> 0, todo |-> <<>>]
Tags == Snaps \cup {Built}
Using == {"row", "container"}

TypeOK ==
  /\ service \in {"image", "container", "gone"}
  /\ tags \subseteq Tags /\ rows \in Seq(Snaps) /\ IsInjective(rows)
  /\ creator \in [Snaps -> {"new", "tag", "insert", "cleanup", "end"}]
  /\ user \in [Snaps -> [kind : {"service", "sandbox"},
                         pc : {"none", "read", "row", "container", "deleting", "gone"}]]
  /\ deletion \in [Deleters -> [pc : {"none", "check", "image", "row"}, snap : Tags]]
  /\ gc \in [pc : {"idle", "containers", "rows", "remove", "count", "select", "age", "delete"},
             listed : SUBSET Tags, inUse : SUBSET Tags, excess : Nat, todo : Seq(Snaps)]
  /\ removal \in [pc : {"none", "tx", "check"}, refs : SUBSET Snaps]
  /\ attempted \subseteq Snaps /\ exposed \subseteq Snaps /\ late \subseteq Snaps

Init ==
  /\ service \in {"image", "container"}
  /\ tags = {Built} /\ rows = <<>>
  /\ creator = [s \in Snaps |-> "new"]
  /\ \E kind \in {"service", "sandbox"} : user = [s \in Snaps |-> [kind |-> kind, pc |-> "none"]]
  /\ deletion = [d \in Deleters |-> NoDeletion] /\ gc = Idle /\ removal = NoRemoval
  /\ attempted = {} /\ exposed = {} /\ late = {}
  /\ faults = 0 /\ crashes = 0

Fails == faults < MaxFaults /\ faults' = faults + 1
Succeeds == faults' = faults

\* RemoveImage, whose failure its callers log.
RemoveImage(t) ==
  \/ Succeeds /\ tags' = tags \ {t}
  \/ Fails /\ tags' = tags

-----------------------------------------------------------------------------
(* Create. *)

To(s, pc) == creator' = [creator EXCEPT ![s] = pc]

BeginCreate(s) ==
  /\ creator[s] = "new" /\ service # "gone"
  /\ To(s, "tag")
  /\ UNCHANGED <<service, tags, rows, user, deletion, gc, removal, attempted, exposed, late,
                 faults, crashes>>

TagImage(s) ==
  /\ creator[s] = "tag"
  /\ \/ Succeeds /\ Built \in tags /\ tags' = tags \cup {s} /\ To(s, "insert")
     \/ Succeeds /\ Built \notin tags /\ tags' = tags /\ To(s, "end")
     \/ Fails /\ tags' = tags /\ To(s, "end")
  /\ UNCHANGED <<service, rows, user, deletion, gc, removal, attempted, exposed, late, crashes>>

\* The queries for the env and the quotas may fail as well as the INSERT, which needs the
\* service's row.
InsertSnapshot(s) ==
  /\ creator[s] = "insert"
  /\ \/ Succeeds /\ service # "gone" /\ rows' = Append(rows, s) /\ To(s, "end")
     \/ Succeeds /\ service = "gone" /\ rows' = rows /\ To(s, "cleanup")
     \/ Fails /\ rows' = rows /\ To(s, "cleanup")
  /\ UNCHANGED <<service, tags, user, deletion, gc, removal, attempted, exposed, late, crashes>>

\* The deferred removal of the orphaned tag.
CleanupTag(s) ==
  /\ creator[s] = "cleanup"
  /\ RemoveImage(s) /\ To(s, "end")
  /\ UNCHANGED <<service, rows, user, deletion, gc, removal, attempted, exposed, late, crashes>>

-----------------------------------------------------------------------------
(* The users of a snapshot: handleServiceCreateFromSnapshot and CreateSandbox read the row   *)
(* first, and insert their own later.                                                        *)

Step(s, pc) == user' = [user EXCEPT ![s].pc = pc]

\* Get, and its env with loadEnvBlob: the row again.
Get(s) == s \in ToSet(rows) \cap Used

ReadSnapshot(s) ==
  /\ user[s].pc = "none" /\ Get(s)
  /\ Step(s, "read")
  /\ UNCHANGED <<service, tags, rows, creator, deletion, gc, removal, attempted, exposed, late,
                 faults, crashes>>

\* What it read is validated before the service or the sandbox is made from it.
CreateFromSnapshot(s) == user[s].kind = "service" /\ ReadSnapshot(s)

ResolveSource(s) == user[s].kind = "sandbox" /\ ReadSnapshot(s)

InsertUser(s) ==
  /\ user[s].pc = "read"
  /\ Step(s, "row")
  /\ late' = IF s \in attempted THEN late \cup {s} ELSE late
  /\ UNCHANGED <<service, tags, rows, creator, deletion, gc, removal, attempted, exposed,
                 faults, crashes>>

RunUser(s) ==
  /\ user[s].pc = "row" /\ s \in tags
  /\ Step(s, "container")
  /\ UNCHANGED <<service, tags, rows, creator, deletion, gc, removal, attempted, exposed, late,
                 faults, crashes>>

\* A service is deleted or deploys another image; a sandbox is claimed, then removed.
EndUser(s) ==
  /\ \/ user[s].kind = "service" /\ user[s].pc \in Using /\ Step(s, "gone")
     \/ user[s].kind = "sandbox" /\ user[s].pc \in Using /\ Step(s, "deleting")
     \/ user[s].pc = "deleting" /\ Step(s, "gone")
  /\ UNCHANGED <<service, tags, rows, creator, deletion, gc, removal, attempted, exposed, late,
                 faults, crashes>>

-----------------------------------------------------------------------------
(* deleteSnapshot, of the API's Delete and of the retention. *)

BeginDeletion(d, s) ==
  /\ deletion[d].pc = "none"
  /\ deletion' = [deletion EXCEPT ![d] = [pc |-> "check", snap |-> s]]
  /\ attempted' = attempted \cup {s}

\* The API reads the row first.
DeleteSnapshot(s) ==
  /\ s \in ToSet(rows)
  /\ BeginDeletion("api", s)
  /\ UNCHANGED <<service, tags, rows, creator, user, gc, removal, exposed, late, faults, crashes>>

\* ImageReferencedByService: services, and sandboxes that are not being deleted.
ImageReferencedByService(s) == user[s].pc \in Using

DeletionStep(d, pc) == deletion' = [deletion EXCEPT ![d].pc = pc]

CheckReferences(d) ==
  /\ deletion[d].pc = "check"
  /\ \/ Succeeds /\ DeletionStep(d, IF ImageReferencedByService(deletion[d].snap) THEN "row"
                                    ELSE "image")
     \/ Fails /\ DeletionStep(d, "row")
  /\ UNCHANGED <<service, tags, rows, creator, user, gc, removal, attempted, exposed, late, crashes>>

DeleteImage(d) ==
  /\ deletion[d].pc = "image"
  /\ RemoveImage(deletion[d].snap) /\ DeletionStep(d, "row")
  /\ UNCHANGED <<service, rows, creator, user, gc, removal, attempted, exposed, late, crashes>>

DeleteRow(d) ==
  /\ deletion[d].pc = "row"
  /\ deletion' = [deletion EXCEPT ![d] = NoDeletion]
  /\ \/ Succeeds /\ \E i \in DOMAIN rows : rows[i] = deletion[d].snap /\ rows' = RemoveAt(rows, i)
     \/ Succeeds /\ deletion[d].snap \notin ToSet(rows) /\ rows' = rows
     \/ Fails /\ rows' = rows
  /\ UNCHANGED <<service, tags, creator, user, gc, removal, attempted, exposed, late, crashes>>

-----------------------------------------------------------------------------
(* services.Delete and the source service. *)

\* The container may be gone while the row still names the image.
LoseContainer ==
  /\ service = "container" /\ service' = "image"
  /\ UNCHANGED <<tags, rows, creator, user, deletion, gc, removal, attempted, exposed, late,
                 faults, crashes>>

\* A failed query reads no refs; the tags are then left to GC.
ReadRefs ==
  /\ removal.pc = "none" /\ service = "image"
  /\ \/ Succeeds /\ removal' = [pc |-> "tx", refs |-> ToSet(rows)]
     \/ Fails /\ removal' = [pc |-> "tx", refs |-> {}]
  /\ UNCHANGED <<service, tags, rows, creator, user, deletion, gc, attempted, exposed, late, crashes>>

\* Snapshots and service go in one transaction.
DeleteRows ==
  /\ removal.pc = "tx"
  /\ \/ /\ Succeeds
        /\ service' = "gone" /\ rows' = <<>>
        /\ attempted' = attempted \cup ToSet(rows) \cup removal.refs
        /\ removal' = [removal EXCEPT !.pc = "check"]
     \/ Fails /\ removal' = NoRemoval /\ UNCHANGED <<service, rows, attempted>>
  /\ UNCHANGED <<tags, creator, user, deletion, gc, exposed, late, crashes>>

\* This check asks for services only: a sandbox keeps its image until then.
UntagRef(s) ==
  /\ removal.pc = "check" /\ s \in removal.refs
  /\ removal' = [removal EXCEPT !.refs = @ \ {s}]
  /\ IF user[s].kind = "service" /\ user[s].pc \in Using
     THEN UNCHANGED <<tags, faults, late>>
     ELSE RemoveImage(s) /\ late' = late \cup {s}
  /\ UNCHANGED <<service, rows, creator, user, deletion, gc, attempted, exposed, crashes>>

-----------------------------------------------------------------------------
(* GC. *)

GcTo(pc) == gc' = [gc EXCEPT !.pc = pc]

\* removeUnusedBuiltImages: a list that fails ends it, and the retention comes next.
ListImages ==
  /\ gc.pc = "idle"
  /\ gc' = [Idle EXCEPT !.pc = "containers", !.listed = tags]
  /\ UNCHANGED <<service, tags, rows, creator, user, deletion, removal, attempted, exposed, late,
                 faults, crashes>>

\* A container holds the image, whatever the tag.
ListContainerImages ==
  /\ gc.pc = "containers"
  /\ \/ Succeeds /\ GcTo(IF service = "container"
                            \/ \E s \in Snaps : user[s].pc \in {"container", "deleting"}
                         THEN "count" ELSE "rows")
     \/ Fails /\ GcTo("count")
  /\ UNCHANGED <<service, tags, rows, creator, user, deletion, removal, attempted, exposed, late,
                 crashes>>

\* Mutant: the snapshots rows are not asked.
TagsOfUsers == {t \in Tags : (t = Built /\ service # "gone")
                             \/ (t \in Snaps /\ user[t].pc \in Using \cup {"deleting"})}

\* The tags that services, snapshots and sandboxes of any status name.
ReferencedTags ==
  {t \in Tags : \/ t = Built /\ service # "gone"
                \/ t \in ToSet(rows)
                \/ t \in Snaps /\ user[t].pc \in Using \cup {"deleting"}}

\* A query that fails removes nothing.
ReadReferences ==
  /\ gc.pc = "rows"
  /\ \/ /\ Succeeds
        /\ gc' = [gc EXCEPT !.pc = "remove", !.inUse = ReferencedTags]
        /\ exposed' = exposed \cup {s \in gc.listed \cap Snaps : creator[s] = "insert"}
     \/ Fails /\ GcTo("count") /\ exposed' = exposed
  /\ UNCHANGED <<service, tags, rows, creator, user, deletion, removal, attempted, late, crashes>>

RemoveUnused ==
  /\ gc.pc = "remove"
  /\ \/ \E t \in gc.listed \ gc.inUse :
          RemoveImage(t) /\ gc' = [gc EXCEPT !.listed = @ \ {t}]
     \/ gc.listed \subseteq gc.inUse /\ Succeeds /\ tags' = tags /\ GcTo("count")
  /\ UNCHANGED <<service, rows, creator, user, deletion, removal, attempted, exposed, late, crashes>>

\* cleanByCount counts first, and then asks for that many of the oldest.
CountRows ==
  /\ gc.pc = "count"
  /\ gc' = IF Len(rows) > MaxPerService
           THEN [gc EXCEPT !.pc = "select", !.excess = Len(rows) - MaxPerService]
           ELSE [gc EXCEPT !.pc = "age"]
  /\ UNCHANGED <<service, tags, rows, creator, user, deletion, removal, attempted, exposed, late,
                 faults, crashes>>

Oldest(n) == SubSeq(rows, 1, IF n < Len(rows) THEN n ELSE Len(rows))

SelectExcess ==
  /\ gc.pc = "select"
  /\ gc' = [gc EXCEPT !.pc = "delete", !.todo = Oldest(gc.excess)]
  /\ UNCHANGED <<service, tags, rows, creator, user, deletion, removal, attempted, exposed, late,
                 faults, crashes>>

\* cleanByAge: some of the oldest are past the age.
SelectOld ==
  /\ gc.pc = "age"
  /\ \E n \in 0..Len(rows) : gc' = IF n = 0 THEN Idle
                                   ELSE [gc EXCEPT !.pc = "delete", !.todo = Oldest(n), !.excess = 0]
  /\ UNCHANGED <<service, tags, rows, creator, user, deletion, removal, attempted, exposed, late,
                 faults, crashes>>

\* deleteSnapshots: one after the other.
DeleteNext ==
  /\ gc.pc = "delete"
  /\ \/ /\ gc.todo # <<>>
        /\ BeginDeletion("gc", Head(gc.todo))
        /\ gc' = [gc EXCEPT !.todo = Tail(@)]
     \/ /\ gc.todo = <<>> /\ deletion["gc"].pc = "none"
        /\ GcTo(IF gc.excess > 0 THEN "age" ELSE "idle")
        /\ UNCHANGED <<deletion, attempted>>
  /\ UNCHANGED <<service, tags, rows, creator, user, removal, exposed, late, faults, crashes>>

\* ah is restarted: whatever was between two steps stays there.
Crash ==
  /\ crashes < MaxCrashes /\ crashes' = crashes + 1
  /\ creator' = [s \in Snaps |-> IF creator[s] = "new" THEN "new" ELSE "end"]
  /\ user' = [s \in Snaps |-> IF user[s].pc = "read" THEN [user[s] EXCEPT !.pc = "none"] ELSE user[s]]
  /\ deletion' = [d \in Deleters |-> NoDeletion] /\ gc' = Idle /\ removal' = NoRemoval
  /\ UNCHANGED <<service, tags, rows, attempted, exposed, late, faults>>

CleanExpired == CountRows \/ SelectExcess \/ SelectOld \/ DeleteNext
RemoveUnusedBuiltImages == ListImages \/ ListContainerImages \/ ReadReferences \/ RemoveUnused

Next ==
  \/ \E s \in Snaps : \/ BeginCreate(s) \/ TagImage(s) \/ InsertSnapshot(s) \/ CleanupTag(s)
                      \/ CreateFromSnapshot(s) \/ ResolveSource(s)
                      \/ InsertUser(s) \/ RunUser(s) \/ EndUser(s)
                      \/ DeleteSnapshot(s) \/ UntagRef(s)
  \/ \E d \in Deleters : CheckReferences(d) \/ DeleteImage(d) \/ DeleteRow(d)
  \/ LoseContainer \/ ReadRefs \/ DeleteRows
  \/ RemoveUnusedBuiltImages \/ CleanExpired \/ Crash

Spec == Init /\ [][Next]_vars

-----------------------------------------------------------------------------
(* Properties. *)

\* The tag of a snapshot, of a service restored from it and of a sandbox forked from it stays,
\* through the deletion of the snapshot, the retention, GC, failures and restarts; except a tag
\* that GC listed before its row was there, a user that came when the deletion had begun,
\* and a sandbox whose source service is deleted.
ImagesKept ==
  /\ \A s \in ToSet(rows) : s \in attempted \cup exposed \cup tags
  /\ \A s \in Snaps \ (late \cup exposed) : user[s].pc \in Using => s \in tags

=============================================================================
