------------------------------ MODULE PulledImages ------------------------------
(***************************************************************************)
(* A public image that tenants run sandboxes from: the creates that record *)
(* it in pulled_images, pull it and may refuse it again, and the pass of   *)
(* GC that removes it once nobody uses it.  The copy on the host may be    *)
(* the operator's, which ah is never to remove.                            *)
(***************************************************************************)
EXTENDS Naturals

CONSTANTS
  Creates,     \* the sandbox creates from the image
  MaxFaults    \* bound: calls and statements that fail

PulledImagesAssumption == MaxFaults \in Nat

VARIABLES
  operators, \* whether the operator has the image on the host; it stays so
  image,     \* the host's copy: absent, the operator's, or pulled by ah
  record,    \* its row in pulled_images: none, fresh, or older than minImageAge
  create,    \* where each create is, and what it remembers
  rows,      \* creates that have a row in environments (image_ref)
  conts,     \* creates that have a container
  gc,        \* removeUnusedPulledImages
  missed,    \* history: a create could not record what it brought, or the record was lost
  faults     \* bound

vars == <<operators, image, record, create, rows, conts, gc, missed, faults>>

NewCreate == [pc |-> "exists", absent |-> FALSE, fresh |-> FALSE]
IdleGc == [pc |-> "idle", inUse |-> FALSE]

TypeOK ==
  /\ operators \in BOOLEAN
  /\ image \in {"absent", "operator", "pulled"} /\ record \in {"none", "fresh", "stale"}
  /\ create \in [Creates -> [pc : {"exists", "update", "record", "insert", "pull", "size", "run",
                                   "remove", "forget", "done"},
                             absent : BOOLEAN, fresh : BOOLEAN]]
  /\ conts \subseteq rows /\ rows \subseteq Creates
  /\ gc \in [pc : {"idle", "containers", "rows", "exists", "remove", "forget"}, inUse : BOOLEAN]
  /\ missed \in BOOLEAN /\ faults \in 0..MaxFaults

Init ==
  /\ operators \in BOOLEAN
  /\ image = IF operators THEN "operator" ELSE "absent"
  /\ record = "none"
  /\ create = [c \in Creates |-> NewCreate]
  /\ rows = {} /\ conts = {}
  /\ gc = IdleGc
  /\ missed = FALSE /\ faults = 0

Fault == faults < MaxFaults /\ faults' = faults + 1

-----------------------------------------------------------------------------
(* trackPulledImage. *)

At(c, pc) == create[c].pc = pc
Goto(c, pc) == create' = [create EXCEPT ![c].pc = pc]
Tracked(c, fresh) == create' = [create EXCEPT ![c].pc = "insert", ![c].fresh = fresh]

\* An image that cannot be inspected counts as present.
ImageExists(c) ==
  /\ At(c, "exists")
  /\ \/ /\ create' = [create EXCEPT ![c].pc = "update", ![c].absent = (image = "absent")]
        /\ faults' = faults
     \/ /\ Fault
        /\ create' = [create EXCEPT ![c].pc = "update"]
  /\ UNCHANGED <<image, record, rows, conts, gc, missed>>

\* A record is refreshed, whoever made it.  Without one, an image that was there is not
\* recorded; it may be gone by now.
UpdateRecord(c) ==
  /\ At(c, "update")
  /\ \/ /\ record # "none" /\ record' = "fresh"
        /\ Tracked(c, create[c].absent) /\ UNCHANGED <<missed, faults>>
     \/ /\ record = "none" /\ ~create[c].absent
        /\ Tracked(c, FALSE) /\ missed' = (missed \/ image = "absent")
        /\ UNCHANGED <<record, faults>>
     \/ /\ record = "none" /\ create[c].absent
        /\ Goto(c, "record") /\ UNCHANGED <<record, missed, faults>>
     \/ /\ Fault
        /\ Tracked(c, FALSE) /\ missed' = TRUE /\ record' = record
  /\ UNCHANGED <<image, rows, conts, gc>>

InsertRecord(c) ==
  /\ At(c, "record")
  /\ \/ record' = "fresh" /\ Tracked(c, TRUE) /\ UNCHANGED <<missed, faults>>
     \/ Fault /\ Tracked(c, FALSE) /\ missed' = TRUE /\ record' = record
  /\ UNCHANGED <<image, rows, conts, gc>>

-----------------------------------------------------------------------------
(* create and prepareSandboxImage. *)

\* The row names the image from now on, even when the create fails; or the quota refuses it.
InsertRow(c) ==
  /\ At(c, "insert")
  /\ \/ rows' = rows \cup {c} /\ Goto(c, "pull")
     \/ rows' = rows /\ Goto(c, "done")
  /\ UNCHANGED <<image, record, conts, gc, missed, faults>>

\* A tenant's image is pulled even when it is there.
PullImage(c) ==
  /\ At(c, "pull")
  /\ \/ image' = (IF image = "absent" THEN "pulled" ELSE image) /\ Goto(c, "size")
     \/ image' = image /\ Goto(c, "done")
  /\ UNCHANGED <<record, rows, conts, gc, missed, faults>>

\* Over the size limit, or over the disk's; an image that is gone has no size.
CheckSize(c) ==
  /\ At(c, "size")
  /\ \/ image # "absent" /\ Goto(c, "run")
     \/ image # "absent" /\ Goto(c, IF create[c].fresh THEN "remove" ELSE "done")
     \/ image = "absent" /\ Goto(c, "done")
  /\ UNCHANGED <<image, record, rows, conts, gc, missed, faults>>

RunEnvironment(c) ==
  /\ At(c, "run")
  /\ Goto(c, "done")
  /\ conts' = IF image = "absent" THEN conts ELSE conts \cup {c}
  /\ UNCHANGED <<image, record, rows, gc, missed, faults>>

\* Docker keeps an image that a container uses; an image that is gone is an error, too.
Removable == image # "absent" /\ conts = {}

\* removeFreshSandboxImage.
RemoveFresh(c) ==
  /\ At(c, "remove")
  /\ \/ Removable /\ image' = "absent" /\ Goto(c, "forget") /\ faults' = faults
     \/ ~Removable /\ image' = image /\ Goto(c, "done") /\ faults' = faults
     \/ Fault /\ image' = image /\ Goto(c, "done")
  /\ UNCHANGED <<record, rows, conts, gc, missed>>

\* The row goes whatever has happened since: another create may have refreshed it, and pulled
\* the image again or be about to.
ForgetFresh(c) ==
  /\ At(c, "forget") /\ Goto(c, "done")
  /\ record' = "none"
  /\ missed' = (missed \/ image = "pulled" \/ \E o \in Creates : create[o].pc \in {"insert", "pull"})
  /\ UNCHANGED <<image, rows, conts, gc, faults>>

\* The sandbox is deleted, with its row.
DeleteSandbox(c) ==
  /\ At(c, "done") /\ c \in rows
  /\ rows' = rows \ {c} /\ conts' = conts \ {c}
  /\ UNCHANGED <<image, record, create, gc, missed, faults>>

CreateSandbox(c) ==
  \/ ImageExists(c) \/ UpdateRecord(c) \/ InsertRecord(c) \/ InsertRow(c) \/ PullImage(c)
  \/ CheckSize(c) \/ RunEnvironment(c) \/ RemoveFresh(c) \/ ForgetFresh(c)

-----------------------------------------------------------------------------
(* removeUnusedPulledImages. *)

GcTo(pc) == gc' = [gc EXCEPT !.pc = pc]

SelectStale ==
  /\ gc.pc = "idle" /\ record = "stale"
  /\ GcTo("containers")
  /\ UNCHANGED <<image, record, create, rows, conts, missed, faults>>

\* Containers first, then rows; an error ends the pass.
ReadUses ==
  /\ \/ gc.pc = "containers" /\ gc' = [pc |-> "rows", inUse |-> conts # {}]
     \/ gc.pc = "rows" /\ ~gc.inUse /\ rows = {} /\ GcTo("exists")
     \/ gc.pc = "rows" /\ (gc.inUse \/ rows # {}) /\ gc' = IdleGc
  /\ UNCHANGED <<image, record, create, rows, conts, missed, faults>>

CheckExists ==
  /\ gc.pc = "exists"
  /\ \/ GcTo(IF image = "absent" THEN "forget" ELSE "remove") /\ faults' = faults
     \/ Fault /\ gc' = IdleGc
  /\ UNCHANGED <<image, record, create, rows, conts, missed>>

RemoveUnused ==
  /\ gc.pc = "remove"
  /\ \/ Removable /\ image' = "absent" /\ GcTo("forget") /\ faults' = faults
     \/ ~Removable /\ image' = image /\ gc' = IdleGc /\ faults' = faults
     \/ Fault /\ image' = image /\ gc' = IdleGc
  /\ UNCHANGED <<record, create, rows, conts, missed>>

\* Only a record that nobody has refreshed since the pass began.
Forget ==
  /\ gc.pc = "forget" /\ gc' = IdleGc
  /\ \/ record' = (IF record = "stale" THEN "none" ELSE record) /\ faults' = faults
     \/ Fault /\ record' = record
  /\ UNCHANGED <<image, create, rows, conts, missed>>

\* Tracking an image, and a pass of GC, are shorter than minImageAge.
Age ==
  /\ record = "fresh" /\ gc.pc = "idle"
  /\ \A c \in Creates : create[c].pc \notin {"update", "record", "insert"}
  /\ record' = "stale"
  /\ UNCHANGED <<image, create, rows, conts, gc, missed, faults>>

Next ==
  /\ operators' = operators
  /\ \/ \E c \in Creates : CreateSandbox(c) \/ DeleteSandbox(c)
     \/ SelectStale \/ ReadUses \/ CheckExists \/ RemoveUnused \/ Forget
     \/ Age

Spec == Init /\ [][Next]_vars

-----------------------------------------------------------------------------
(* Properties. *)

\* Neither GC nor a refused create removes an image that the operator had on the host, and
\* an image that ah has pulled stays recorded, so that GC can end it: however creates, GC's
\* pass and the refusals overlap.  (Except where a create found the image there just before
\* it was removed, where a refused create takes the record of another one with it, and
\* where a call failed; these are in missed.)
PulledImagesTracked ==
  /\ operators => image = "operator"
  /\ image = "pulled" /\ record = "none" => missed

=============================================================================
