---------------------------- MODULE ArtifactsProofs ----------------------------
(***************************************************************************)
(* Proofs about what the server keeps for its tenants: the images of       *)
(* snapshots, the images that it has pulled, and the previews.             *)
(***************************************************************************)
EXTENDS Server, Integers, Sequences, FiniteSets, FiniteSetTheorems, TLAPS

-----------------------------------------------------------------------------
(* The snapshots. *)

\* A sequence without its i-th value.
LEMMA WithoutIs ==
  ASSUME NEW T, NEW s \in Seq(T), NEW i \in DOMAIN s
  PROVE  /\ Snapshot!RemoveAt(s, i) \in Seq(T) /\ DOMAIN Snapshot!RemoveAt(s, i) = 1..(Len(s) - 1)
         /\ \A j \in 1..(Len(s) - 1) : Snapshot!RemoveAt(s, i)[j] = IF j < i THEN s[j] ELSE s[j + 1]
  <1> DEFINE before == SubSeq(s, 1, i - 1)
  <1> DEFINE after == SubSeq(s, i + 1, Len(s))
  <1>1. i \in 1..Len(s) /\ Len(s) \in Nat
    OBVIOUS
  <1>2. /\ before \in Seq(T) /\ Len(before) = i - 1
        /\ \A j \in 1..(i - 1) : before[j] = s[j]
    BY <1>1
  <1>3. /\ after \in Seq(T) /\ Len(after) = Len(s) - i
        /\ \A j \in 1..(Len(s) - i) : after[j] = s[i + j]
    BY <1>1
  <1>4. Snapshot!RemoveAt(s, i) = before \o after
    BY DEF Snapshot!RemoveAt
  <1> HIDE DEF before, after
  <1>5. /\ before \o after \in Seq(T) /\ Len(before \o after) = Len(before) + Len(after)
        /\ \A j \in 1..(Len(before) + Len(after)) :
             (before \o after)[j] = IF j <= Len(before) THEN before[j] ELSE after[j - Len(before)]
    BY <1>2, <1>3
  <1>7. Len(before) + Len(after) = Len(s) - 1
    BY <1>1, <1>2, <1>3
  <1>6. ASSUME NEW j \in 1..(Len(s) - 1)
        PROVE  (before \o after)[j] = IF j < i THEN s[j] ELSE s[j + 1]
    <2>1. CASE j < i
      BY <1>1, <1>2, <1>5, <1>7, <2>1
    <2>2. CASE ~(j < i)
      <3>1. j - (i - 1) \in 1..(Len(s) - i) /\ i + (j - (i - 1)) = j + 1
        BY <1>1, <2>2
      <3>2. (before \o after)[j] = after[j - (i - 1)]
        BY <1>1, <1>2, <1>5, <1>7, <2>2
      <3>3. after[j - (i - 1)] = s[j + 1]
        BY <1>3, <3>1
      <3> QED BY <2>2, <3>2, <3>3
    <2> QED BY <2>1, <2>2
  <1> QED BY <1>1, <1>4, <1>5, <1>6, <1>7

-----------------------------------------------------------------------------
(* The images of the snapshots. *)

RowOf(s) == s \in Snapshot!ToSet(snapRows)
UsedNow(s) == user[s].pc \in Snapshot!Using

\* GC has found the tag of s unreferenced and is going to remove it.
Condemned(s) == snapGc.pc = "remove" /\ s \in snapGc.listed /\ s \notin snapGc.inUse

SnapFine(s) ==
  \* Rows, deletions and what GC and the service's deletion have read come after Create; tags
  \* come after TagImage.
  /\ RowOf(s) \/ s \in attempted \/ s \in Snapshot!ToSet(snapGc.todo) \/ s \in removal.refs => creator[s] = "end"
  /\ s \in tags \/ s \in snapGc.listed => creator[s] \in {"insert", "cleanup", "end"}
  \* Who uses a snapshot has read its row.
  /\ user[s].pc # "none" => RowOf(s) \/ s \in attempted
  \* The tag is there.
  /\ creator[s] = "insert" => s \in tags \/ s \in exposed
  /\ RowOf(s) => s \in tags \/ s \in attempted \/ s \in exposed
  /\ UsedNow(s) => s \in tags \/ s \in late \/ s \in exposed
  \* Who is about to remove it has seen to that.
  /\ removal.pc = "check" /\ s \in removal.refs => s \in attempted
  /\ \A d \in Snapshot!Deleters : deletion[d].pc = "image" /\ deletion[d].snap = s => (UsedNow(s) => s \in late)
  /\ Condemned(s) => s \in exposed \/ (~RowOf(s) /\ creator[s] # "insert" /\ (UsedNow(s) => s \in late))

SnapInv ==
  /\ Snapshot!TypeOK
  /\ \A d \in Snapshot!Deleters : deletion[d].pc # "none" => deletion[d].snap \in attempted
  /\ \A s \in Snaps : SnapFine(s)

\* What is in a sequence that one value is appended to or removed from, and in its parts.
LEMMA SnapSeqIs ==
  ASSUME NEW S, NEW q \in Seq(S)
  PROVE  /\ Snapshot!ToSet(q) \subseteq S /\ Len(q) \in Nat /\ Snapshot!ToSet(<<>>) = {}
         /\ \A x \in S : Append(q, x) \in Seq(S) /\ Snapshot!ToSet(Append(q, x)) = Snapshot!ToSet(q) \cup {x}
         /\ q # <<>> => /\ Head(q) \in Snapshot!ToSet(q) /\ Tail(q) \in Seq(S)
                        /\ Snapshot!ToSet(Tail(q)) \subseteq Snapshot!ToSet(q)
         /\ \A n \in 0..Len(q) : SubSeq(q, 1, n) \in Seq(S) /\ Snapshot!ToSet(SubSeq(q, 1, n)) \subseteq Snapshot!ToSet(q)
  <1>1. Len(q) \in Nat /\ DOMAIN q = 1..Len(q) /\ \A i \in 1..Len(q) : q[i] \in S
    OBVIOUS
  <1>2. ASSUME NEW x \in S
        PROVE  Append(q, x) \in Seq(S) /\ Snapshot!ToSet(Append(q, x)) = Snapshot!ToSet(q) \cup {x}
    <2>1. /\ Append(q, x) \in Seq(S) /\ DOMAIN Append(q, x) = 1..(Len(q) + 1) /\ Append(q, x)[Len(q) + 1] = x
          /\ \A i \in 1..Len(q) : Append(q, x)[i] = q[i]
      BY <1>1
    <2> QED BY <1>1, <2>1 DEF Snapshot!ToSet
  <1>3. ASSUME q # <<>>
        PROVE  /\ Head(q) \in Snapshot!ToSet(q) /\ Tail(q) \in Seq(S)
               /\ Snapshot!ToSet(Tail(q)) \subseteq Snapshot!ToSet(q)
    <2>1. Head(q) = q[1] /\ 1 \in 1..Len(q)
      BY <1>1, <1>3
    <2>2. /\ Tail(q) \in Seq(S) /\ DOMAIN Tail(q) = 1..(Len(q) - 1)
          /\ \A i \in 1..(Len(q) - 1) : Tail(q)[i] = q[i + 1] /\ i + 1 \in 1..Len(q)
      BY <1>1, <1>3
    <2> QED BY <1>1, <2>1, <2>2 DEF Snapshot!ToSet
  <1>4. ASSUME NEW n \in 0..Len(q)
        PROVE  SubSeq(q, 1, n) \in Seq(S) /\ Snapshot!ToSet(SubSeq(q, 1, n)) \subseteq Snapshot!ToSet(q)
    <2>1. /\ SubSeq(q, 1, n) \in Seq(S) /\ DOMAIN SubSeq(q, 1, n) = 1..n
          /\ \A i \in 1..n : SubSeq(q, 1, n)[i] = q[i] /\ i \in 1..Len(q)
      BY <1>1
    <2> QED BY <1>1, <2>1 DEF Snapshot!ToSet
  <1>5. Snapshot!ToSet(q) \subseteq S /\ Snapshot!ToSet(<<>>) = {}
    BY <1>1 DEF Snapshot!ToSet
  <1> QED BY <1>1, <1>2, <1>3, <1>4, <1>5

\* The sequence without its i-th value.
LEMMA SnapSeqWithout ==
  ASSUME NEW S, NEW q \in Seq(S), NEW i \in DOMAIN q
  PROVE  /\ Snapshot!RemoveAt(q, i) \in Seq(S)
         /\ Snapshot!ToSet(Snapshot!RemoveAt(q, i)) \subseteq Snapshot!ToSet(q)
         /\ Snapshot!ToSet(q) \subseteq Snapshot!ToSet(Snapshot!RemoveAt(q, i)) \cup {q[i]}
         /\ Snapshot!IsInjective(q) => Snapshot!IsInjective(Snapshot!RemoveAt(q, i))
  <1>1. DOMAIN q = 1..Len(q) /\ Len(q) \in Nat /\ i \in 1..Len(q)
    OBVIOUS
  <1> DEFINE t == Snapshot!RemoveAt(q, i)
  <1>2. /\ t \in Seq(S) /\ DOMAIN t = 1..(Len(q) - 1)
        /\ \A j \in 1..(Len(q) - 1) : t[j] = IF j < i THEN q[j] ELSE q[j + 1]
    BY <1>1, WithoutIs
  <1> HIDE DEF t
  <1>3. ASSUME NEW j \in DOMAIN t
        PROVE  t[j] = q[IF j < i THEN j ELSE j + 1] /\ (IF j < i THEN j ELSE j + 1) \in 1..Len(q)
    BY <1>1, <1>2
  <1>4. Snapshot!ToSet(t) \subseteq Snapshot!ToSet(q)
    BY <1>1, <1>3 DEF Snapshot!ToSet
  <1>5. ASSUME Snapshot!IsInjective(q), NEW j \in DOMAIN t, NEW k \in DOMAIN t, t[j] = t[k]
        PROVE  j = k
    <2>1. (IF j < i THEN j ELSE j + 1) = (IF k < i THEN k ELSE k + 1)
      BY <1>1, <1>3, <1>5 DEF Snapshot!IsInjective
    <2> QED BY <1>1, <1>2, <2>1
  <1>6. Snapshot!IsInjective(q) => Snapshot!IsInjective(t)
    BY <1>5 DEF Snapshot!IsInjective
  <1>7. ASSUME NEW k \in DOMAIN q, k # i
        PROVE  \E j \in DOMAIN t : t[j] = q[k]
    <2>1. CASE k < i
      BY <1>1, <1>2, <1>7, <2>1
    <2>2. CASE ~(k < i)
      <3>1. k - 1 \in 1..(Len(q) - 1) /\ ~(k - 1 < i) /\ (k - 1) + 1 = k
        BY <1>1, <1>7, <2>2
      <3>2. t[k - 1] = q[k]
        BY <1>2, <3>1
      <3> QED BY <1>2, <3>1, <3>2
    <2> QED BY <2>1, <2>2
  <1>8. Snapshot!ToSet(q) \subseteq Snapshot!ToSet(t) \cup {q[i]}
    BY <1>7 DEF Snapshot!ToSet
  <1> QED BY <1>2, <1>4, <1>6, <1>8 DEF t

\* A value that is not in the sequence can be appended.
LEMMA SnapSeqInjective ==
  ASSUME NEW S, NEW q \in Seq(S), NEW x \in S, Snapshot!IsInjective(q), x \notin Snapshot!ToSet(q)
  PROVE  Snapshot!IsInjective(Append(q, x))
  <1>1. /\ DOMAIN q = 1..Len(q) /\ Len(q) \in Nat /\ DOMAIN Append(q, x) = 1..(Len(q) + 1)
        /\ Append(q, x)[Len(q) + 1] = x /\ \A i \in 1..Len(q) : Append(q, x)[i] = q[i]
    OBVIOUS
  <1> QED BY <1>1 DEF Snapshot!IsInjective, Snapshot!ToSet

\* The types.
LEMMA SnapTypes ==
  ASSUME Snapshot!TypeOK
  PROVE  /\ creator \in [Snaps -> {"new", "tag", "insert", "cleanup", "end"}]
         /\ user \in [Snaps -> [kind : {"service", "sandbox"},
                                pc : {"none", "read", "row", "container", "deleting", "gone"}]]
         /\ deletion \in [Snapshot!Deleters -> [pc : {"none", "check", "image", "row"}, snap : Snapshot!Tags]]
         /\ snapGc \in [pc : {"idle", "containers", "rows", "remove", "count", "select", "age", "delete"},
                        listed : SUBSET Snapshot!Tags, inUse : SUBSET Snapshot!Tags, excess : Nat, todo : Seq(Snaps)]
         /\ removal \in [pc : {"none", "tx", "check"}, refs : SUBSET Snaps]
         /\ snapRows \in Seq(Snaps) /\ tags \subseteq Snapshot!Tags /\ Snapshot!Tags = Snaps \cup {Snapshot!Built}
         /\ Snapshot!IsInjective(snapRows) /\ service \in {"image", "container", "gone"}
         /\ attempted \subseteq Snaps /\ exposed \subseteq Snaps /\ late \subseteq Snaps
  BY DEF Snapshot!TypeOK, Snapshot!Tags

\* Create.
LEMMA SnapCreateKeeps ==
  ASSUME Snapshot!SnapshotsAssumption, SnapInv, NEW s \in Snaps,
         Snapshot!BeginCreate(s) \/ Snapshot!TagImage(s) \/ Snapshot!InsertSnapshot(s) \/ Snapshot!CleanupTag(s)
  PROVE  SnapInv'
  <1>0. Snapshot!TypeOK
    BY DEF SnapInv
  <1>1. PICK pc \in {"tag", "insert", "cleanup", "end"} : creator' = [creator EXCEPT ![s] = pc]
    BY DEF Snapshot!BeginCreate, Snapshot!TagImage, Snapshot!InsertSnapshot, Snapshot!CleanupTag, Snapshot!To
  <1>2. /\ creator' \in [Snaps -> {"new", "tag", "insert", "cleanup", "end"}] /\ creator'[s] = pc
        /\ \A o \in Snaps \ {s} : creator'[o] = creator[o]
    BY <1>0, <1>1, SnapTypes
  <1>3. /\ UNCHANGED <<service, user, deletion, snapGc, removal, attempted, exposed, late>>
        /\ creator[s] \in {"new", "tag", "insert", "cleanup"}
    BY DEF Snapshot!BeginCreate, Snapshot!TagImage, Snapshot!InsertSnapshot, Snapshot!CleanupTag
  <1>4. SnapFine(s) /\ s # Snapshot!Built
    BY DEF SnapInv, Snapshot!SnapshotsAssumption
  <1>5. /\ ~RowOf(s) /\ s \notin attempted /\ s \notin Snapshot!ToSet(snapGc.todo) /\ s \notin removal.refs
        /\ user[s].pc = "none"
    BY <1>3, <1>4 DEF SnapFine
  <1>6. /\ tags' \subseteq Snapshot!Tags /\ snapRows' \in Seq(Snaps) /\ Snapshot!IsInjective(snapRows')
        /\ \A o \in Snaps \ {s} : (o \in tags' <=> o \in tags) /\ (RowOf(o)' <=> RowOf(o))
        /\ \/ pc = "tag" /\ ~RowOf(s)' /\ (s \in tags' => s \in tags) /\ creator[s] = "new"
           \/ pc = "insert" /\ s \in tags' /\ ~RowOf(s)' /\ creator[s] = "tag"
           \/ pc = "cleanup" /\ ~RowOf(s)' /\ (s \in tags' <=> s \in tags) /\ creator[s] = "insert"
           \/ pc = "end" /\ ~RowOf(s)' /\ (s \in tags' => s \in tags)
           \/ pc = "end" /\ creator[s] = "insert" /\ (s \in tags' <=> s \in tags)
    <2>1. CASE Snapshot!InsertSnapshot(s) /\ snapRows' = Append(snapRows, s)
      <3>1. snapRows \in Seq(Snaps) /\ Snapshot!IsInjective(snapRows)
        BY <1>0, SnapTypes
      <3>2. Snapshot!IsInjective(snapRows')
        BY <1>5, <2>1, <3>1, SnapSeqInjective DEF RowOf
      <3>3. snapRows' \in Seq(Snaps) /\ Snapshot!ToSet(snapRows') = Snapshot!ToSet(snapRows) \cup {s}
        BY <2>1, <3>1, SnapSeqIs
      <3>4. pc = "end" \/ pc = "cleanup"
        BY <1>0, <1>2, <2>1, SnapTypes DEF Snapshot!InsertSnapshot, Snapshot!To
      <3>5. pc = "end"
        <4>1. snapRows' # snapRows
          BY <1>5, <3>3 DEF RowOf
        <4> QED BY <1>0, <1>2, <2>1, <4>1, SnapTypes DEF Snapshot!InsertSnapshot, Snapshot!To
      <3> QED BY <1>0, <2>1, <3>2, <3>3, <3>5, SnapTypes DEF Snapshot!InsertSnapshot, RowOf
    <2>2. CASE snapRows' = snapRows
      <3>1. pc = creator'[s] /\ \A p : Snapshot!To(s, p) => creator'[s] = p
        BY <1>0, <1>2, SnapTypes DEF Snapshot!To
      <3> QED BY <1>0, <1>4, <1>5, <2>2, <3>1, SnapTypes DEF RowOf, Snapshot!BeginCreate, Snapshot!TagImage,
              Snapshot!InsertSnapshot, Snapshot!CleanupTag, Snapshot!RemoveImage
    <2> QED BY <2>1, <2>2 DEF Snapshot!BeginCreate, Snapshot!TagImage, Snapshot!InsertSnapshot, Snapshot!CleanupTag
  <1>7. Snapshot!TypeOK'
    BY <1>0, <1>2, <1>3, <1>6 DEF Snapshot!TypeOK, Snapshot!Tags
  <1>8. SnapFine(s)'
    BY <1>2, <1>3, <1>4, <1>5, <1>6 DEF SnapFine, UsedNow, Condemned, Snapshot!Using
  <1>9. ASSUME NEW o \in Snaps \ {s}
        PROVE  SnapFine(o)'
    <2>1. SnapFine(o) /\ creator'[o] = creator[o] /\ (o \in tags' <=> o \in tags) /\ (RowOf(o)' <=> RowOf(o))
      BY <1>2, <1>6 DEF SnapInv
    <2> QED BY <1>3, <2>1 DEF SnapFine, UsedNow, Condemned
  <1>10. \A d \in Snapshot!Deleters : deletion'[d].pc # "none" => deletion'[d].snap \in attempted'
    BY <1>3 DEF SnapInv
  <1> QED BY <1>7, <1>8, <1>9, <1>10 DEF SnapInv

\* The users of a snapshot.
LEMMA SnapUserKeeps ==
  ASSUME Snapshot!SnapshotsAssumption, SnapInv, NEW s \in Snaps,
         Snapshot!CreateFromSnapshot(s) \/ Snapshot!ResolveSource(s) \/ Snapshot!InsertUser(s)
           \/ Snapshot!RunUser(s) \/ Snapshot!EndUser(s)
  PROVE  SnapInv'
  <1>0. Snapshot!TypeOK
    BY DEF SnapInv
  <1>1. PICK pc \in {"read", "row", "container", "deleting", "gone"} : user' = [user EXCEPT ![s].pc = pc]
    BY DEF Snapshot!CreateFromSnapshot, Snapshot!ResolveSource, Snapshot!ReadSnapshot, Snapshot!InsertUser,
       Snapshot!RunUser, Snapshot!EndUser, Snapshot!Step
  <1>2. /\ user' \in [Snaps -> [kind : {"service", "sandbox"},
                                pc : {"none", "read", "row", "container", "deleting", "gone"}]]
        /\ user'[s].pc = pc /\ \A o \in Snaps \ {s} : user'[o] = user[o]
    <2> DEFINE Users == [kind : {"service", "sandbox"},
                         pc : {"none", "read", "row", "container", "deleting", "gone"}]
    <2> DEFINE u == [user[s] EXCEPT !.pc = pc]
    <2>1. user \in [Snaps -> Users] /\ user[s] \in Users
      BY <1>0, SnapTypes
    <2>2. u \in Users /\ u.pc = pc
      BY <2>1
    <2>3. user' = [user EXCEPT ![s] = u]
      BY <1>1
    <2> HIDE DEF Users, u
    <2>4. user' \in [Snaps -> Users] /\ user'[s] = u /\ \A o \in Snaps \ {s} : user'[o] = user[o]
      BY <2>1, <2>2, <2>3
    <2> QED BY <2>2, <2>4 DEF Users
  <1>3. /\ UNCHANGED <<service, tags, snapRows, creator, deletion, snapGc, removal, attempted, exposed>>
        /\ late \subseteq late' /\ late' \subseteq late \cup {s}
    BY DEF Snapshot!CreateFromSnapshot, Snapshot!ResolveSource, Snapshot!ReadSnapshot, Snapshot!InsertUser,
       Snapshot!RunUser, Snapshot!EndUser
  <1>4. SnapFine(s)
    BY DEF SnapInv
  <1>5. \/ pc = "read" /\ RowOf(s)
        \/ user[s].pc # "none" /\ pc # "none" /\ (pc \in Snapshot!Using => UsedNow(s))
        \/ user[s].pc # "none" /\ pc = "row" /\ (s \in attempted => s \in late')
    <2>1. \A p : Snapshot!Step(s, p) => pc = p
      BY <1>0, <1>2, SnapTypes DEF Snapshot!Step
    <2>2. CASE Snapshot!CreateFromSnapshot(s) \/ Snapshot!ResolveSource(s)
      BY <2>1, <2>2 DEF Snapshot!CreateFromSnapshot, Snapshot!ResolveSource, Snapshot!ReadSnapshot, Snapshot!Get, RowOf
    <2>3. CASE Snapshot!InsertUser(s)
      BY <2>1, <2>3 DEF Snapshot!InsertUser
    <2>4. CASE Snapshot!RunUser(s)
      BY <2>1, <2>4 DEF Snapshot!RunUser, UsedNow, Snapshot!Using
    <2>5. CASE Snapshot!EndUser(s)
      BY <2>1, <2>5 DEF Snapshot!EndUser, Snapshot!Using
    <2> QED BY <2>2, <2>3, <2>4, <2>5
  <1>7. Snapshot!TypeOK'
    BY <1>0, <1>2, <1>3 DEF Snapshot!TypeOK
  <1>8. SnapFine(s)'
    <2>1. UsedNow(s)' => s \in tags \/ s \in late' \/ s \in exposed
      BY <1>2, <1>3, <1>4, <1>5 DEF SnapFine, UsedNow, Snapshot!Using
    <2>2. RowOf(s)' <=> RowOf(s)
      BY <1>3 DEF RowOf
    <2>3. (UsedNow(s)' => UsedNow(s)) \/ (pc = "row" /\ user[s].pc # "none" /\ (s \in attempted => s \in late'))
      BY <1>2, <1>5 DEF UsedNow, Snapshot!Using
    <2>4. ASSUME NEW d \in Snapshot!Deleters, deletion[d].pc = "image", deletion[d].snap = s, UsedNow(s)'
          PROVE  s \in late'
      BY <1>3, <1>4, <2>3, <2>4 DEF SnapFine, SnapInv
    <2>5. ASSUME Condemned(s), s \notin exposed
          PROVE  ~RowOf(s) /\ creator[s] # "insert" /\ (UsedNow(s)' => s \in late')
      BY <1>3, <1>4, <2>3, <2>5 DEF SnapFine
    <2>6. user'[s].pc # "none" => RowOf(s) \/ s \in attempted
      BY <1>4, <1>5 DEF SnapFine
    <2> QED BY <1>3, <1>4, <2>1, <2>2, <2>4, <2>5, <2>6 DEF SnapFine, Condemned
  <1>9. ASSUME NEW o \in Snaps \ {s}
        PROVE  SnapFine(o)'
    <2>1. SnapFine(o) /\ user'[o] = user[o] /\ (o \in late' <=> o \in late) /\ (RowOf(o)' <=> RowOf(o))
      BY <1>2, <1>3 DEF SnapInv, RowOf
    <2> QED BY <1>3, <2>1 DEF SnapFine, UsedNow, Condemned
  <1>10. \A d \in Snapshot!Deleters : deletion'[d].pc # "none" => deletion'[d].snap \in attempted'
    BY <1>3 DEF SnapInv
  <1> QED BY <1>7, <1>8, <1>9, <1>10 DEF SnapInv

\* What a step has to show that begins no deletion, names no user and lets rows, tags and plans go.
LEMMA SnapLess ==
  ASSUME SnapInv, Snapshot!TypeOK', UNCHANGED <<user, creator>>, exposed \subseteq exposed', late \subseteq late',
         attempted \subseteq attempted',
         Snapshot!ToSet(snapRows') \subseteq Snapshot!ToSet(snapRows),
         Snapshot!ToSet(snapRows) \subseteq Snapshot!ToSet(snapRows') \cup attempted',
         \A d \in Snapshot!Deleters : deletion'[d].pc # "none" => deletion'[d].snap \in attempted',
         \A s \in Snaps : s \in attempted' \/ s \in Snapshot!ToSet(snapGc'.todo) \/ s \in removal'.refs =>
           RowOf(s) \/ s \in attempted \/ s \in Snapshot!ToSet(snapGc.todo) \/ s \in removal.refs,
         \A s \in Snaps : s \in tags' \/ s \in snapGc'.listed => s \in tags \/ s \in snapGc.listed,
         \A s \in Snaps : s \in tags => s \in tags' \/ s \in exposed' \/
           (creator[s] # "insert" /\ (RowOf(s) => s \in attempted') /\ (UsedNow(s) => s \in late')),
         \A s \in Snaps : removal'.pc = "check" /\ s \in removal'.refs => s \in attempted',
         \A s \in Snaps, d \in Snapshot!Deleters : deletion'[d].pc = "image" /\ deletion'[d].snap = s =>
           (UsedNow(s) => s \in late'),
         \A s \in Snaps : Condemned(s)' => Condemned(s) \/ s \in exposed' \/
           (~RowOf(s) /\ creator[s] # "insert" /\ ~UsedNow(s))
  PROVE  SnapInv'
  <1>1. ASSUME NEW s \in Snaps
        PROVE  SnapFine(s)'
    <2>1. SnapFine(s) /\ (UsedNow(s)' <=> UsedNow(s)) /\ (RowOf(s)' => RowOf(s)) /\ (RowOf(s) => RowOf(s)' \/ s \in attempted')
      BY DEF SnapInv, UsedNow, RowOf
    <2>2. RowOf(s)' \/ s \in attempted' \/ s \in Snapshot!ToSet(snapGc'.todo) \/ s \in removal'.refs => creator'[s] = "end"
      BY <2>1 DEF SnapFine
    <2>3. s \in tags' \/ s \in snapGc'.listed => creator'[s] \in {"insert", "cleanup", "end"}
      BY <2>1 DEF SnapFine
    <2>4. user'[s].pc # "none" => RowOf(s)' \/ s \in attempted'
      BY <2>1 DEF SnapFine
    <2>5. /\ creator'[s] = "insert" => s \in tags' \/ s \in exposed'
          /\ RowOf(s)' => s \in tags' \/ s \in attempted' \/ s \in exposed'
          /\ UsedNow(s)' => s \in tags' \/ s \in late' \/ s \in exposed'
      BY <2>1 DEF SnapFine
    <2>6. Condemned(s)' => s \in exposed' \/ (~RowOf(s)' /\ creator'[s] # "insert" /\ (UsedNow(s)' => s \in late'))
      BY <2>1 DEF SnapFine
    <2>7. \A d \in Snapshot!Deleters : deletion'[d].pc = "image" /\ deletion'[d].snap = s => (UsedNow(s)' => s \in late')
      BY <2>1
    <2> QED BY <2>2, <2>3, <2>4, <2>5, <2>6, <2>7 DEF SnapFine
  <1> QED BY <1>1 DEF SnapInv

\* The deletions of snapshots.
LEMMA SnapDeletionKeeps ==
  ASSUME Snapshot!SnapshotsAssumption, SnapInv,
         \/ \E s \in Snaps : Snapshot!DeleteSnapshot(s)
         \/ \E d \in Snapshot!Deleters : Snapshot!CheckReferences(d) \/ Snapshot!DeleteImage(d) \/ Snapshot!DeleteRow(d)
  PROVE  SnapInv'
  <1>0. Snapshot!TypeOK /\ \A d \in Snapshot!Deleters : deletion[d].pc # "none" => deletion[d].snap \in attempted
    BY DEF SnapInv
  <1>1. \A s \in Snaps, d \in Snapshot!Deleters : deletion[d].pc = "image" /\ deletion[d].snap = s =>
          (UsedNow(s) => s \in late)
    BY DEF SnapInv, SnapFine
  <1>2. \A s \in Snaps : RowOf(s) \/ s \in attempted => creator[s] = "end"
    BY DEF SnapInv, SnapFine
  <1>3. \A s \in Snaps : removal.pc = "check" /\ s \in removal.refs => s \in attempted
    BY DEF SnapInv, SnapFine
  <1>4. ASSUME NEW s \in Snaps, Snapshot!DeleteSnapshot(s)
        PROVE  SnapInv'
    <2>1. /\ deletion' = [deletion EXCEPT !["api"] = [pc |-> "check", snap |-> s]] /\ attempted' = attempted \cup {s}
          /\ RowOf(s)
          /\ UNCHANGED <<service, tags, snapRows, creator, user, snapGc, removal, exposed, late>>
      BY <1>4 DEF Snapshot!DeleteSnapshot, Snapshot!BeginDeletion, RowOf
    <2>2. [pc |-> "check", snap |-> s] \in [pc : {"none", "check", "image", "row"}, snap : Snapshot!Tags]
      BY <1>0, SnapTypes
    <2>3. /\ deletion' \in [Snapshot!Deleters -> [pc : {"none", "check", "image", "row"}, snap : Snapshot!Tags]]
          /\ deletion'["api"] = [pc |-> "check", snap |-> s]
          /\ \A d \in Snapshot!Deleters : d # "api" => deletion'[d] = deletion[d]
      BY <1>0, <2>1, <2>2, SnapTypes DEF Snapshot!Deleters
    <2>4. Snapshot!TypeOK'
      BY <1>0, <2>1, <2>3 DEF Snapshot!TypeOK
    <2>5. ASSUME NEW d \in Snapshot!Deleters
          PROVE  /\ deletion'[d].pc # "none" => deletion'[d].snap \in attempted'
                 /\ deletion'[d].pc = "image" => deletion'[d] = deletion[d]
      <3>1. CASE d = "api"
        BY <2>1, <2>3, <3>1
      <3>2. CASE d # "api"
        BY <1>0, <2>1, <2>3, <3>2
      <3> QED BY <3>1, <3>2
    <2>6. \A o \in Snaps : Condemned(o)' <=> Condemned(o)
      BY <2>1 DEF Condemned
    <2> QED BY <1>0, <1>1, <1>2, <1>3, <2>1, <2>4, <2>5, <2>6, SnapLess DEF RowOf
  <1>5. ASSUME NEW d \in Snapshot!Deleters, Snapshot!CheckReferences(d) \/ Snapshot!DeleteImage(d)
        PROVE  SnapInv'
    <2> DEFINE s == deletion[d].snap
    <2>1. deletion[d] \in [pc : {"none", "check", "image", "row"}, snap : Snapshot!Tags] /\ s \in attempted
          /\ attempted \subseteq Snaps
      BY <1>0, <1>5, SnapTypes DEF Snapshot!CheckReferences, Snapshot!DeleteImage
    <2>2. PICK pc \in {"image", "row"} : /\ deletion' = [deletion EXCEPT ![d].pc = pc]
                                         /\ pc = "image" => ~UsedNow(s)
      BY <1>5 DEF Snapshot!CheckReferences, Snapshot!DeleteImage, Snapshot!DeletionStep,
         Snapshot!ImageReferencedByService, UsedNow
    <2>3. /\ deletion' \in [Snapshot!Deleters -> [pc : {"none", "check", "image", "row"}, snap : Snapshot!Tags]]
          /\ deletion'[d].pc = pc /\ deletion'[d].snap = s
          /\ \A o \in Snapshot!Deleters : o # d => deletion'[o] = deletion[o]
      BY <1>0, <2>1, <2>2, SnapTypes
    <2>4. /\ UNCHANGED <<service, snapRows, creator, user, snapGc, removal, attempted, exposed, late>>
          /\ tags' = tags \/ (tags' = tags \ {s} /\ deletion[d].pc = "image")
      BY <1>5 DEF Snapshot!CheckReferences, Snapshot!DeleteImage, Snapshot!RemoveImage
    <2> HIDE DEF s
    <2>5. Snapshot!TypeOK'
      BY <1>0, <2>3, <2>4 DEF Snapshot!TypeOK
    <2>6. ASSUME NEW o \in Snapshot!Deleters
          PROVE  /\ deletion'[o].pc # "none" => deletion'[o].snap \in attempted'
                 /\ \A x \in Snaps : deletion'[o].pc = "image" /\ deletion'[o].snap = x => (UsedNow(x) => x \in late)
      <3>1. CASE o = d
        BY <2>1, <2>2, <2>3, <2>4, <3>1
      <3>2. CASE o # d
        BY <1>0, <1>1, <2>3, <2>4, <3>2
      <3> QED BY <3>1, <3>2
    <2>7. \A o \in Snaps : Condemned(o)' <=> Condemned(o)
      BY <2>4 DEF Condemned
    <2>8. \A x \in Snaps : x \in tags => x \in tags' \/ (creator[x] # "insert" /\ x \in attempted' /\ (UsedNow(x) => x \in late'))
      BY <1>1, <1>2, <2>1, <2>4 DEF s
    <2> QED BY <1>0, <1>3, <2>4, <2>5, <2>6, <2>7, <2>8, SnapLess DEF RowOf
  <1>6. ASSUME NEW d \in Snapshot!Deleters, Snapshot!DeleteRow(d)
        PROVE  SnapInv'
    <2>1. /\ deletion[d].snap \in attempted /\ snapRows \in Seq(Snaps) /\ attempted \subseteq Snaps
          /\ deletion' = [deletion EXCEPT ![d] = Snapshot!NoDeletion]
          /\ UNCHANGED <<service, tags, creator, user, snapGc, removal, attempted, exposed, late>>
      BY <1>0, <1>6, SnapTypes DEF Snapshot!DeleteRow
    <2>2. Snapshot!NoDeletion \in [pc : {"none", "check", "image", "row"}, snap : Snapshot!Tags] /\ Snapshot!NoDeletion.pc = "none"
      BY DEF Snapshot!NoDeletion, Snapshot!Tags
    <2>3. /\ deletion' \in [Snapshot!Deleters -> [pc : {"none", "check", "image", "row"}, snap : Snapshot!Tags]]
          /\ deletion'[d] = Snapshot!NoDeletion
          /\ \A o \in Snapshot!Deleters : o # d => deletion'[o] = deletion[o]
      BY <1>0, <2>1, <2>2, SnapTypes
    <2>4. /\ snapRows' \in Seq(Snaps) /\ Snapshot!IsInjective(snapRows')
          /\ Snapshot!ToSet(snapRows') \subseteq Snapshot!ToSet(snapRows)
          /\ Snapshot!ToSet(snapRows) \subseteq Snapshot!ToSet(snapRows') \cup attempted
      <3>1. CASE snapRows' = snapRows
        BY <1>0, <2>1, <3>1, SnapTypes
      <3>2. CASE \E i \in DOMAIN snapRows : snapRows[i] = deletion[d].snap /\ snapRows' = Snapshot!RemoveAt(snapRows, i)
        <4>1. PICK i \in DOMAIN snapRows : snapRows[i] = deletion[d].snap /\ snapRows' = Snapshot!RemoveAt(snapRows, i)
          BY <3>2
        <4> QED BY <1>0, <2>1, <4>1, SnapTypes, SnapSeqWithout
      <3> QED BY <1>6, <3>1, <3>2 DEF Snapshot!DeleteRow
    <2>5. Snapshot!TypeOK'
      BY <1>0, <2>1, <2>3, <2>4 DEF Snapshot!TypeOK
    <2>6. ASSUME NEW o \in Snapshot!Deleters
          PROVE  /\ deletion'[o].pc # "none" => deletion'[o].snap \in attempted'
                 /\ \A x \in Snaps : deletion'[o].pc = "image" /\ deletion'[o].snap = x => (UsedNow(x) => x \in late)
      <3>1. CASE o = d
        BY <2>2, <2>3, <3>1
      <3>2. CASE o # d
        BY <1>0, <1>1, <2>1, <2>3, <3>2
      <3> QED BY <3>1, <3>2
    <2>7. \A o \in Snaps : Condemned(o)' <=> Condemned(o)
      BY <2>1 DEF Condemned
    <2> QED BY <1>3, <2>1, <2>4, <2>5, <2>6, <2>7, SnapLess
  <1> QED BY <1>4, <1>5, <1>6

\* The deletion of the service, and its container.
LEMMA SnapRemovalKeeps ==
  ASSUME Snapshot!SnapshotsAssumption, SnapInv,
         \/ Snapshot!LoseContainer \/ Snapshot!ReadRefs \/ Snapshot!DeleteRows
         \/ \E s \in Snaps : Snapshot!UntagRef(s)
  PROVE  SnapInv'
  <1>0. Snapshot!TypeOK /\ \A d \in Snapshot!Deleters : deletion[d].pc # "none" => deletion[d].snap \in attempted
    BY DEF SnapInv
  <1>1. \A s \in Snaps, d \in Snapshot!Deleters : deletion[d].pc = "image" /\ deletion[d].snap = s =>
          (UsedNow(s) => s \in late)
    BY DEF SnapInv, SnapFine
  <1>2. \A s \in Snaps : RowOf(s) \/ s \in attempted \/ s \in removal.refs => creator[s] = "end"
    BY DEF SnapInv, SnapFine
  <1>3. \A s \in Snaps : removal.pc = "check" /\ s \in removal.refs => s \in attempted
    BY DEF SnapInv, SnapFine
  <1>4. /\ UNCHANGED <<creator, user, deletion, snapGc, exposed>>
        /\ \A s \in Snaps : Condemned(s)' <=> Condemned(s)
    BY DEF Snapshot!LoseContainer, Snapshot!ReadRefs, Snapshot!DeleteRows, Snapshot!UntagRef, Condemned
  <1>5. /\ snapRows \in Seq(Snaps) /\ Snapshot!ToSet(snapRows) \subseteq Snaps /\ removal.refs \subseteq Snaps
        /\ attempted \subseteq Snaps /\ late \subseteq Snaps
    BY <1>0, SnapTypes, SnapSeqIs
  <1>6. CASE Snapshot!LoseContainer
    <2>1. Snapshot!TypeOK'
      BY <1>0, <1>6 DEF Snapshot!TypeOK, Snapshot!LoseContainer
    <2> QED BY <1>0, <1>1, <1>3, <1>4, <1>6, <2>1, SnapLess DEF Snapshot!LoseContainer, RowOf
  <1>7. CASE Snapshot!ReadRefs
    <2>1. /\ removal' \in [pc : {"none", "tx", "check"}, refs : SUBSET Snaps] /\ removal'.pc = "tx"
          /\ removal'.refs \subseteq Snapshot!ToSet(snapRows)
          /\ UNCHANGED <<service, tags, snapRows, attempted, late>>
      BY <1>5, <1>7 DEF Snapshot!ReadRefs
    <2>2. Snapshot!TypeOK'
      BY <1>0, <1>4, <2>1 DEF Snapshot!TypeOK
    <2> QED BY <1>0, <1>1, <1>4, <2>1, <2>2, SnapLess DEF RowOf
  <1>8. CASE Snapshot!DeleteRows
    <2>1. UNCHANGED <<tags, late>> /\ removal.pc = "tx"
      BY <1>8 DEF Snapshot!DeleteRows
    <2>2. CASE /\ service' = "gone" /\ snapRows' = <<>>
               /\ attempted' = attempted \cup Snapshot!ToSet(snapRows) \cup removal.refs
               /\ removal' = [removal EXCEPT !.pc = "check"]
      <3>1. removal' \in [pc : {"none", "tx", "check"}, refs : SUBSET Snaps] /\ removal'.refs = removal.refs
        BY <1>0, <2>2, SnapTypes
      <3>2. snapRows' \in Seq(Snaps) /\ Snapshot!ToSet(snapRows') = {} /\ Snapshot!IsInjective(snapRows')
        BY <1>5, <2>2, SnapSeqIs DEF Snapshot!IsInjective
      <3>3. Snapshot!TypeOK'
        BY <1>0, <1>4, <1>5, <2>1, <2>2, <3>1, <3>2 DEF Snapshot!TypeOK
      <3> QED BY <1>0, <1>1, <1>4, <2>1, <2>2, <3>1, <3>2, <3>3, SnapLess DEF RowOf
    <2>3. CASE removal' = Snapshot!NoRemoval /\ UNCHANGED <<service, snapRows, attempted>>
      <3>1. removal' \in [pc : {"none", "tx", "check"}, refs : SUBSET Snaps] /\ removal'.refs = {} /\ removal'.pc = "none"
        BY <2>3 DEF Snapshot!NoRemoval
      <3>2. Snapshot!TypeOK'
        BY <1>0, <1>4, <2>1, <2>3, <3>1 DEF Snapshot!TypeOK
      <3> QED BY <1>0, <1>1, <1>4, <2>1, <2>3, <3>1, <3>2, SnapLess DEF RowOf
    <2> QED BY <1>8, <2>2, <2>3 DEF Snapshot!DeleteRows
  <1>9. ASSUME NEW s \in Snaps, Snapshot!UntagRef(s)
        PROVE  SnapInv'
    <2>1. /\ removal.pc = "check" /\ s \in removal.refs /\ removal' = [removal EXCEPT !.refs = @ \ {s}]
          /\ UNCHANGED <<service, snapRows, attempted>>
          /\ (tags' = tags /\ late' = late) \/ (tags' \in {tags, tags \ {s}} /\ late' = late \cup {s})
      BY <1>9 DEF Snapshot!UntagRef, Snapshot!RemoveImage
    <2>2. /\ removal' \in [pc : {"none", "tx", "check"}, refs : SUBSET Snaps] /\ removal'.pc = "check"
          /\ removal'.refs = removal.refs \ {s}
      BY <1>0, <2>1, SnapTypes
    <2>3. Snapshot!TypeOK'
      BY <1>0, <1>4, <1>5, <2>1, <2>2 DEF Snapshot!TypeOK
    <2>4. creator[s] = "end" /\ s \in attempted
      BY <1>2, <1>3, <2>1
    <2>5. /\ tags' \subseteq tags /\ late \subseteq late'
          /\ \A x \in tags : x \in tags' \/ (x = s /\ s \in late')
      BY <2>1
    <2> QED BY <1>0, <1>1, <1>3, <1>4, <2>1, <2>2, <2>3, <2>4, <2>5, SnapLess DEF RowOf
  <1> QED BY <1>6, <1>7, <1>8, <1>9

\* GC.
LEMMA SnapGcKeeps ==
  ASSUME Snapshot!SnapshotsAssumption, SnapInv, Snapshot!RemoveUnusedBuiltImages \/ Snapshot!CleanExpired
  PROVE  SnapInv'
  <1> DEFINE G == [pc : {"idle", "containers", "rows", "remove", "count", "select", "age", "delete"},
                   listed : SUBSET Snapshot!Tags, inUse : SUBSET Snapshot!Tags, excess : Nat, todo : Seq(Snaps)]
  <1>0. Snapshot!TypeOK /\ \A d \in Snapshot!Deleters : deletion[d].pc # "none" => deletion[d].snap \in attempted
    BY DEF SnapInv
  <1>1. \A s \in Snaps, d \in Snapshot!Deleters : deletion[d].pc = "image" /\ deletion[d].snap = s =>
          (UsedNow(s) => s \in late)
    BY DEF SnapInv, SnapFine
  <1>2. \A s \in Snaps : RowOf(s) \/ s \in attempted => creator[s] = "end"
    BY DEF SnapInv, SnapFine
  <1>3. \A s \in Snaps : removal.pc = "check" /\ s \in removal.refs => s \in attempted
    BY DEF SnapInv, SnapFine
  <1>4. /\ snapRows \in Seq(Snaps) /\ Len(snapRows) \in Nat /\ snapGc \in G /\ tags \subseteq Snapshot!Tags
        /\ Snapshot!ToSet(snapGc.todo) \subseteq Snaps /\ snapGc.todo \in Seq(Snaps) /\ exposed \subseteq Snaps
        /\ attempted \subseteq Snaps
    BY <1>0, SnapTypes, SnapSeqIs
  <1>5. \A s \in Snaps : Condemned(s) =>
          s \in exposed \/ (~RowOf(s) /\ creator[s] # "insert" /\ (UsedNow(s) => s \in late))
    BY DEF SnapInv, SnapFine
  <1>6. ASSUME NEW pc \in {"idle", "containers", "rows", "remove", "count", "select", "age", "delete"},
               Snapshot!GcTo(pc)
        PROVE  /\ snapGc' \in G /\ snapGc'.pc = pc /\ snapGc'.listed = snapGc.listed
               /\ snapGc'.inUse = snapGc.inUse /\ snapGc'.todo = snapGc.todo
    BY <1>4, <1>6 DEF Snapshot!GcTo
  \* A step that only reads.
  <1>7. ASSUME UNCHANGED <<service, tags, snapRows, creator, user, deletion, removal, attempted, exposed, late>>,
               snapGc' \in G, snapGc'.pc # "remove" \/ snapGc' = snapGc,
               Snapshot!ToSet(snapGc'.todo) \subseteq Snapshot!ToSet(snapGc.todo) \cup Snapshot!ToSet(snapRows),
               snapGc'.listed \subseteq snapGc.listed \cup tags
        PROVE  SnapInv'
    <2>1. Snapshot!TypeOK'
      BY <1>0, <1>7 DEF Snapshot!TypeOK
    <2>2. \A s \in Snaps : Condemned(s)' => Condemned(s)
      BY <1>7 DEF Condemned
    <2> QED BY <1>0, <1>1, <1>3, <1>7, <2>1, <2>2, SnapLess DEF RowOf
  <1>8. Snapshot!Idle \in G /\ Snapshot!Idle.pc = "idle" /\ Snapshot!Idle.listed = {} /\ Snapshot!Idle.todo = <<>>
    BY DEF Snapshot!Idle
  <1>9. Snapshot!ToSet(<<>>) = {}
    BY <1>4, SnapSeqIs
  <1>10. ASSUME NEW n \in Nat
         PROVE  Snapshot!Oldest(n) \in Seq(Snaps) /\ Snapshot!ToSet(Snapshot!Oldest(n)) \subseteq Snapshot!ToSet(snapRows)
    <2>1. (IF n < Len(snapRows) THEN n ELSE Len(snapRows)) \in 0..Len(snapRows)
      BY <1>4
    <2> QED BY <1>4, <2>1, SnapSeqIs DEF Snapshot!Oldest
  <1>11. CASE Snapshot!ListImages
    <2>1. snapGc' \in G /\ snapGc'.pc = "containers" /\ snapGc'.listed = tags /\ snapGc'.todo = <<>>
      BY <1>4, <1>8, <1>11 DEF Snapshot!ListImages, Snapshot!Idle
    <2> HIDE DEF G
    <2> QED BY <1>7, <1>9, <1>11, <2>1 DEF Snapshot!ListImages
  <1>12. CASE Snapshot!ListContainerImages
    <2>1. PICK pc \in {"count", "rows"} : Snapshot!GcTo(pc)
      BY <1>12 DEF Snapshot!ListContainerImages
    <2>2. snapGc' \in G /\ snapGc'.pc = pc /\ snapGc'.listed = snapGc.listed /\ snapGc'.todo = snapGc.todo
      BY <1>6, <2>1
    <2> HIDE DEF G
    <2> QED BY <1>7, <1>12, <2>2 DEF Snapshot!ListContainerImages
  <1>13. CASE Snapshot!ReadReferences
    <2>1. CASE Snapshot!GcTo("count") /\ exposed' = exposed
      <3>1. snapGc' \in G /\ snapGc'.pc = "count" /\ snapGc'.listed = snapGc.listed /\ snapGc'.todo = snapGc.todo
        BY <1>6, <2>1
      <3> HIDE DEF G
      <3> QED BY <1>7, <1>13, <2>1, <3>1 DEF Snapshot!ReadReferences
    <2>2. CASE /\ snapGc' = [snapGc EXCEPT !.pc = "remove", !.inUse = Snapshot!ReferencedTags]
               /\ exposed' = exposed \cup {s \in snapGc.listed \cap Snaps : creator[s] = "insert"}
      <3>1. Snapshot!ReferencedTags \subseteq Snapshot!Tags
        BY DEF Snapshot!ReferencedTags
      <3>2. /\ snapGc' \in G /\ snapGc'.pc = "remove" /\ snapGc'.listed = snapGc.listed
            /\ snapGc'.inUse = Snapshot!ReferencedTags /\ snapGc'.todo = snapGc.todo
        BY <1>4, <2>2, <3>1
      <3> HIDE DEF G
      <3>3. exposed' \subseteq Snaps /\ exposed \subseteq exposed'
            /\ \A s \in Snaps : s \in snapGc.listed /\ creator[s] = "insert" => s \in exposed'
        BY <1>4, <2>2
      <3>4. ASSUME NEW s \in Snaps, Condemned(s)'
            PROVE  s \in exposed' \/ (~RowOf(s) /\ creator[s] # "insert" /\ ~UsedNow(s))
        <4>1. s \in snapGc.listed /\ s \notin Snapshot!ReferencedTags /\ s \in Snapshot!Tags
          BY <3>2, <3>4 DEF Condemned, Snapshot!Tags
        <4>2. ~RowOf(s) /\ ~UsedNow(s)
          BY <4>1 DEF Snapshot!ReferencedTags, RowOf, UsedNow
        <4> QED BY <3>3, <4>1, <4>2
      <3>5. UNCHANGED <<service, tags, snapRows, creator, user, deletion, removal, attempted, late>>
        BY <1>13 DEF Snapshot!ReadReferences
      <3>6. Snapshot!TypeOK'
        BY <1>0, <3>2, <3>3, <3>5 DEF Snapshot!TypeOK, G
      <3> QED BY <1>0, <1>1, <1>3, <3>2, <3>3, <3>4, <3>5, <3>6, SnapLess DEF RowOf
    <2> QED BY <1>13, <2>1, <2>2 DEF Snapshot!ReadReferences
  <1>14. CASE Snapshot!RemoveUnused
    <2>0. UNCHANGED <<service, snapRows, creator, user, deletion, removal, attempted, exposed, late>> /\ snapGc.pc = "remove"
      BY <1>14 DEF Snapshot!RemoveUnused
    <2>1. CASE tags' = tags /\ Snapshot!GcTo("count")
      <3>1. snapGc' \in G /\ snapGc'.pc = "count" /\ snapGc'.listed = snapGc.listed /\ snapGc'.todo = snapGc.todo
        BY <1>6, <2>1
      <3> HIDE DEF G
      <3> QED BY <1>7, <2>0, <2>1, <3>1
    <2>2. ASSUME NEW t \in snapGc.listed \ snapGc.inUse, tags' \in {tags, tags \ {t}},
                 snapGc' = [snapGc EXCEPT !.listed = @ \ {t}]
          PROVE  SnapInv'
      <3>1. /\ snapGc' \in G /\ snapGc'.pc = snapGc.pc /\ snapGc'.listed = snapGc.listed \ {t}
            /\ snapGc'.inUse = snapGc.inUse /\ snapGc'.todo = snapGc.todo
        BY <1>4, <2>2
      <3>2. Snapshot!TypeOK'
        BY <1>0, <2>0, <2>2, <3>1 DEF Snapshot!TypeOK
      <3> HIDE DEF G
      <3>3. \A s \in Snaps : Condemned(s)' => Condemned(s)
        BY <3>1 DEF Condemned
      <3>4. ASSUME NEW s \in Snaps, s \in tags, s \notin tags'
            PROVE  s \in exposed \/ (creator[s] # "insert" /\ (RowOf(s) => s \in attempted) /\ (UsedNow(s) => s \in late))
        <4>1. Condemned(s)
          BY <2>0, <2>2, <3>4 DEF Condemned
        <4> QED BY <1>5, <4>1
      <3>5. tags' \subseteq tags
        BY <2>2
      <3> QED BY <1>0, <1>1, <1>3, <2>0, <3>1, <3>2, <3>3, <3>4, <3>5, SnapLess DEF RowOf
    <2> QED BY <1>14, <2>1, <2>2 DEF Snapshot!RemoveUnused, Snapshot!RemoveImage
  <1>15. CASE Snapshot!CountRows \/ Snapshot!SelectExcess \/ Snapshot!SelectOld
    <2>1. UNCHANGED <<service, tags, snapRows, creator, user, deletion, removal, attempted, exposed, late>>
      BY <1>15 DEF Snapshot!CountRows, Snapshot!SelectExcess, Snapshot!SelectOld
    <2>2. /\ snapGc' \in G /\ snapGc'.pc \in {"select", "age", "delete", "idle"}
          /\ snapGc'.listed \subseteq snapGc.listed
          /\ Snapshot!ToSet(snapGc'.todo) \subseteq Snapshot!ToSet(snapGc.todo) \cup Snapshot!ToSet(snapRows)
      <3>1. CASE Snapshot!CountRows
        <4>1. CASE Len(snapRows) > MaxPerService
          <5>1. Len(snapRows) - MaxPerService \in Nat
            BY <1>4, <4>1 DEF Snapshot!SnapshotsAssumption
          <5>2. snapGc' = [snapGc EXCEPT !.pc = "select", !.excess = Len(snapRows) - MaxPerService]
            BY <3>1, <4>1 DEF Snapshot!CountRows
          <5> QED BY <1>4, <5>1, <5>2
        <4>2. CASE ~(Len(snapRows) > MaxPerService)
          BY <1>4, <3>1, <4>2 DEF Snapshot!CountRows
        <4> QED BY <4>1, <4>2
      <3>2. CASE Snapshot!SelectExcess
        <4>1. Snapshot!Oldest(snapGc.excess) \in Seq(Snaps)
              /\ Snapshot!ToSet(Snapshot!Oldest(snapGc.excess)) \subseteq Snapshot!ToSet(snapRows)
          BY <1>4, <1>10
        <4> QED BY <1>4, <3>2, <4>1 DEF Snapshot!SelectExcess
      <3>3. CASE Snapshot!SelectOld
        <4>1. PICK n \in 0..Len(snapRows) :
                snapGc' = IF n = 0 THEN Snapshot!Idle
                          ELSE [snapGc EXCEPT !.pc = "delete", !.todo = Snapshot!Oldest(n), !.excess = 0]
          BY <3>3 DEF Snapshot!SelectOld
        <4>2. Snapshot!Oldest(n) \in Seq(Snaps) /\ Snapshot!ToSet(Snapshot!Oldest(n)) \subseteq Snapshot!ToSet(snapRows)
          BY <1>4, <1>10
        <4>3. CASE n = 0
          BY <1>8, <1>9, <4>1, <4>3
        <4>4. CASE n # 0
          BY <1>4, <4>1, <4>2, <4>4
        <4> QED BY <4>3, <4>4
      <3> QED BY <1>15, <3>1, <3>2, <3>3
    <2> HIDE DEF G
    <2> QED BY <1>7, <2>1, <2>2
  <1>16. CASE Snapshot!DeleteNext
    <2>0. UNCHANGED <<service, tags, snapRows, creator, user, removal, exposed, late>> /\ snapGc.pc = "delete"
      BY <1>16 DEF Snapshot!DeleteNext
    <2>1. CASE snapGc.todo = <<>> /\ Snapshot!GcTo(IF snapGc.excess > 0 THEN "age" ELSE "idle") /\ UNCHANGED <<deletion, attempted>>
      <3>1. /\ snapGc' \in G /\ snapGc'.pc \in {"age", "idle"} /\ snapGc'.listed = snapGc.listed
            /\ snapGc'.todo = snapGc.todo
        BY <1>6, <2>1
      <3> HIDE DEF G
      <3> QED BY <1>7, <2>0, <2>1, <3>1
    <2>2. CASE snapGc.todo # <<>> /\ Snapshot!BeginDeletion("gc", Head(snapGc.todo)) /\ snapGc' = [snapGc EXCEPT !.todo = Tail(@)]
      <3> DEFINE s == Head(snapGc.todo)
      <3>1. /\ s \in Snaps /\ s \in Snapshot!ToSet(snapGc.todo) /\ Tail(snapGc.todo) \in Seq(Snaps)
            /\ Snapshot!ToSet(Tail(snapGc.todo)) \subseteq Snapshot!ToSet(snapGc.todo)
        BY <1>4, <2>2, SnapSeqIs
      <3>2. /\ snapGc' \in G /\ snapGc'.pc = "delete" /\ snapGc'.listed = snapGc.listed /\ snapGc'.todo = Tail(snapGc.todo)
        BY <1>4, <2>0, <2>2, <3>1
      <3>3. deletion' = [deletion EXCEPT !["gc"] = [pc |-> "check", snap |-> s]] /\ attempted' = attempted \cup {s}
        BY <2>2 DEF Snapshot!BeginDeletion
      <3> HIDE DEF s
      <3>4. [pc |-> "check", snap |-> s] \in [pc : {"none", "check", "image", "row"}, snap : Snapshot!Tags]
        BY <3>1 DEF Snapshot!Tags
      <3>5. /\ deletion' \in [Snapshot!Deleters -> [pc : {"none", "check", "image", "row"}, snap : Snapshot!Tags]]
            /\ deletion'["gc"] = [pc |-> "check", snap |-> s]
            /\ \A d \in Snapshot!Deleters : d # "gc" => deletion'[d] = deletion[d]
        BY <1>0, <3>3, <3>4, SnapTypes DEF Snapshot!Deleters
      <3>6. Snapshot!TypeOK'
        BY <1>0, <1>4, <2>0, <3>1, <3>2, <3>3, <3>5 DEF Snapshot!TypeOK
      <3> HIDE DEF G
      <3>7. ASSUME NEW d \in Snapshot!Deleters
            PROVE  /\ deletion'[d].pc # "none" => deletion'[d].snap \in attempted'
                   /\ deletion'[d].pc = "image" => deletion'[d] = deletion[d]
        <4>1. CASE d = "gc"
          BY <3>3, <3>5, <4>1
        <4>2. CASE d # "gc"
          BY <1>0, <3>3, <3>5, <4>2
        <4> QED BY <4>1, <4>2
      <3>8. \A x \in Snaps : ~Condemned(x)'
        BY <3>2 DEF Condemned
      <3> QED BY <1>0, <1>1, <1>3, <2>0, <3>1, <3>2, <3>3, <3>6, <3>7, <3>8, SnapLess DEF RowOf
    <2> QED BY <1>16, <2>1, <2>2 DEF Snapshot!DeleteNext
  <1> QED BY <1>11, <1>12, <1>13, <1>14, <1>15, <1>16 DEF Snapshot!RemoveUnusedBuiltImages, Snapshot!CleanExpired

\* ah is restarted.
LEMMA SnapCrashKeeps ==
  ASSUME Snapshot!SnapshotsAssumption, SnapInv, Snapshot!Crash
  PROVE  SnapInv'
  <1>0. Snapshot!TypeOK
    BY DEF SnapInv
  <1>1. /\ creator' = [s \in Snaps |-> IF creator[s] = "new" THEN "new" ELSE "end"]
        /\ user' = [s \in Snaps |-> IF user[s].pc = "read" THEN [user[s] EXCEPT !.pc = "none"] ELSE user[s]]
        /\ deletion' = [d \in Snapshot!Deleters |-> Snapshot!NoDeletion] /\ snapGc' = Snapshot!Idle
        /\ removal' = Snapshot!NoRemoval
        /\ UNCHANGED <<service, tags, snapRows, attempted, exposed, late>>
    BY DEF Snapshot!Crash
  <1>2. /\ Snapshot!NoDeletion \in [pc : {"none", "check", "image", "row"}, snap : Snapshot!Tags]
        /\ Snapshot!NoDeletion.pc = "none"
    BY DEF Snapshot!NoDeletion, Snapshot!Tags
  <1>3. /\ Snapshot!NoRemoval \in [pc : {"none", "tx", "check"}, refs : SUBSET Snaps]
        /\ Snapshot!NoRemoval.pc = "none" /\ Snapshot!NoRemoval.refs = {}
    BY DEF Snapshot!NoRemoval
  <1>4. /\ Snapshot!Idle \in [pc : {"idle", "containers", "rows", "remove", "count", "select", "age", "delete"},
                              listed : SUBSET Snapshot!Tags, inUse : SUBSET Snapshot!Tags, excess : Nat, todo : Seq(Snaps)]
        /\ Snapshot!Idle.pc = "idle" /\ Snapshot!Idle.listed = {} /\ Snapshot!Idle.todo = <<>>
    BY DEF Snapshot!Idle
  <1>5. ASSUME NEW s \in Snaps
        PROVE  /\ creator'[s] \in {"new", "end"} /\ (creator[s] = "new" <=> creator'[s] = "new")
               /\ user'[s] \in [kind : {"service", "sandbox"}, pc : {"none", "read", "row", "container", "deleting", "gone"}]
               /\ user'[s].pc # "none" => user'[s] = user[s]
    <2>1. user[s] \in [kind : {"service", "sandbox"}, pc : {"none", "read", "row", "container", "deleting", "gone"}]
      BY <1>0, SnapTypes
    <2>2. CASE user[s].pc = "read"
      BY <1>1, <2>1, <2>2
    <2>3. CASE user[s].pc # "read"
      BY <1>1, <2>1, <2>3
    <2> QED BY <2>2, <2>3
  <1>6. Snapshot!TypeOK'
    <2>1. creator' \in [Snaps -> {"new", "tag", "insert", "cleanup", "end"}]
      BY <1>1
    <2>2. user' \in [Snaps -> [kind : {"service", "sandbox"}, pc : {"none", "read", "row", "container", "deleting", "gone"}]]
      BY <1>1, <1>5
    <2>3. deletion' \in [Snapshot!Deleters -> [pc : {"none", "check", "image", "row"}, snap : Snapshot!Tags]]
      BY <1>1, <1>2
    <2> QED BY <1>0, <1>1, <1>3, <1>4, <2>1, <2>2, <2>3 DEF Snapshot!TypeOK
  <1>7. \A d \in Snapshot!Deleters : deletion'[d].pc = "none"
    BY <1>1, <1>2
  <1>8. Snapshot!ToSet(snapGc'.todo) = {}
    BY <1>1, <1>4 DEF Snapshot!ToSet
  <1>9. ASSUME NEW s \in Snaps
        PROVE  SnapFine(s)'
    <2>1. SnapFine(s) /\ (RowOf(s)' <=> RowOf(s)) /\ ~Condemned(s)'
      BY <1>1, <1>4 DEF SnapInv, RowOf, Condemned
    <2>2. RowOf(s) \/ s \in attempted \/ s \in tags => creator'[s] = "end"
      BY <1>5, <2>1 DEF SnapFine
    <2>3. user'[s].pc # "none" => user[s].pc = user'[s].pc
      BY <1>5
    <2>4. UsedNow(s)' => UsedNow(s)
      BY <2>3 DEF UsedNow, Snapshot!Using
    <2>5. /\ user'[s].pc # "none" => RowOf(s) \/ s \in attempted
          /\ RowOf(s) => s \in tags \/ s \in attempted \/ s \in exposed
          /\ UsedNow(s)' => s \in tags \/ s \in late \/ s \in exposed
      BY <2>1, <2>3, <2>4 DEF SnapFine
    <2> QED BY <1>1, <1>3, <1>4, <1>5, <1>7, <1>8, <2>1, <2>2, <2>5 DEF SnapFine
  <1> QED BY <1>6, <1>7, <1>9 DEF SnapInv

\* The invariant of the snapshots.
LEMMA SnapInductive ==
  /\ Snapshot!SnapshotsAssumption /\ Snapshot!Init => SnapInv
  /\ Snapshot!SnapshotsAssumption /\ SnapInv /\ [Snapshot!Next]_snapshotVars => SnapInv'
  <1>1. ASSUME Snapshot!SnapshotsAssumption, Snapshot!Init
        PROVE  SnapInv
    <2>1. /\ creator = [s \in Snaps |-> "new"] /\ tags = {Snapshot!Built} /\ snapRows = <<>>
          /\ snapGc = Snapshot!Idle /\ removal = Snapshot!NoRemoval
          /\ deletion = [d \in Snapshot!Deleters |-> Snapshot!NoDeletion]
          /\ attempted = {} /\ exposed = {} /\ late = {} /\ service \in {"image", "container"}
      BY <1>1 DEF Snapshot!Init
    <2>2. PICK kind \in {"service", "sandbox"} : user = [s \in Snaps |-> [kind |-> kind, pc |-> "none"]]
      BY <1>1 DEF Snapshot!Init
    <2>3. /\ Snapshot!Idle.pc = "idle" /\ Snapshot!Idle.listed = {} /\ Snapshot!Idle.todo = <<>>
          /\ Snapshot!NoRemoval.refs = {} /\ Snapshot!NoDeletion.pc = "none"
      BY DEF Snapshot!Idle, Snapshot!NoRemoval, Snapshot!NoDeletion
    <2>4. user \in [Snaps -> [kind : {"service", "sandbox"}, pc : {"none", "read", "row", "container", "deleting", "gone"}]]
      BY <2>2
    <2>5. deletion \in [Snapshot!Deleters -> [pc : {"none", "check", "image", "row"}, snap : Snapshot!Tags]]
      BY <2>1 DEF Snapshot!NoDeletion, Snapshot!Tags
    <2>6. snapRows \in Seq(Snaps) /\ Snapshot!IsInjective(snapRows)
      BY <2>1 DEF Snapshot!IsInjective
    <2>7. Snapshot!TypeOK
      BY <2>1, <2>4, <2>5, <2>6 DEF Snapshot!TypeOK, Snapshot!Tags, Snapshot!Idle, Snapshot!NoRemoval
    <2>8. ASSUME NEW s \in Snaps
          PROVE  SnapFine(s)
      <3>1. user[s].pc = "none" /\ creator[s] = "new" /\ s \notin tags
        BY <1>1, <2>1, <2>2 DEF Snapshot!SnapshotsAssumption
      <3>2. ~RowOf(s) /\ s \notin Snapshot!ToSet(snapGc.todo)
        BY <2>1, <2>3 DEF RowOf, Snapshot!ToSet
      <3> QED BY <2>1, <2>3, <3>1, <3>2 DEF SnapFine, UsedNow, Condemned, Snapshot!Using
    <2> QED BY <2>1, <2>3, <2>7, <2>8 DEF SnapInv
  <1>2. ASSUME SnapInv, UNCHANGED snapshotVars
        PROVE  SnapInv'
    <2>1. Snapshot!TypeOK'
      BY <1>2 DEF snapshotVars, SnapInv, Snapshot!TypeOK
    <2>2. \A s \in Snaps : SnapFine(s)'
      BY <1>2 DEF snapshotVars, SnapInv, SnapFine, RowOf, UsedNow, Condemned
    <2> QED BY <1>2, <2>1, <2>2 DEF snapshotVars, SnapInv
  <1>3. ASSUME Snapshot!SnapshotsAssumption, SnapInv, Snapshot!Next
        PROVE  SnapInv'
    BY <1>3, SnapCreateKeeps, SnapUserKeeps, SnapDeletionKeeps, SnapRemovalKeeps, SnapGcKeeps, SnapCrashKeeps
       DEF Snapshot!Next
  <1> QED BY <1>1, <1>2, <1>3

-----------------------------------------------------------------------------
(* The image that sandboxes are made from. *)

\* Where the operator has the image, nothing is recorded of it, so that nothing removes it.
OperatorsImage == operators =>
  /\ image = "operator" /\ record = "none" /\ imageGc = Images!IdleGc
  /\ \A c \in Creates : /\ ~create[c].absent /\ ~create[c].fresh
                        /\ create[c].pc \notin {"record", "remove", "forget"}

\* Where ah pulls it: what a create is about to pull is recorded, and freshly until GC, which goes
\* by a stale record, has found that no row names the image.
PullsRecorded == ~operators /\ ~untracked =>
  /\ image = "pulled" => record # "none"
  /\ \A c \in Creates : create[c].pc = "insert" => record = "fresh"
  /\ \A c \in Creates : create[c].pc = "pull" =>
       record # "none" /\ (imageGc.pc \in {"exists", "remove", "forget"} => record = "fresh")
  /\ imageGc.pc = "forget" /\ image = "pulled" => record = "fresh"

PullInv ==
  /\ Images!TypeOK
  /\ OperatorsImage /\ PullsRecorded
  /\ ~operators => image # "operator"
  /\ \A c \in Creates : create[c].pc \in {"pull", "size", "run"} => c \in imageRows

CreateType == [pc : {"exists", "update", "record", "insert", "pull", "size", "run", "remove", "forget", "done"},
               absent : BOOLEAN, fresh : BOOLEAN]

\* The steps of a create, as they move it.
LEMMA CreateSteps ==
  ASSUME Images!TypeOK, NEW c \in Creates
  PROVE  /\ create[c] \in CreateType /\ create \in [Creates -> CreateType]
         /\ create[c] = [pc |-> create[c].pc, absent |-> create[c].absent, fresh |-> create[c].fresh]
         /\ \A pc : Images!Goto(c, pc) =>
              create' = [create EXCEPT ![c] = [pc |-> pc, absent |-> create[c].absent, fresh |-> create[c].fresh]]
         /\ \A f \in BOOLEAN : Images!Tracked(c, f) =>
              create' = [create EXCEPT ![c] = [pc |-> "insert", absent |-> create[c].absent, fresh |-> f]]
         /\ \A b \in BOOLEAN : create' = [create EXCEPT ![c].pc = "update", ![c].absent = b] =>
              create' = [create EXCEPT ![c] = [pc |-> "update", absent |-> b, fresh |-> create[c].fresh]]
         /\ create' = [create EXCEPT ![c].pc = "update"] =>
              create' = [create EXCEPT ![c] = [pc |-> "update", absent |-> create[c].absent, fresh |-> create[c].fresh]]
  <1>1. create[c] \in CreateType /\ create \in [Creates -> CreateType]
    BY DEF Images!TypeOK, CreateType
  <1>2. create[c] = [pc |-> create[c].pc, absent |-> create[c].absent, fresh |-> create[c].fresh]
    BY <1>1 DEF CreateType
  <1>3. ASSUME NEW pc
        PROVE  [create[c] EXCEPT !.pc = pc] = [pc |-> pc, absent |-> create[c].absent, fresh |-> create[c].fresh]
    BY <1>1 DEF CreateType
  <1>4. ASSUME NEW f \in BOOLEAN
        PROVE  [create[c] EXCEPT !.pc = "insert", !.fresh = f] = [pc |-> "insert", absent |-> create[c].absent, fresh |-> f]
    <2> DEFINE g == [create[c] EXCEPT !.pc = "insert", !.fresh = f]
    <2>1. g \in CreateType /\ g.pc = "insert" /\ g.fresh = f /\ g.absent = create[c].absent
      BY <1>1 DEF CreateType
    <2> HIDE DEF g
    <2>2. g = [pc |-> g.pc, absent |-> g.absent, fresh |-> g.fresh]
      BY <2>1 DEF CreateType
    <2>3. g = [pc |-> "insert", absent |-> create[c].absent, fresh |-> f]
      BY <2>1, <2>2
    <2> QED BY <2>3 DEF g
  <1>5. ASSUME NEW b \in BOOLEAN
        PROVE  [create[c] EXCEPT !.pc = "update", !.absent = b] = [pc |-> "update", absent |-> b, fresh |-> create[c].fresh]
    <2> DEFINE g == [create[c] EXCEPT !.pc = "update", !.absent = b]
    <2>1. g \in CreateType /\ g.pc = "update" /\ g.absent = b /\ g.fresh = create[c].fresh
      BY <1>1 DEF CreateType
    <2> HIDE DEF g
    <2>2. g = [pc |-> g.pc, absent |-> g.absent, fresh |-> g.fresh]
      BY <2>1 DEF CreateType
    <2>3. g = [pc |-> "update", absent |-> b, fresh |-> create[c].fresh]
      BY <2>1, <2>2
    <2> QED BY <2>3 DEF g
  <1>6. ASSUME NEW pc, Images!Goto(c, pc)
        PROVE  create' = [create EXCEPT ![c] = [create[c] EXCEPT !.pc = pc]]
    BY <1>1, <1>6 DEF Images!Goto
  <1>7. ASSUME NEW f \in BOOLEAN, Images!Tracked(c, f)
        PROVE  create' = [create EXCEPT ![c] = [create[c] EXCEPT !.pc = "insert", !.fresh = f]]
    BY <1>1, <1>7 DEF Images!Tracked
  <1>8. ASSUME NEW b \in BOOLEAN, create' = [create EXCEPT ![c].pc = "update", ![c].absent = b]
        PROVE  create' = [create EXCEPT ![c] = [create[c] EXCEPT !.pc = "update", !.absent = b]]
    BY <1>1, <1>8
  <1>9. ASSUME create' = [create EXCEPT ![c].pc = "update"]
        PROVE  create' = [create EXCEPT ![c] = [create[c] EXCEPT !.pc = "update"]]
    BY <1>1, <1>9
  <1>10. ASSUME NEW pc, Images!Goto(c, pc)
         PROVE  create' = [create EXCEPT ![c] = [pc |-> pc, absent |-> create[c].absent, fresh |-> create[c].fresh]]
    BY <1>3, <1>6, <1>10
  <1>11. ASSUME NEW f \in BOOLEAN, Images!Tracked(c, f)
         PROVE  create' = [create EXCEPT ![c] = [pc |-> "insert", absent |-> create[c].absent, fresh |-> f]]
    BY <1>4, <1>7, <1>11
  <1>12. ASSUME NEW b \in BOOLEAN, create' = [create EXCEPT ![c].pc = "update", ![c].absent = b]
         PROVE  create' = [create EXCEPT ![c] = [pc |-> "update", absent |-> b, fresh |-> create[c].fresh]]
    BY <1>5, <1>8, <1>12
  <1>13. ASSUME create' = [create EXCEPT ![c].pc = "update"]
         PROVE  create' = [create EXCEPT ![c] = [pc |-> "update", absent |-> create[c].absent, fresh |-> create[c].fresh]]
    BY <1>3, <1>9, <1>13
  <1> QED BY <1>1, <1>2, <1>10, <1>11, <1>12, <1>13

\* What a step of a create has to show.
LEMMA CreateKeeps ==
  ASSUME Images!PulledImagesAssumption, PullInv, NEW c \in Creates, NEW h \in CreateType, create' = [create EXCEPT ![c] = h],
         UNCHANGED <<operators, imageGc>>, image' \in {"absent", "operator", "pulled"},
         record' \in {"none", "fresh", "stale"}, conts' \subseteq imageRows', imageRows' \subseteq Creates,
         untracked' \in BOOLEAN, pullFaults' \in 0..MaxPullFaults, untracked => untracked',
         imageRows \subseteq imageRows',
         operators => image' = image /\ record' = record /\ ~h.absent /\ ~h.fresh
                      /\ h.pc \notin {"record", "remove", "forget"},
         ~operators => image' # "operator",
         h.pc \in {"pull", "size", "run"} => c \in imageRows',
         ~operators /\ ~untracked' =>
           /\ image' = "pulled" => record' # "none"
           /\ \/ (record # "none" => record' # "none") /\ (record = "fresh" => record' = "fresh")
              \/ \A o \in Creates \ {c} : create[o].pc \notin {"insert", "pull"}
           /\ h.pc = "insert" => record' = "fresh"
           /\ h.pc = "pull" => record' # "none" /\ (imageGc.pc \in {"exists", "remove", "forget"} => record' = "fresh")
           /\ imageGc.pc = "forget" /\ image' = "pulled" => record' = "fresh"
  PROVE  PullInv'
  <1>1. /\ create' \in [Creates -> CreateType] /\ create'[c] = h
        /\ \A o \in Creates \ {c} : create'[o] = create[o]
    BY DEF PullInv, Images!TypeOK, CreateType
  <1>2. Images!TypeOK'
    BY <1>1 DEF PullInv, Images!TypeOK, CreateType
  <1>3. OperatorsImage'
    <2>1. ASSUME operators, NEW o \in Creates
          PROVE  ~create'[o].absent /\ ~create'[o].fresh /\ create'[o].pc \notin {"record", "remove", "forget"}
      <3>1. CASE o = c
        BY <1>1, <2>1, <3>1
      <3>2. CASE o # c
        BY <1>1, <2>1, <3>2 DEF PullInv, OperatorsImage
      <3> QED BY <3>1, <3>2
    <2>2. operators => image' = "operator" /\ record' = "none" /\ imageGc' = Images!IdleGc
      BY DEF PullInv, OperatorsImage
    <2> QED BY <2>1, <2>2 DEF OperatorsImage, Images!IdleGc
  <1>4. PullsRecorded'
    <2>1. ASSUME ~operators, ~untracked', NEW o \in Creates \ {c}
          PROVE  /\ create'[o].pc = "insert" => record' = "fresh"
                 /\ create'[o].pc = "pull" =>
                      record' # "none" /\ (imageGc.pc \in {"exists", "remove", "forget"} => record' = "fresh")
      <3>1. ~untracked /\ create'[o] = create[o]
        BY <1>1, <2>1
      <3> QED BY <2>1, <3>1 DEF PullInv, PullsRecorded
    <2>2. ASSUME ~operators, ~untracked'
          PROVE  /\ create'[c].pc = "insert" => record' = "fresh"
                 /\ create'[c].pc = "pull" =>
                      record' # "none" /\ (imageGc.pc \in {"exists", "remove", "forget"} => record' = "fresh")
      BY <1>1, <2>2
    <2> QED BY <2>1, <2>2 DEF PullsRecorded
  <1>5. \A o \in Creates : create'[o].pc \in {"pull", "size", "run"} => o \in imageRows'
    BY <1>1 DEF PullInv
  <1>6. ~operators' => image' # "operator"
    OBVIOUS
  <1> QED BY <1>2, <1>3, <1>4, <1>5, <1>6 DEF PullInv

\* The steps of a create.
LEMMA CreateSandboxKeeps ==
  ASSUME Images!PulledImagesAssumption, PullInv, NEW c \in Creates, UNCHANGED operators, Images!CreateSandbox(c)
  PROVE  PullInv'
  <1> DEFINE was == create[c]
  <1>0. /\ was \in CreateType /\ Images!TypeOK /\ UNCHANGED imageGc
        /\ conts \subseteq imageRows /\ imageRows \subseteq Creates /\ pullFaults \in 0..MaxPullFaults
        /\ operators \in BOOLEAN /\ untracked \in BOOLEAN
        /\ image \in {"absent", "operator", "pulled"} /\ record \in {"none", "fresh", "stale"}
    BY CreateSteps DEF PullInv, Images!TypeOK, Images!CreateSandbox, Images!ImageExists, Images!UpdateRecord,
       Images!InsertRecord, Images!InsertRow, Images!PullImage, Images!CheckSize, Images!RunEnvironment,
       Images!RemoveFresh, Images!ForgetFresh
  <1>1. /\ was.pc \in {"exists", "update", "record", "insert", "pull", "size", "run", "remove", "forget", "done"}
        /\ was.absent \in BOOLEAN /\ was.fresh \in BOOLEAN
    BY <1>0 DEF CreateType
  <1>2. operators => /\ image = "operator" /\ record = "none" /\ ~was.absent /\ ~was.fresh
                     /\ was.pc \notin {"record", "remove", "forget"}
    BY DEF PullInv, OperatorsImage
  <1>3. ~operators => image # "operator"
    BY DEF PullInv
  <1>4. was.pc \in {"pull", "size", "run"} => c \in imageRows
    BY DEF PullInv
  <1>5. ~operators /\ ~untracked =>
          /\ image = "pulled" => record # "none"
          /\ was.pc = "insert" => record = "fresh"
          /\ was.pc = "pull" => record # "none" /\ (imageGc.pc \in {"exists", "remove", "forget"} => record = "fresh")
          /\ imageGc.pc = "forget" /\ image = "pulled" => record = "fresh"
    BY DEF PullInv, PullsRecorded
  <1>6. Images!Fault \/ pullFaults' = pullFaults => pullFaults' \in 0..MaxPullFaults
    BY <1>0 DEF Images!Fault, Images!PulledImagesAssumption
  <1> HIDE DEF was
  <1>7. CASE Images!ImageExists(c)
    <2>1. PICK b \in BOOLEAN : create' = [create EXCEPT ![c] = [pc |-> "update", absent |-> b, fresh |-> was.fresh]]
                               /\ (operators => ~b)
      BY <1>0, <1>1, <1>2, <1>7, CreateSteps DEF Images!ImageExists, was
    <2> DEFINE h == [pc |-> "update", absent |-> b, fresh |-> was.fresh]
    <2>2. h \in CreateType /\ h.pc = "update" /\ h.absent = b /\ h.fresh = was.fresh
      BY <1>1 DEF CreateType
    <2> HIDE DEF h
    <2> QED BY <1>0, <1>2, <1>3, <1>5, <1>6, <1>7, <2>1, <2>2, CreateKeeps DEF Images!ImageExists, h
  <1>8. CASE Images!UpdateRecord(c)
    <2> DEFINE next(f) == [pc |-> "insert", absent |-> was.absent, fresh |-> f]
    <2> DEFINE asks == [pc |-> "record", absent |-> was.absent, fresh |-> was.fresh]
    <2>1. \A f \in BOOLEAN : next(f) \in CreateType /\ next(f).pc = "insert" /\ next(f).absent = was.absent /\ next(f).fresh = f
      BY <1>1 DEF CreateType
    <2>2. asks \in CreateType /\ asks.pc = "record" /\ asks.absent = was.absent /\ asks.fresh = was.fresh
      BY <1>1 DEF CreateType
    <2>3. \A f \in BOOLEAN : Images!Tracked(c, f) => create' = [create EXCEPT ![c] = next(f)]
      BY <1>0, CreateSteps DEF was
    <2>4. Images!Goto(c, "record") => create' = [create EXCEPT ![c] = asks]
      BY <1>0, CreateSteps DEF was
    <2> HIDE DEF next, asks
    <2>5. UNCHANGED <<image, imageRows, conts>>
      BY <1>8 DEF Images!UpdateRecord
    <2>6. CASE record # "none" /\ record' = "fresh" /\ Images!Tracked(c, was.absent) /\ UNCHANGED <<untracked, pullFaults>>
      BY <1>0, <1>1, <1>2, <1>3, <1>5, <2>1, <2>3, <2>5, <2>6, CreateKeeps
    <2>7. CASE /\ record = "none" /\ ~was.absent /\ Images!Tracked(c, FALSE)
               /\ untracked' = (untracked \/ image = "absent") /\ UNCHANGED <<record, pullFaults>>
      BY <1>0, <1>1, <1>2, <1>3, <1>5, <2>1, <2>3, <2>5, <2>7, CreateKeeps
    <2>8. CASE record = "none" /\ was.absent /\ Images!Goto(c, "record") /\ UNCHANGED <<record, untracked, pullFaults>>
      BY <1>0, <1>1, <1>2, <1>3, <1>5, <2>2, <2>4, <2>5, <2>8, CreateKeeps
    <2>9. CASE Images!Fault /\ Images!Tracked(c, FALSE) /\ untracked' = TRUE /\ record' = record
      BY <1>0, <1>1, <1>2, <1>3, <1>5, <1>6, <2>1, <2>3, <2>5, <2>9, CreateKeeps
    <2> QED BY <1>8, <2>6, <2>7, <2>8, <2>9 DEF Images!UpdateRecord, was
  <1>9. CASE Images!InsertRecord(c)
    <2>1. PICK f \in BOOLEAN : create' = [create EXCEPT ![c] = [pc |-> "insert", absent |-> was.absent, fresh |-> f]]
      BY <1>0, <1>9, CreateSteps DEF Images!InsertRecord, was
    <2> DEFINE h == [pc |-> "insert", absent |-> was.absent, fresh |-> f]
    <2>2. h \in CreateType /\ h.pc = "insert"
      BY <1>1 DEF CreateType
    <2> HIDE DEF h
    <2>3. ~operators
      BY <1>2, <1>9 DEF Images!InsertRecord, Images!At, was
    <2>4. create' = [create EXCEPT ![c] = h] /\ UNCHANGED <<image, imageRows, conts>>
      BY <1>9, <2>1 DEF Images!InsertRecord, h
    <2>5. CASE record' = "fresh" /\ UNCHANGED <<untracked, pullFaults>>
      BY <1>0, <1>3, <1>5, <2>2, <2>3, <2>4, <2>5, CreateKeeps
    <2>6. CASE Images!Fault /\ untracked' = TRUE /\ record' = record
      BY <1>0, <1>3, <1>5, <1>6, <2>2, <2>3, <2>4, <2>6, CreateKeeps
    <2> QED BY <1>9, <2>5, <2>6 DEF Images!InsertRecord
  <1>10. CASE Images!InsertRow(c)
    <2>1. PICK pc \in {"pull", "done"} : create' = [create EXCEPT ![c] = [pc |-> pc, absent |-> was.absent, fresh |-> was.fresh]]
             /\ (pc = "pull" => c \in imageRows')
      BY <1>0, <1>10, CreateSteps DEF Images!InsertRow, was
    <2> DEFINE h == [pc |-> pc, absent |-> was.absent, fresh |-> was.fresh]
    <2>2. h \in CreateType /\ h.pc = pc /\ h.absent = was.absent /\ h.fresh = was.fresh
      BY <1>1 DEF CreateType
    <2> HIDE DEF h
    <2> QED BY <1>0, <1>2, <1>3, <1>4, <1>5, <1>6, <1>10, <2>1, <2>2, CreateKeeps
            DEF Images!InsertRow, Images!At, Images!Removable, h, was
  <1>11. CASE Images!PullImage(c)
    <2>1. PICK pc \in {"size", "done"} : create' = [create EXCEPT ![c] = [pc |-> pc, absent |-> was.absent, fresh |-> was.fresh]]
      BY <1>0, <1>11, CreateSteps DEF Images!PullImage, was
    <2> DEFINE h == [pc |-> pc, absent |-> was.absent, fresh |-> was.fresh]
    <2>2. h \in CreateType /\ h.pc = pc /\ h.absent = was.absent /\ h.fresh = was.fresh
      BY <1>1 DEF CreateType
    <2> HIDE DEF h
    <2> QED BY <1>0, <1>2, <1>3, <1>4, <1>5, <1>6, <1>11, <2>1, <2>2, CreateKeeps
            DEF Images!PullImage, Images!At, Images!Removable, h, was
  <1>12. CASE Images!CheckSize(c)
    <2>1. PICK pc \in {"run", "remove", "done"} : create' = [create EXCEPT ![c] = [pc |-> pc, absent |-> was.absent, fresh |-> was.fresh]]
             /\ (pc = "remove" => was.fresh)
      BY <1>0, <1>12, CreateSteps DEF Images!CheckSize, was
    <2> DEFINE h == [pc |-> pc, absent |-> was.absent, fresh |-> was.fresh]
    <2>2. h \in CreateType /\ h.pc = pc /\ h.absent = was.absent /\ h.fresh = was.fresh
      BY <1>1 DEF CreateType
    <2> HIDE DEF h
    <2> QED BY <1>0, <1>2, <1>3, <1>4, <1>5, <1>6, <1>12, <2>1, <2>2, CreateKeeps
            DEF Images!CheckSize, Images!At, Images!Removable, h, was
  <1>13. CASE Images!RunEnvironment(c)
    <2>1. PICK pc \in {"done"} : create' = [create EXCEPT ![c] = [pc |-> pc, absent |-> was.absent, fresh |-> was.fresh]]
      BY <1>0, <1>13, CreateSteps DEF Images!RunEnvironment, was
    <2> DEFINE h == [pc |-> pc, absent |-> was.absent, fresh |-> was.fresh]
    <2>2. h \in CreateType /\ h.pc = pc /\ h.absent = was.absent /\ h.fresh = was.fresh
      BY <1>1 DEF CreateType
    <2> HIDE DEF h
    <2> QED BY <1>0, <1>2, <1>3, <1>4, <1>5, <1>6, <1>13, <2>1, <2>2, CreateKeeps
            DEF Images!RunEnvironment, Images!At, Images!Removable, h, was
  <1>14. CASE Images!RemoveFresh(c)
    <2>1. PICK pc \in {"forget", "done"} : create' = [create EXCEPT ![c] = [pc |-> pc, absent |-> was.absent, fresh |-> was.fresh]]
      BY <1>0, <1>14, CreateSteps DEF Images!RemoveFresh, was
    <2> DEFINE h == [pc |-> pc, absent |-> was.absent, fresh |-> was.fresh]
    <2>2. h \in CreateType /\ h.pc = pc /\ h.absent = was.absent /\ h.fresh = was.fresh
      BY <1>1 DEF CreateType
    <2> HIDE DEF h
    <2> QED BY <1>0, <1>2, <1>3, <1>4, <1>5, <1>6, <1>14, <2>1, <2>2, CreateKeeps
            DEF Images!RemoveFresh, Images!At, Images!Removable, h, was
  <1>15. CASE Images!ForgetFresh(c)
    <2>1. PICK pc \in {"done"} : create' = [create EXCEPT ![c] = [pc |-> pc, absent |-> was.absent, fresh |-> was.fresh]]
      BY <1>0, <1>15, CreateSteps DEF Images!ForgetFresh, was
    <2> DEFINE h == [pc |-> pc, absent |-> was.absent, fresh |-> was.fresh]
    <2>2. h \in CreateType /\ h.pc = pc /\ h.absent = was.absent /\ h.fresh = was.fresh
      BY <1>1 DEF CreateType
    <2> HIDE DEF h
    <2> QED BY <1>0, <1>2, <1>3, <1>4, <1>5, <1>6, <1>15, <2>1, <2>2, CreateKeeps
            DEF Images!ForgetFresh, Images!At, Images!Removable, h, was
  <1> QED BY <1>7, <1>8, <1>9, <1>10, <1>11, <1>12, <1>13, <1>14, <1>15 DEF Images!CreateSandbox

\* What a step of GC, the deletion of a sandbox and the age of the record have to show.
LEMMA GcKeeps ==
  ASSUME PullInv, UNCHANGED <<operators, create, untracked>>, image' \in {image, "absent"},
         record' \in {"none", "fresh", "stale"}, conts' \subseteq imageRows', imageRows' \subseteq imageRows,
         imageGc' \in [pc : {"idle", "containers", "rows", "exists", "remove", "forget"}, inUse : BOOLEAN],
         pullFaults' \in 0..MaxPullFaults,
         operators => image' = image /\ record' = record /\ imageGc' = imageGc,
         \A c \in Creates : create[c].pc \in {"pull", "size", "run"} => c \in imageRows',
         ~operators /\ ~untracked =>
           /\ image' = "pulled" => record' # "none"
           /\ \A c \in Creates : create[c].pc = "insert" => record' = "fresh"
           /\ \A c \in Creates : create[c].pc = "pull" =>
                record' # "none" /\ (imageGc'.pc \in {"exists", "remove", "forget"} => record' = "fresh")
           /\ imageGc'.pc = "forget" /\ image' = "pulled" => record' = "fresh"
  PROVE  PullInv'
  <1>1. Images!TypeOK'
    BY DEF PullInv, Images!TypeOK
  <1>2. OperatorsImage'
    BY DEF PullInv, OperatorsImage
  <1>3. PullsRecorded'
    BY DEF PullsRecorded
  <1>4. ~operators' => image' # "operator"
    BY DEF PullInv
  <1> QED BY <1>1, <1>2, <1>3, <1>4 DEF PullInv

\* The steps of GC.
LEMMA GcStepsKeep ==
  ASSUME Images!PulledImagesAssumption, PullInv, UNCHANGED operators,
         \/ Images!SelectStale \/ Images!ReadUses \/ Images!CheckExists \/ Images!RemoveUnused \/ Images!Forget
         \/ Images!Age \/ \E c \in Creates : Images!DeleteSandbox(c)
  PROVE  PullInv'
  <1>1. /\ Images!TypeOK /\ conts \subseteq imageRows /\ imageRows \subseteq Creates
        /\ pullFaults \in 0..MaxPullFaults
        /\ image \in {"absent", "operator", "pulled"} /\ record \in {"none", "fresh", "stale"}
        /\ imageGc \in [pc : {"idle", "containers", "rows", "exists", "remove", "forget"}, inUse : BOOLEAN]
    BY DEF PullInv, Images!TypeOK
  <1>2. operators => image = "operator" /\ record = "none" /\ imageGc = Images!IdleGc
    BY DEF PullInv, OperatorsImage
  <1>3. \A c \in Creates : create[c].pc \in {"pull", "size", "run"} => c \in imageRows
    BY DEF PullInv
  <1>4. ~operators /\ ~untracked =>
          /\ image = "pulled" => record # "none"
          /\ \A c \in Creates : create[c].pc = "insert" => record = "fresh"
          /\ \A c \in Creates : create[c].pc = "pull" =>
               record # "none" /\ (imageGc.pc \in {"exists", "remove", "forget"} => record = "fresh")
          /\ imageGc.pc = "forget" /\ image = "pulled" => record = "fresh"
    BY DEF PullInv, PullsRecorded
  <1>5. Images!Fault \/ pullFaults' = pullFaults => pullFaults' \in 0..MaxPullFaults
    BY <1>1 DEF Images!Fault, Images!PulledImagesAssumption
  <1>6. \A pc \in {"idle", "containers", "rows", "exists", "remove", "forget"} : Images!GcTo(pc) =>
          /\ imageGc' \in [pc : {"idle", "containers", "rows", "exists", "remove", "forget"}, inUse : BOOLEAN]
          /\ imageGc'.pc = pc
    BY <1>1 DEF Images!GcTo
  <1>7. /\ Images!IdleGc \in [pc : {"idle", "containers", "rows", "exists", "remove", "forget"}, inUse : BOOLEAN]
        /\ Images!IdleGc.pc = "idle"
    BY DEF Images!IdleGc
  <1>8. CASE Images!SelectStale
    BY <1>1, <1>2, <1>3, <1>4, <1>6, <1>8, GcKeeps DEF Images!SelectStale
  <1>9. CASE Images!ReadUses
    <2>1. imageGc.pc \in {"containers", "rows"} /\ UNCHANGED <<image, record, create, imageRows, conts, untracked, pullFaults>>
      BY <1>9 DEF Images!ReadUses
    <2>2. ~operators
      BY <1>2, <1>7, <2>1
    <2>3. /\ imageGc' \in [pc : {"idle", "containers", "rows", "exists", "remove", "forget"}, inUse : BOOLEAN]
          /\ imageGc'.pc \in {"idle", "rows", "exists"} /\ (imageGc'.pc = "exists" => imageRows = {})
      <3>1. CASE imageGc' = [pc |-> "rows", inUse |-> conts # {}]
        <4>1. (conts # {}) \in BOOLEAN
          OBVIOUS
        <4> QED BY <3>1, <4>1
      <3>2. CASE imageRows = {} /\ Images!GcTo("exists")
        BY <1>6, <3>2
      <3>3. CASE imageGc' = Images!IdleGc
        BY <1>7, <3>3
      <3> QED BY <1>9, <3>1, <3>2, <3>3 DEF Images!ReadUses
    <2> QED BY <1>1, <1>3, <1>4, <2>1, <2>2, <2>3, GcKeeps
  <1>10. CASE Images!CheckExists
    <2>1. imageGc.pc = "exists" /\ UNCHANGED <<image, record, create, imageRows, conts, untracked>>
          /\ pullFaults' \in 0..MaxPullFaults
      BY <1>5, <1>10 DEF Images!CheckExists
    <2>2. ~operators
      BY <1>2, <1>7, <2>1
    <2>3. /\ imageGc' \in [pc : {"idle", "containers", "rows", "exists", "remove", "forget"}, inUse : BOOLEAN]
          /\ imageGc'.pc \in {"idle", "remove", "forget"} /\ (imageGc'.pc = "forget" => image = "absent")
      BY <1>6, <1>7, <1>10 DEF Images!CheckExists
    <2> QED BY <1>1, <1>3, <1>4, <2>1, <2>2, <2>3, GcKeeps
  <1>11. CASE Images!RemoveUnused
    <2>1. imageGc.pc = "remove" /\ UNCHANGED <<record, create, imageRows, conts, untracked>>
          /\ pullFaults' \in 0..MaxPullFaults
      BY <1>5, <1>11 DEF Images!RemoveUnused
    <2>2. ~operators
      BY <1>2, <1>7, <2>1
    <2>3. /\ imageGc' \in [pc : {"idle", "containers", "rows", "exists", "remove", "forget"}, inUse : BOOLEAN]
          /\ imageGc'.pc \in {"idle", "forget"} /\ (imageGc'.pc = "forget" => image' = "absent") /\ image' \in {image, "absent"}
      BY <1>6, <1>7, <1>11 DEF Images!RemoveUnused
    <2> QED BY <1>1, <1>3, <1>4, <2>1, <2>2, <2>3, GcKeeps
  <1>12. CASE Images!Forget
    <2>1. /\ imageGc.pc = "forget" /\ imageGc' = Images!IdleGc
          /\ UNCHANGED <<image, create, imageRows, conts, untracked>> /\ pullFaults' \in 0..MaxPullFaults
          /\ record' = record \/ (record = "stale" /\ record' = "none")
      BY <1>5, <1>12 DEF Images!Forget
    <2>2. ~operators
      BY <1>2, <1>7, <2>1
    <2> QED BY <1>1, <1>3, <1>4, <1>7, <2>1, <2>2, GcKeeps
  <1>13. CASE Images!Age
    BY <1>1, <1>2, <1>3, <1>4, <1>13, GcKeeps DEF Images!Age
  <1>14. ASSUME NEW c \in Creates, Images!DeleteSandbox(c)
         PROVE  PullInv'
    <2>1. /\ create[c].pc = "done" /\ imageRows' = imageRows \ {c} /\ conts' = conts \ {c}
          /\ UNCHANGED <<image, record, create, imageGc, untracked, pullFaults>>
      BY <1>14 DEF Images!DeleteSandbox, Images!At
    <2> QED BY <1>1, <1>2, <1>3, <1>4, <2>1, GcKeeps
  <1> QED BY <1>8, <1>9, <1>10, <1>11, <1>12, <1>13, <1>14

\* The invariant of the pulled images.
LEMMA PullInductive ==
  /\ Images!PulledImagesAssumption /\ Images!Init => PullInv
  /\ Images!PulledImagesAssumption /\ PullInv /\ [Images!Next]_imagesVars => PullInv'
  <1>1. ASSUME Images!PulledImagesAssumption, Images!Init
        PROVE  PullInv
    <2>1. \A c \in Creates : create[c].pc = "exists" /\ ~create[c].absent /\ ~create[c].fresh
      BY <1>1 DEF Images!Init, Images!NewCreate
    <2>4. create \in [Creates -> CreateType] /\ imageGc \in [pc : {"idle"}, inUse : BOOLEAN]
      BY <1>1 DEF Images!Init, Images!NewCreate, Images!IdleGc, CreateType
    <2>5. operators \in BOOLEAN /\ image \in {"operator", "absent"} /\ 0 \in 0..MaxPullFaults
      BY <1>1 DEF Images!Init, Images!PulledImagesAssumption
    <2>2. Images!TypeOK
      BY <1>1, <2>4, <2>5 DEF Images!Init, Images!TypeOK, CreateType
    <2>3. imageGc.pc = "idle"
      BY <1>1 DEF Images!Init, Images!IdleGc
    <2> QED BY <1>1, <2>1, <2>2, <2>3 DEF Images!Init, PullInv, OperatorsImage, PullsRecorded
  <1>2. ASSUME PullInv, UNCHANGED imagesVars
        PROVE  PullInv'
    BY <1>2 DEF imagesVars, PullInv, Images!TypeOK, OperatorsImage, PullsRecorded
  <1>3. ASSUME Images!PulledImagesAssumption, PullInv, Images!Next
        PROVE  PullInv'
    <2>1. UNCHANGED operators
      BY <1>3 DEF Images!Next
    <2> QED BY <1>3, <2>1, CreateSandboxKeeps, GcStepsKeep DEF Images!Next
  <1> QED BY <1>1, <1>2, <1>3

\* The tag of a snapshot that can be restored stays, and of a service or sandbox made from it,
\* through deletions, the retention, GC, failures and restarts; so does the operator's image, and
\* GC knows the image that ah has pulled.
THEOREM ImagesAreKept == ServerSpec => []ImagesKept
  <1> DEFINE Kept == (scene = "snapshots" => SnapInv) /\ (scene = "images" => PullInv)
  <1>1. ServerInit => Kept
    BY SnapInductive, PullInductive, ServerAssumption DEF ServerInit
  <1>2. Kept /\ [ServerNext]_serverVars => Kept'
    BY SnapInductive, PullInductive, ServerAssumption DEF ServerNext, serverVars, snapshotVars, imagesVars
  <1>3. SnapInv => Snapshot!ImagesKept
    <2>1. ASSUME SnapInv, NEW s \in Snaps
          PROVE  /\ RowOf(s) => s \in tags \/ s \in attempted \/ s \in exposed
                 /\ UsedNow(s) => s \in tags \/ s \in late \/ s \in exposed
      BY <2>1 DEF SnapInv, SnapFine
    <2>2. SnapInv => Snapshot!ToSet(snapRows) \subseteq Snaps
      BY SnapTypes, SnapSeqIs DEF SnapInv
    <2> QED BY <2>1, <2>2 DEF Snapshot!ImagesKept, RowOf, UsedNow
  <1>4. PullInv => Images!PulledImagesTracked
    BY DEF PullInv, OperatorsImage, PullsRecorded, Images!PulledImagesTracked, Images!TypeOK
  <1>5. Kept => ImagesKept
    BY <1>3, <1>4 DEF ImagesKept
  <1> QED BY <1>1, <1>2, <1>5, PTL DEF ServerSpec

-----------------------------------------------------------------------------
(* The previews. *)

PreviewSteps == {"none", "network", "traefik", "alias", "route", "undo row", "cleanup", "disconnect", "remove",
                 "delete row", "container", "restore", "commit", "undo routes", "undo", "status", "delete env"}

OpType == [kind : {"none", "create", "delete preview", "start", "stop", "delete"}, pc : PreviewSteps,
           preview : Ids \cup {"none"}, recreated : BOOLEAN]

EnvType == [status : {"running", "stopped", "gone"}, container : {"running", "stopped", "gone"}]

NetType == [on : BOOLEAN, old : BOOLEAN, traefik : BOOLEAN]

SweepSteps == {"none", "select", "listed stopped", "listed running", "stop", "status"}

SweepType == [1..MaxSuspensions -> [pc : SweepSteps, pass : 1..2]]

PreviewTyped ==
  /\ env \in EnvType /\ rows \subseteq Ids /\ routes \subseteq Ids /\ net \in NetType
  /\ attached \in {"none", "here", "removed"} /\ op \in OpType /\ owner \in {"active", "suspended"}
  /\ sweep \in SweepType
  /\ gc \in {"none", "list", "inspect", "disconnect", "remove"}
  /\ dark \subseteq Ids /\ taken \in BOOLEAN /\ broken \in BOOLEAN

\* Whose each step is.
OpShape ==
  /\ op.kind = "none" <=> op.pc = "none"
  /\ op.kind = "none" => op = Preview!NoOp
  /\ op.pc \in {"network", "traefik", "alias"} => op.kind \in {"create", "start"}
  /\ op.pc \in {"route", "undo row"} => op.kind = "create"
  /\ op.pc = "cleanup" => op.kind \in {"create", "delete preview"}
  /\ op.pc = "delete row" => op.kind = "delete preview"
  /\ op.pc \in {"restore", "commit", "undo routes", "undo"} => op.kind = "start"
  /\ op.pc = "container" => op.kind \in {"start", "delete"}
  /\ op.pc = "status" <=> op.kind = "stop"
  /\ op.pc = "delete env" => op.kind = "delete"

\* An operation that is about to connect the container has a preview to connect it for.
Connecting == op.pc \in {"network", "traefik", "alias", "route", "restore"}

\* What an operation may rely on, whatever the sweeps and GC do: the row of its preview, the routes
\* it has removed, the status of the environment, the network's ends it has disconnected.
OpFits ==
  /\ routes \subseteq rows
  /\ op.kind = "create" /\ (Connecting \/ op.pc = "undo row") =>
       op.preview \in rows \ routes
  /\ op.kind = "create" /\ Connecting => env.status # "gone"
  /\ op.kind = "start" => env.status = "stopped" /\ (Connecting => rows # {})
  /\ op.kind \in {"create", "delete preview"} /\ op.pc \in {"disconnect", "remove"} => rows = {}
  /\ op.pc = "delete row" => op.preview \in rows \ routes
  /\ op.kind = "stop" => env.container # "running" /\ env.status # "gone"
  /\ op.kind = "delete" => routes = {}
  /\ op.pc = "remove" => attached # "here"

\* The preview that an operation is about to make or to remove.
Pending == IF op.kind \in {"create", "delete preview"} THEN {op.preview} ELSE {}

\* A sweep has removed the routes and is about to stop the container.
Stopping == \E i \in 1..MaxSuspensions : sweep[i].pc = "stop"

\* The routes of an environment that runs, or that the next write has running, are there or known
\* to be dark, but for the preview that an operation is about: a sweep that takes them on its way
\* to the container stops it, or the routes are dark.
Routed ==
  /\ env.status = "running" /\ env.container = "running" /\ op.kind # "delete" /\ ~Stopping =>
       rows \ Pending \subseteq routes \cup dark
  /\ op.pc = "commit" /\ env.container = "running" /\ ~Stopping => rows \subseteq routes \cup dark
  /\ op.pc = "cleanup" => op.preview \notin rows

Ends == net.on /\ net.traefik /\ attached = "here"

\* The preview that is being created; one that is being deleted has the network until its row goes.
Arriving == IF op.kind = "create" THEN {op.preview} ELSE {}

\* The network of a running environment with previews has both ends; what an operation has done of
\* it stays until the operation has finished.
Linked ==
  /\ attached # "removed"
  /\ env.status = "running" /\ env.container = "running" /\ op.kind # "delete" /\ rows \ Arriving # {} => Ends
  /\ op.pc \in {"traefik", "alias", "route", "restore"} => net.on
  /\ op.pc \in {"alias", "route", "restore"} => net.traefik
  /\ op.pc \in {"route", "restore"} => attached = "here"
  /\ op.pc = "commit" /\ rows # {} => Ends

PreviewInv ==
  /\ PreviewTyped /\ OpShape /\ OpFits
  /\ ~broken => Routed /\ (~taken => Linked)

\* An operation's next step, and its end.
LEMMA OpMoves ==
  ASSUME op \in OpType
  PROVE  /\ \A pc \in PreviewSteps : Preview!To(pc) =>
              op' \in OpType /\ op'.pc = pc /\ op'.kind = op.kind /\ op'.preview = op.preview
         /\ Preview!Done <=> op' = Preview!NoOp
  BY DEF OpType, Preview!To, Preview!Done

LEMMA NoOpIs ==
  /\ Preview!NoOp \in OpType /\ Preview!NoOp.pc = "none" /\ Preview!NoOp.kind = "none"
  /\ Preview!NoOp.preview = "none"
  BY DEF OpType, PreviewSteps, Preview!NoOp, Preview!None

\* Updates of the environment and of the network.
LEMMA EnvIs ==
  ASSUME env \in EnvType
  PROVE  \A x \in {"running", "stopped", "gone"} :
           /\ [env EXCEPT !.status = x] \in EnvType /\ [env EXCEPT !.status = x].status = x
           /\ [env EXCEPT !.status = x].container = env.container
           /\ [env EXCEPT !.container = x] \in EnvType /\ [env EXCEPT !.container = x].container = x
           /\ [env EXCEPT !.container = x].status = env.status
  BY DEF EnvType

LEMMA NetIs ==
  ASSUME net \in NetType
  PROVE  /\ \A x \in BOOLEAN :
              /\ [net EXCEPT !.traefik = x] \in NetType /\ [net EXCEPT !.traefik = x].traefik = x
              /\ [net EXCEPT !.traefik = x].on = net.on
         /\ [net EXCEPT !.old = TRUE] \in NetType /\ [net EXCEPT !.old = TRUE].on = net.on
         /\ [net EXCEPT !.old = TRUE].traefik = net.traefik
         /\ Preview!NoNet \in NetType
         /\ [Preview!NoNet EXCEPT !.on = TRUE] \in NetType /\ [Preview!NoNet EXCEPT !.on = TRUE].on
  BY DEF NetType, Preview!NoNet

\* No sweep is under way.
LEMMA NoSweeps == [i \in 1..MaxSuspensions |-> Preview!NoSweep] \in SweepType
  <1>1. Preview!NoSweep \in [pc : SweepSteps, pass : 1..2]
    BY DEF SweepSteps, Preview!NoSweep, Preview!None
  <1> QED BY <1>1 DEF SweepType

\* A sweep's next step, and the end of a pass.
LEMMA SweepMoves ==
  ASSUME sweep \in SweepType, NEW i \in 1..MaxSuspensions
  PROVE  /\ \A pc \in SweepSteps : Preview!SweepTo(i, pc) =>
              /\ sweep' \in SweepType /\ sweep'[i].pc = pc
              /\ \A j \in 1..MaxSuspensions \ {i} : sweep'[j] = sweep[j]
         /\ Preview!EndPass(i) =>
              /\ sweep' \in SweepType
              /\ \A j \in 1..MaxSuspensions \ {i} : sweep'[j] = sweep[j]
  <1>1. ASSUME NEW pc \in SweepSteps, Preview!SweepTo(i, pc)
        PROVE  /\ sweep' \in SweepType /\ sweep'[i].pc = pc
               /\ \A j \in 1..MaxSuspensions \ {i} : sweep'[j] = sweep[j]
    <2>1. sweep' = [sweep EXCEPT ![i].pc = pc]
      BY <1>1 DEF Preview!SweepTo
    <2>2. sweep[i] \in [pc : SweepSteps, pass : 1..2]
      BY DEF SweepType
    <2>3. [sweep[i] EXCEPT !.pc = pc] \in [pc : SweepSteps, pass : 1..2] /\ [sweep[i] EXCEPT !.pc = pc].pc = pc
      BY <2>2
    <2> QED BY <2>1, <2>2, <2>3 DEF SweepType
  <1>2. ASSUME Preview!EndPass(i)
        PROVE  /\ sweep' \in SweepType
               /\ \A j \in 1..MaxSuspensions \ {i} : sweep'[j] = sweep[j]
    <2> DEFINE x == IF sweep[i].pass = 1 THEN [pc |-> "select", pass |-> 2] ELSE Preview!NoSweep
    <2>1. sweep' = [sweep EXCEPT ![i] = x]
      BY <1>2 DEF Preview!EndPass
    <2>2. x \in [pc : SweepSteps, pass : 1..2]
      BY DEF SweepSteps, Preview!NoSweep, Preview!None
    <2> HIDE DEF x
    <2> QED BY <2>1, <2>2 DEF SweepType
  <1> QED BY <1>1, <1>2

LEMMA CreatePreviewPreviewKeeps ==
  ASSUME PreviewInv, NEW p \in Ids, Preview!CreatePreview(p)
  PROVE  PreviewInv'
  <1>0. PreviewTyped /\ op \in OpType /\ env \in EnvType /\ net \in NetType
    BY DEF PreviewInv, PreviewTyped
  <1>1. UNCHANGED <<env, routes, net, attached, owner, sweep, gc, dark, taken, broken>>
    BY DEF Preview!history, Preview!CreatePreview
  <1>2. op' \in OpType /\ env' \in EnvType /\ net' \in NetType
    BY <1>0, <1>1, OpMoves, NoOpIs DEF Preview!CreatePreview, OpType, PreviewSteps, Preview!NoOp,
       Preview!None
  <1>3. /\ op = Preview!NoOp /\ env.status = "running" /\ owner = "active" /\ p \notin rows
    BY <1>0, OpMoves, NoOpIs DEF Preview!CreatePreview, OpType, PreviewSteps, Preview!NoOp, Preview!None
  <1>4. rows' = rows \cup {p} /\ op'.pc = "network" /\ op'.kind = "create" /\ op'.preview = p
    BY <1>0, <1>3, OpMoves, NoOpIs DEF Preview!CreatePreview, OpType, PreviewSteps, Preview!NoOp,
       Preview!None
  <1>5. PreviewTyped'
    BY <1>0, <1>1, <1>2, <1>3, <1>4, NetIs DEF PreviewTyped
  <1>6. OpShape'
    BY <1>0, <1>1, <1>3, <1>4, NoOpIs DEF PreviewInv, OpShape
  <1>7. OpFits'
    BY <1>0, <1>1, <1>3, <1>4, NoOpIs DEF PreviewInv, OpShape, OpFits, Connecting
  <1>8. ~broken' => Routed'
    BY <1>0, <1>1, <1>3, <1>4, NoOpIs DEF PreviewInv, OpShape, OpFits, Connecting, Routed, Stopping,
       Pending
  <1>9. ~broken' /\ ~taken' => Linked'
    BY <1>0, <1>1, <1>3, <1>4, NoOpIs DEF PreviewInv, OpShape, OpFits, Connecting, Linked, Ends, Arriving
  <1> QED BY <1>5, <1>6, <1>7, <1>8, <1>9 DEF PreviewInv

LEMMA DeletePreviewPreviewKeeps ==
  ASSUME PreviewInv, NEW p \in Ids, Preview!DeletePreview(p)
  PROVE  PreviewInv'
  <1>0. PreviewTyped /\ op \in OpType /\ env \in EnvType /\ net \in NetType
    BY DEF PreviewInv, PreviewTyped
  <1>1. UNCHANGED <<env, rows, net, attached, owner, sweep, gc, dark, taken, broken>>
    BY DEF Preview!history, Preview!DeletePreview
  <1>2. op' \in OpType /\ env' \in EnvType /\ net' \in NetType
    BY <1>0, <1>1, OpMoves, NoOpIs DEF Preview!DeletePreview, OpType, PreviewSteps, Preview!NoOp,
       Preview!None
  <1>3. op = Preview!NoOp /\ p \in rows
    BY <1>0, OpMoves, NoOpIs DEF Preview!DeletePreview, OpType, PreviewSteps, Preview!NoOp, Preview!None
  <1>4. routes' = routes \ {p} /\ op'.pc = "delete row" /\ op'.kind = "delete preview" /\ op'.preview = p
    BY <1>0, <1>3, OpMoves, NoOpIs DEF Preview!DeletePreview, OpType, PreviewSteps, Preview!NoOp,
       Preview!None
  <1>5. PreviewTyped'
    BY <1>0, <1>1, <1>2, <1>3, <1>4, NetIs DEF PreviewTyped
  <1>6. OpShape'
    BY <1>0, <1>1, <1>3, <1>4, NoOpIs DEF PreviewInv, OpShape
  <1>7. OpFits'
    BY <1>0, <1>1, <1>3, <1>4, NoOpIs DEF PreviewInv, OpShape, OpFits, Connecting
  <1>8. ~broken' => Routed'
    BY <1>0, <1>1, <1>3, <1>4, NoOpIs DEF PreviewInv, OpShape, OpFits, Connecting, Routed, Stopping,
       Pending
  <1>9. ~broken' /\ ~taken' => Linked'
    BY <1>0, <1>1, <1>3, <1>4, NoOpIs DEF PreviewInv, OpShape, OpFits, Connecting, Linked, Ends, Arriving
  <1> QED BY <1>5, <1>6, <1>7, <1>8, <1>9 DEF PreviewInv

LEMMA EnsureNetworkPreviewKeeps ==
  ASSUME PreviewInv, Preview!EnsureNetwork
  PROVE  PreviewInv'
  <1>0. PreviewTyped /\ op \in OpType /\ env \in EnvType /\ net \in NetType
    BY DEF PreviewInv, PreviewTyped
  <1>1. UNCHANGED <<env, rows, routes, attached, owner, sweep, gc, dark, taken, broken>>
    BY DEF Preview!history, Preview!EnsureNetwork, Preview!EnsureIngressNetwork, Preview!Refused, Preview!NoNet
  <1>2. op' \in OpType /\ env' \in EnvType /\ net' \in NetType
    BY <1>0, <1>1, OpMoves, NoOpIs, NetIs DEF Preview!EnsureNetwork, Preview!EnsureIngressNetwork,
       Preview!Refused, Preview!NoNet, PreviewSteps
  <1>3. op.pc = "network"
    BY <1>0, OpMoves, NoOpIs, NetIs DEF Preview!EnsureNetwork, Preview!EnsureIngressNetwork,
       Preview!Refused, Preview!NoNet, PreviewSteps
  <1>4. \/ /\ net'.on /\ (net.on => net' = net) /\ op'.pc = "traefik" /\ op'.kind = op.kind
           /\ op'.preview = op.preview
        \/ /\ net' = net /\ op'.pc = (IF op.kind = "create" THEN "undo row" ELSE "undo")
           /\ op'.kind = op.kind /\ op'.preview = op.preview
    BY <1>0, <1>3, OpMoves, NoOpIs, NetIs DEF Preview!EnsureNetwork, Preview!EnsureIngressNetwork,
       Preview!Refused, Preview!NoNet, PreviewSteps
  <1>5. PreviewTyped'
    BY <1>0, <1>1, <1>2, <1>3, <1>4, NetIs DEF PreviewTyped
  <1>6. OpShape'
    BY <1>0, <1>1, <1>3, <1>4, NoOpIs DEF PreviewInv, OpShape
  <1>7. OpFits'
    BY <1>0, <1>1, <1>3, <1>4, NoOpIs DEF PreviewInv, OpShape, OpFits, Connecting
  <1>8. ~broken' => Routed'
    BY <1>0, <1>1, <1>3, <1>4, NoOpIs DEF PreviewInv, OpShape, OpFits, Connecting, Routed, Stopping,
       Pending
  <1>9. ~broken' /\ ~taken' => Linked'
    BY <1>0, <1>1, <1>3, <1>4, NoOpIs DEF PreviewInv, OpShape, OpFits, Connecting, Linked, Ends, Arriving
  <1> QED BY <1>5, <1>6, <1>7, <1>8, <1>9 DEF PreviewInv

LEMMA EnsureTraefikPreviewKeeps ==
  ASSUME PreviewInv, Preview!EnsureTraefik
  PROVE  PreviewInv'
  <1>0. PreviewTyped /\ op \in OpType /\ env \in EnvType /\ net \in NetType
    BY DEF PreviewInv, PreviewTyped
  <1>1. UNCHANGED <<env, rows, routes, attached, owner, sweep, gc, dark, taken, broken>>
    BY DEF Preview!history, Preview!EnsureTraefik, Preview!ConnectTraefik, Preview!Refused
  <1>2. op' \in OpType /\ env' \in EnvType /\ net' \in NetType
    BY <1>0, <1>1, OpMoves, NoOpIs, NetIs DEF Preview!EnsureTraefik, Preview!ConnectTraefik,
       Preview!Refused, PreviewSteps
  <1>3. op.pc = "traefik"
    BY <1>0, OpMoves, NoOpIs, NetIs DEF Preview!EnsureTraefik, Preview!ConnectTraefik, Preview!Refused,
       PreviewSteps
  <1>4. \/ /\ net.on /\ net'.on /\ net'.traefik /\ op'.pc = "alias" /\ op'.kind = op.kind
           /\ op'.preview = op.preview
        \/ /\ net' = net /\ op'.pc = (IF op.kind = "create" THEN "undo row" ELSE "undo")
           /\ op'.kind = op.kind /\ op'.preview = op.preview
    BY <1>0, <1>3, OpMoves, NoOpIs, NetIs DEF Preview!EnsureTraefik, Preview!ConnectTraefik,
       Preview!Refused, PreviewSteps
  <1>5. PreviewTyped'
    BY <1>0, <1>1, <1>2, <1>3, <1>4, NetIs DEF PreviewTyped
  <1>6. OpShape'
    BY <1>0, <1>1, <1>3, <1>4, NoOpIs DEF PreviewInv, OpShape
  <1>7. OpFits'
    BY <1>0, <1>1, <1>3, <1>4, NoOpIs DEF PreviewInv, OpShape, OpFits, Connecting
  <1>8. ~broken' => Routed'
    BY <1>0, <1>1, <1>3, <1>4, NoOpIs DEF PreviewInv, OpShape, OpFits, Connecting, Routed, Stopping,
       Pending
  <1>9. ~broken' /\ ~taken' => Linked'
    BY <1>0, <1>1, <1>3, <1>4, NoOpIs DEF PreviewInv, OpShape, OpFits, Connecting, Linked, Ends, Arriving
  <1> QED BY <1>5, <1>6, <1>7, <1>8, <1>9 DEF PreviewInv

LEMMA EnsureAliasPreviewKeeps ==
  ASSUME PreviewInv, Preview!EnsureAlias
  PROVE  PreviewInv'
  <1>0. PreviewTyped /\ op \in OpType /\ env \in EnvType /\ net \in NetType
    BY DEF PreviewInv, PreviewTyped
  <1>1. UNCHANGED <<env, rows, routes, net, owner, sweep, gc, dark, taken, broken>>
    BY DEF Preview!history, Preview!EnsureAlias, Preview!CanConnect, Preview!ConnectNetworkAlias, Preview!Refused
  <1>2. op' \in OpType /\ env' \in EnvType /\ net' \in NetType
    BY <1>0, <1>1, OpMoves, NoOpIs DEF Preview!EnsureAlias, Preview!CanConnect,
       Preview!ConnectNetworkAlias, Preview!Refused, PreviewSteps
  <1>3. op.pc = "alias"
    BY <1>0, OpMoves, NoOpIs DEF Preview!EnsureAlias, Preview!CanConnect, Preview!ConnectNetworkAlias,
       Preview!Refused, PreviewSteps
  <1>4. \/ /\ attached' = "here" /\ op'.pc = (IF op.kind = "create" THEN "route" ELSE "restore")
           /\ op'.kind = op.kind /\ op'.preview = op.preview
        \/ /\ attached' = attached /\ op'.pc = (IF op.kind = "create" THEN "undo row" ELSE "undo")
           /\ op'.kind = op.kind /\ op'.preview = op.preview
    BY <1>0, <1>3, OpMoves, NoOpIs DEF Preview!EnsureAlias, Preview!CanConnect,
       Preview!ConnectNetworkAlias, Preview!Refused, PreviewSteps
  <1>5. PreviewTyped'
    BY <1>0, <1>1, <1>2, <1>3, <1>4, NetIs DEF PreviewTyped
  <1>6. OpShape'
    BY <1>0, <1>1, <1>3, <1>4, NoOpIs DEF PreviewInv, OpShape
  <1>7. OpFits'
    BY <1>0, <1>1, <1>3, <1>4, NoOpIs DEF PreviewInv, OpShape, OpFits, Connecting
  <1>8. ~broken' => Routed'
    BY <1>0, <1>1, <1>3, <1>4, NoOpIs DEF PreviewInv, OpShape, OpFits, Connecting, Routed, Stopping,
       Pending
  <1>9. ~broken' /\ ~taken' => Linked'
    BY <1>0, <1>1, <1>3, <1>4, NoOpIs DEF PreviewInv, OpShape, OpFits, Connecting, Linked, Ends, Arriving
  <1> QED BY <1>5, <1>6, <1>7, <1>8, <1>9 DEF PreviewInv

LEMMA WriteRoutePreviewKeeps ==
  ASSUME PreviewInv, Preview!WriteRoute
  PROVE  PreviewInv'
  <1>0. PreviewTyped /\ op \in OpType /\ env \in EnvType /\ net \in NetType
    BY DEF PreviewInv, PreviewTyped
  <1>1. UNCHANGED <<env, rows, net, attached, owner, sweep, gc, taken, broken>>
    BY DEF Preview!history, Preview!WriteRoute
  <1>2. op' \in OpType /\ env' \in EnvType /\ net' \in NetType
    BY <1>0, <1>1, OpMoves, NoOpIs DEF Preview!WriteRoute, PreviewSteps
  <1>3. op.pc = "route"
    BY <1>0, OpMoves, NoOpIs DEF Preview!WriteRoute, PreviewSteps
  <1>4. \/ routes' = routes \cup {op.preview} /\ dark' = dark \ {op.preview} /\ op' = Preview!NoOp
        \/ /\ routes' = routes /\ dark' = dark /\ op'.pc = "undo row" /\ op'.kind = op.kind
           /\ op'.preview = op.preview
    BY <1>0, <1>3, OpMoves, NoOpIs DEF Preview!WriteRoute, PreviewSteps
  <1>5. PreviewTyped'
    BY <1>0, <1>1, <1>2, <1>3, <1>4, NetIs DEF PreviewTyped, PreviewInv, OpShape, OpFits, Connecting
  <1>6. OpShape'
    BY <1>0, <1>1, <1>3, <1>4, NoOpIs DEF PreviewInv, OpShape
  <1>7. OpFits'
    BY <1>0, <1>1, <1>3, <1>4, NoOpIs DEF PreviewInv, OpShape, OpFits, Connecting
  <1>8. ~broken' => Routed'
    BY <1>0, <1>1, <1>3, <1>4, NoOpIs DEF PreviewInv, OpShape, OpFits, Connecting, Routed, Stopping,
       Pending
  <1>9. ~broken' /\ ~taken' => Linked'
    BY <1>0, <1>1, <1>3, <1>4, NoOpIs DEF PreviewInv, OpShape, OpFits, Connecting, Linked, Ends, Arriving
  <1> QED BY <1>5, <1>6, <1>7, <1>8, <1>9 DEF PreviewInv

LEMMA UndoRowPreviewKeeps ==
  ASSUME PreviewInv, Preview!UndoRow
  PROVE  PreviewInv'
  <1>0. PreviewTyped /\ op \in OpType /\ env \in EnvType /\ net \in NetType
    BY DEF PreviewInv, PreviewTyped
  <1>1. UNCHANGED <<env, routes, net, attached, owner, sweep, gc, dark, taken>>
    BY DEF Preview!history, Preview!UndoRow
  <1>2. op' \in OpType /\ env' \in EnvType /\ net' \in NetType
    BY <1>0, <1>1, OpMoves, NoOpIs DEF Preview!UndoRow, PreviewSteps
  <1>3. op.pc = "undo row"
    BY <1>0, OpMoves, NoOpIs DEF Preview!UndoRow, PreviewSteps
  <1>4. /\ op'.pc = "cleanup" /\ op'.kind = op.kind /\ op'.preview = op.preview
        /\ \/ rows' = rows \ {op.preview} /\ broken' = broken
           \/ rows' = rows /\ broken' = TRUE
    BY <1>0, <1>3, OpMoves, NoOpIs DEF Preview!UndoRow, PreviewSteps
  <1>5. PreviewTyped'
    BY <1>0, <1>1, <1>2, <1>3, <1>4, NetIs DEF PreviewTyped
  <1>6. OpShape'
    BY <1>0, <1>1, <1>3, <1>4, NoOpIs DEF PreviewInv, OpShape
  <1>7. OpFits'
    BY <1>0, <1>1, <1>3, <1>4, NoOpIs DEF PreviewInv, OpShape, OpFits, Connecting
  <1>8. ~broken' => Routed'
    BY <1>0, <1>1, <1>3, <1>4, NoOpIs DEF PreviewInv, OpShape, OpFits, Connecting, Routed, Stopping,
       Pending
  <1>9. ~broken' /\ ~taken' => Linked'
    BY <1>0, <1>1, <1>3, <1>4, NoOpIs DEF PreviewInv, OpShape, OpFits, Connecting, Linked, Ends, Arriving
  <1> QED BY <1>5, <1>6, <1>7, <1>8, <1>9 DEF PreviewInv

LEMMA CleanupUnusedPreviewIngressPreviewKeeps ==
  ASSUME PreviewInv, Preview!CleanupUnusedPreviewIngress
  PROVE  PreviewInv'
  <1>0. PreviewTyped /\ op \in OpType /\ env \in EnvType /\ net \in NetType
    BY DEF PreviewInv, PreviewTyped
  <1>1. UNCHANGED <<env, rows, routes, net, attached, owner, sweep, gc, dark, taken, broken>>
    BY DEF Preview!history, Preview!CleanupUnusedPreviewIngress
  <1>2. op' \in OpType /\ env' \in EnvType /\ net' \in NetType
    BY <1>0, <1>1, OpMoves, NoOpIs DEF Preview!CleanupUnusedPreviewIngress, PreviewSteps
  <1>3. op.pc = "cleanup"
    BY <1>0, OpMoves, NoOpIs DEF Preview!CleanupUnusedPreviewIngress, PreviewSteps
  <1>4. \/ rows = {} /\ op'.pc = "disconnect" /\ op'.kind = op.kind /\ op'.preview = op.preview
        \/ op' = Preview!NoOp
    BY <1>0, <1>3, OpMoves, NoOpIs DEF Preview!CleanupUnusedPreviewIngress, PreviewSteps
  <1>5. PreviewTyped'
    BY <1>0, <1>1, <1>2, <1>3, <1>4, NetIs DEF PreviewTyped
  <1>6. OpShape'
    BY <1>0, <1>1, <1>3, <1>4, NoOpIs DEF PreviewInv, OpShape
  <1>7. OpFits'
    BY <1>0, <1>1, <1>3, <1>4, NoOpIs DEF PreviewInv, OpShape, OpFits, Connecting
  <1>8. ~broken' => Routed'
    BY <1>0, <1>1, <1>3, <1>4, NoOpIs DEF PreviewInv, OpShape, OpFits, Connecting, Routed, Stopping,
       Pending
  <1>9. ~broken' /\ ~taken' => Linked'
    BY <1>0, <1>1, <1>3, <1>4, NoOpIs DEF PreviewInv, OpShape, OpFits, Connecting, Linked, Ends, Arriving, Routed
  <1> QED BY <1>5, <1>6, <1>7, <1>8, <1>9 DEF PreviewInv

LEMMA DisconnectPreviewKeeps ==
  ASSUME PreviewInv, Preview!Disconnect
  PROVE  PreviewInv'
  <1>0. PreviewTyped /\ op \in OpType /\ env \in EnvType /\ net \in NetType
    BY DEF PreviewInv, PreviewTyped
  <1>1. UNCHANGED <<env, rows, routes, owner, sweep, gc, dark, taken, broken>>
    BY DEF Preview!history, Preview!Disconnect, Preview!AfterNetwork, Preview!None
  <1>2. op' \in OpType /\ env' \in EnvType /\ net' \in NetType
    BY <1>0, <1>1, OpMoves, NoOpIs, NetIs DEF Preview!Disconnect, Preview!AfterNetwork, Preview!None,
       OpType, PreviewSteps, Preview!NoOp, Preview!None
  <1>3. op.pc = "disconnect" /\ op.kind \in {"none", "create", "delete preview", "start", "stop", "delete"}
    BY <1>0, OpMoves, NoOpIs, NetIs DEF Preview!Disconnect, Preview!AfterNetwork, Preview!None, OpType,
       PreviewSteps, Preview!NoOp, Preview!None
  <1>4. \/ /\ attached' = (IF attached = "here" THEN "none" ELSE attached) /\ net'.traefik = FALSE
           /\ net'.on = net.on /\ op'.pc = "remove" /\ op'.kind = op.kind /\ op'.preview = op.preview
        \/ /\ net' = net /\ attached' = attached
           /\ \/ /\ op.kind = "delete" /\ op'.pc = "delete env" /\ op'.kind = op.kind
                 /\ op'.preview = op.preview
              \/ op.kind # "delete" /\ op' = Preview!NoOp
    BY <1>0, <1>3, OpMoves, NoOpIs, NetIs DEF Preview!Disconnect, Preview!AfterNetwork, Preview!None,
       OpType, PreviewSteps, Preview!NoOp, Preview!None
  <1>5. PreviewTyped'
    BY <1>0, <1>1, <1>2, <1>3, <1>4, NetIs DEF PreviewTyped
  <1>6. OpShape'
    BY <1>0, <1>1, <1>3, <1>4, NoOpIs DEF PreviewInv, OpShape
  <1>7. OpFits'
    BY <1>0, <1>1, <1>3, <1>4, NoOpIs DEF PreviewInv, OpShape, OpFits, Connecting
  <1>8. ~broken' => Routed'
    BY <1>0, <1>1, <1>3, <1>4, NoOpIs DEF PreviewInv, OpShape, OpFits, Connecting, Routed, Stopping,
       Pending
  <1>9. ~broken' /\ ~taken' => Linked'
    BY <1>0, <1>1, <1>3, <1>4, NoOpIs DEF PreviewInv, OpShape, OpFits, Connecting, Linked, Ends, Arriving
  <1> QED BY <1>5, <1>6, <1>7, <1>8, <1>9 DEF PreviewInv

LEMMA RemoveIngressPreviewKeeps ==
  ASSUME PreviewInv, Preview!RemoveIngress
  PROVE  PreviewInv'
  <1>0. PreviewTyped /\ op \in OpType /\ env \in EnvType /\ net \in NetType
    BY DEF PreviewInv, PreviewTyped
  <1>1. UNCHANGED <<env, rows, routes, owner, sweep, gc, dark, taken, broken>>
    BY DEF Preview!history, Preview!RemoveIngress, Preview!AfterNetwork, Preview!RemoveNetwork, Preview!CanRemoveNetwork
  <1>2. op' \in OpType /\ env' \in EnvType /\ net' \in NetType
    BY <1>0, <1>1, OpMoves, NoOpIs, NetIs DEF Preview!RemoveIngress, Preview!AfterNetwork,
       Preview!RemoveNetwork, Preview!CanRemoveNetwork, PreviewSteps
  <1>3. op.pc = "remove"
    BY <1>0, OpMoves, NoOpIs, NetIs DEF Preview!RemoveIngress, Preview!AfterNetwork,
       Preview!RemoveNetwork, Preview!CanRemoveNetwork, PreviewSteps
  <1>4. \/ /\ net' = Preview!NoNet /\ attached' = (IF attached = "here" THEN "removed" ELSE attached)
           /\ \/ /\ op.kind = "delete" /\ op'.pc = "delete env" /\ op'.kind = op.kind
                 /\ op'.preview = op.preview
              \/ op.kind # "delete" /\ op' = Preview!NoOp
        \/ /\ net' = net /\ attached' = attached
           /\ \/ /\ op.kind = "delete" /\ op'.pc = "delete env" /\ op'.kind = op.kind
                 /\ op'.preview = op.preview
              \/ op.kind # "delete" /\ op' = Preview!NoOp
    BY <1>0, <1>3, OpMoves, NoOpIs, NetIs DEF Preview!RemoveIngress, Preview!AfterNetwork,
       Preview!RemoveNetwork, Preview!CanRemoveNetwork, PreviewSteps
  <1>5. PreviewTyped'
    BY <1>0, <1>1, <1>2, <1>3, <1>4, NetIs DEF PreviewTyped
  <1>6. OpShape'
    BY <1>0, <1>1, <1>3, <1>4, NoOpIs DEF PreviewInv, OpShape
  <1>7. OpFits'
    BY <1>0, <1>1, <1>3, <1>4, NoOpIs DEF PreviewInv, OpShape, OpFits, Connecting
  <1>8. ~broken' => Routed'
    BY <1>0, <1>1, <1>3, <1>4, NoOpIs DEF PreviewInv, OpShape, OpFits, Connecting, Routed, Stopping,
       Pending
  <1>9. ~broken' /\ ~taken' => Linked'
    BY <1>0, <1>1, <1>3, <1>4, NoOpIs DEF PreviewInv, OpShape, OpFits, Connecting, Linked, Ends, Arriving
  <1> QED BY <1>5, <1>6, <1>7, <1>8, <1>9 DEF PreviewInv

LEMMA DeleteRowPreviewKeeps ==
  ASSUME PreviewInv, Preview!DeleteRow
  PROVE  PreviewInv'
  <1>0. PreviewTyped /\ op \in OpType /\ env \in EnvType /\ net \in NetType
    BY DEF PreviewInv, PreviewTyped
  <1>1. UNCHANGED <<env, routes, net, attached, owner, sweep, gc, taken, broken>>
    BY DEF Preview!history, Preview!DeleteRow
  <1>2. op' \in OpType /\ env' \in EnvType /\ net' \in NetType
    BY <1>0, <1>1, OpMoves, NoOpIs DEF Preview!DeleteRow, PreviewSteps
  <1>3. op.pc = "delete row"
    BY <1>0, OpMoves, NoOpIs DEF Preview!DeleteRow, PreviewSteps
  <1>4. \/ /\ dark' = dark /\ rows' = rows \ {op.preview} /\ op'.pc = "cleanup" /\ op'.kind = op.kind
           /\ op'.preview = op.preview
        \/ rows' = rows /\ dark' = dark \cup {op.preview} /\ op' = Preview!NoOp
    BY <1>0, <1>3, OpMoves, NoOpIs DEF Preview!DeleteRow, PreviewSteps
  <1>5. PreviewTyped'
    BY <1>0, <1>1, <1>2, <1>3, <1>4, NetIs DEF PreviewTyped, PreviewInv, OpShape, OpFits, Connecting
  <1>6. OpShape'
    BY <1>0, <1>1, <1>3, <1>4, NoOpIs DEF PreviewInv, OpShape
  <1>7. OpFits'
    BY <1>0, <1>1, <1>3, <1>4, NoOpIs DEF PreviewInv, OpShape, OpFits, Connecting
  <1>8. ~broken' => Routed'
    BY <1>0, <1>1, <1>3, <1>4, NoOpIs DEF PreviewInv, OpShape, OpFits, Connecting, Routed, Stopping,
       Pending
  <1>9. ~broken' /\ ~taken' => Linked'
    BY <1>0, <1>1, <1>3, <1>4, NoOpIs DEF PreviewInv, OpShape, OpFits, Connecting, Linked, Ends, Arriving
  <1> QED BY <1>5, <1>6, <1>7, <1>8, <1>9 DEF PreviewInv

LEMMA DeletePreviewKeeps ==
  ASSUME PreviewInv, Preview!Delete
  PROVE  PreviewInv'
  <1>0. PreviewTyped /\ op \in OpType /\ env \in EnvType /\ net \in NetType
    BY DEF PreviewInv, PreviewTyped
  <1>1. UNCHANGED <<env, rows, net, attached, owner, sweep, gc, dark, taken, broken>>
    BY DEF Preview!history, Preview!Delete, Preview!CleanupPreviews
  <1>2. op' \in OpType /\ env' \in EnvType /\ net' \in NetType
    BY <1>0, <1>1, OpMoves, NoOpIs DEF Preview!Delete, Preview!CleanupPreviews, OpType, PreviewSteps,
       Preview!NoOp, Preview!None
  <1>3. op = Preview!NoOp
    BY <1>0, OpMoves, NoOpIs DEF Preview!Delete, Preview!CleanupPreviews, OpType, PreviewSteps,
       Preview!NoOp, Preview!None
  <1>4. routes' = routes \ rows /\ op'.pc = "container" /\ op'.kind = "delete"
    BY <1>0, <1>3, OpMoves, NoOpIs DEF Preview!Delete, Preview!CleanupPreviews, OpType, PreviewSteps,
       Preview!NoOp, Preview!None
  <1>5. PreviewTyped'
    BY <1>0, <1>1, <1>2, <1>3, <1>4, NetIs DEF PreviewTyped
  <1>6. OpShape'
    BY <1>0, <1>1, <1>3, <1>4, NoOpIs DEF PreviewInv, OpShape
  <1>7. OpFits'
    BY <1>0, <1>1, <1>3, <1>4, NoOpIs DEF PreviewInv, OpShape, OpFits, Connecting
  <1>8. ~broken' => Routed'
    BY <1>0, <1>1, <1>3, <1>4, NoOpIs DEF PreviewInv, OpShape, OpFits, Connecting, Routed, Stopping,
       Pending
  <1>9. ~broken' /\ ~taken' => Linked'
    BY <1>0, <1>1, <1>3, <1>4, NoOpIs DEF PreviewInv, OpShape, OpFits, Connecting, Linked, Ends, Arriving
  <1> QED BY <1>5, <1>6, <1>7, <1>8, <1>9 DEF PreviewInv

LEMMA DeleteContainerPreviewKeeps ==
  ASSUME PreviewInv, Preview!DeleteContainer
  PROVE  PreviewInv'
  <1>0. PreviewTyped /\ op \in OpType /\ env \in EnvType /\ net \in NetType
    BY DEF PreviewInv, PreviewTyped
  <1>1. UNCHANGED <<rows, routes, net, owner, sweep, gc, dark, taken, broken>>
    BY DEF Preview!history, Preview!DeleteContainer, Preview!None
  <1>2. op' \in OpType /\ env' \in EnvType /\ net' \in NetType
    BY <1>0, <1>1, OpMoves, NoOpIs, EnvIs DEF Preview!DeleteContainer, Preview!None, PreviewSteps, EnvType
  <1>3. /\ op.pc = "container" /\ op.kind = "delete" /\ op'.pc \in {"disconnect", "delete env"}
        /\ op'.kind = op.kind /\ op'.preview = op.preview
    BY <1>0, OpMoves, NoOpIs, EnvIs DEF Preview!DeleteContainer, Preview!None, PreviewSteps, EnvType
  <1>4. \/ env'.container = "gone" /\ env'.status = env.status /\ attached' = "none"
        \/ env' = env /\ attached' = attached
    BY <1>0, <1>3, OpMoves, NoOpIs, EnvIs DEF Preview!DeleteContainer, Preview!None, PreviewSteps, EnvType
  <1>5. PreviewTyped'
    BY <1>0, <1>1, <1>2, <1>3, <1>4, NetIs DEF PreviewTyped
  <1>6. OpShape'
    BY <1>0, <1>1, <1>3, <1>4, NoOpIs DEF PreviewInv, OpShape
  <1>7. OpFits'
    BY <1>0, <1>1, <1>3, <1>4, NoOpIs DEF PreviewInv, OpShape, OpFits, Connecting
  <1>8. ~broken' => Routed'
    BY <1>0, <1>1, <1>3, <1>4, NoOpIs DEF PreviewInv, OpShape, OpFits, Connecting, Routed, Stopping,
       Pending
  <1>9. ~broken' /\ ~taken' => Linked'
    BY <1>0, <1>1, <1>3, <1>4, NoOpIs DEF PreviewInv, OpShape, OpFits, Connecting, Linked, Ends, Arriving
  <1> QED BY <1>5, <1>6, <1>7, <1>8, <1>9 DEF PreviewInv

LEMMA DeleteEnvironmentPreviewKeeps ==
  ASSUME PreviewInv, Preview!DeleteEnvironment
  PROVE  PreviewInv'
  <1>0. PreviewTyped /\ op \in OpType /\ env \in EnvType /\ net \in NetType
    BY DEF PreviewInv, PreviewTyped
  <1>1. UNCHANGED <<routes, net, attached, owner, sweep, gc, dark, taken>>
    BY DEF Preview!history, Preview!DeleteEnvironment
  <1>2. op' \in OpType /\ env' \in EnvType /\ net' \in NetType
    BY <1>0, <1>1, OpMoves, NoOpIs, EnvIs DEF Preview!DeleteEnvironment, PreviewSteps, EnvType
  <1>3. op.pc = "delete env" /\ op' = Preview!NoOp
    BY <1>0, OpMoves, NoOpIs, EnvIs DEF Preview!DeleteEnvironment, PreviewSteps, EnvType
  <1>4. \/ env'.status = "gone" /\ env'.container = env.container /\ rows' = {} /\ broken' = broken
        \/ env' = env /\ rows' = rows /\ broken'
    BY <1>0, <1>3, OpMoves, NoOpIs, EnvIs DEF Preview!DeleteEnvironment, PreviewSteps, EnvType
  <1>5. PreviewTyped'
    BY <1>0, <1>1, <1>2, <1>3, <1>4, NetIs DEF PreviewTyped
  <1>6. OpShape'
    BY <1>0, <1>1, <1>3, <1>4, NoOpIs DEF PreviewInv, OpShape
  <1>7. OpFits'
    BY <1>0, <1>1, <1>3, <1>4, NoOpIs DEF PreviewInv, OpShape, OpFits, Connecting
  <1>8. ~broken' => Routed'
    BY <1>0, <1>1, <1>3, <1>4, NoOpIs DEF PreviewInv, OpShape, OpFits, Connecting, Routed, Stopping,
       Pending
  <1>9. ~broken' /\ ~taken' => Linked'
    BY <1>0, <1>1, <1>3, <1>4, NoOpIs DEF PreviewInv, OpShape, OpFits, Connecting, Linked, Ends, Arriving
  <1> QED BY <1>5, <1>6, <1>7, <1>8, <1>9 DEF PreviewInv

LEMMA StopPreviewKeeps ==
  ASSUME PreviewInv, Preview!Stop
  PROVE  PreviewInv'
  <1>0. PreviewTyped /\ op \in OpType /\ env \in EnvType /\ net \in NetType
    BY DEF PreviewInv, PreviewTyped
  <1>1. UNCHANGED <<rows, routes, net, attached, owner, sweep, gc, dark, taken, broken>>
    BY DEF Preview!history, Preview!Stop
  <1>2. op' \in OpType /\ env' \in EnvType /\ net' \in NetType
    BY <1>0, <1>1, OpMoves, NoOpIs, EnvIs DEF Preview!Stop, OpType, PreviewSteps, Preview!NoOp,
       Preview!None, EnvType
  <1>3. op = Preview!NoOp /\ env.status = "running"
    BY <1>0, OpMoves, NoOpIs, EnvIs DEF Preview!Stop, OpType, PreviewSteps, Preview!NoOp, Preview!None,
       EnvType
  <1>4. \/ /\ env'.container = (IF env.container = "gone" THEN "gone" ELSE "stopped")
           /\ env'.status = env.status /\ op'.pc = "status" /\ op'.kind = "stop"
        \/ env' = env /\ op' = op
    <2>1. \/ /\ env' = [env EXCEPT !.container = (IF env.container = "gone" THEN "gone" ELSE "stopped")]
             /\ op' = [Preview!NoOp EXCEPT !.pc = "status", !.kind = "stop"]
          \/ env' = env /\ op' = op
      BY DEF Preview!Stop
    <2>2. (IF env.container = "gone" THEN "gone" ELSE "stopped") \in {"running", "stopped", "gone"}
      BY <1>0 DEF EnvType
    <2>3. LET o == [Preview!NoOp EXCEPT !.pc = "status", !.kind = "stop"]
          IN  o.pc = "status" /\ o.kind = "stop"
      BY DEF Preview!NoOp
    <2> QED BY <1>0, <2>1, <2>2, <2>3, EnvIs
  <1>5. PreviewTyped'
    BY <1>0, <1>1, <1>2, <1>3, <1>4, NetIs DEF PreviewTyped
  <1>6. OpShape'
    BY <1>0, <1>1, <1>3, <1>4, NoOpIs DEF PreviewInv, OpShape
  <1>7. OpFits'
    BY <1>0, <1>1, <1>3, <1>4, NoOpIs DEF PreviewInv, OpShape, OpFits, Connecting
  <1>8. ~broken' => Routed'
    BY <1>0, <1>1, <1>3, <1>4, NoOpIs DEF PreviewInv, OpShape, OpFits, Connecting, Routed, Stopping,
       Pending
  <1>9. ~broken' /\ ~taken' => Linked'
    BY <1>0, <1>1, <1>3, <1>4, NoOpIs DEF PreviewInv, OpShape, OpFits, Connecting, Linked, Ends, Arriving
  <1> QED BY <1>5, <1>6, <1>7, <1>8, <1>9 DEF PreviewInv

LEMMA StopStatusPreviewKeeps ==
  ASSUME PreviewInv, Preview!StopStatus
  PROVE  PreviewInv'
  <1>0. PreviewTyped /\ op \in OpType /\ env \in EnvType /\ net \in NetType
    BY DEF PreviewInv, PreviewTyped
  <1>1. UNCHANGED <<rows, routes, net, attached, owner, sweep, gc, dark, taken, broken>>
    BY DEF Preview!history, Preview!StopStatus
  <1>2. op' \in OpType /\ env' \in EnvType /\ net' \in NetType
    BY <1>0, <1>1, OpMoves, NoOpIs, EnvIs DEF Preview!StopStatus, PreviewSteps, EnvType
  <1>3. op.pc = "status" /\ op' = Preview!NoOp
    BY <1>0, OpMoves, NoOpIs, EnvIs DEF Preview!StopStatus, PreviewSteps, EnvType
  <1>4. \/ env'.status = "stopped" /\ env'.container = env.container
        \/ env' = env
    BY <1>0, <1>3, OpMoves, NoOpIs, EnvIs DEF Preview!StopStatus, PreviewSteps, EnvType
  <1>5. PreviewTyped'
    BY <1>0, <1>1, <1>2, <1>3, <1>4, NetIs DEF PreviewTyped
  <1>6. OpShape'
    BY <1>0, <1>1, <1>3, <1>4, NoOpIs DEF PreviewInv, OpShape
  <1>7. OpFits'
    BY <1>0, <1>1, <1>3, <1>4, NoOpIs DEF PreviewInv, OpShape, OpFits, Connecting
  <1>8. ~broken' => Routed'
    BY <1>0, <1>1, <1>3, <1>4, NoOpIs DEF PreviewInv, OpShape, OpFits, Connecting, Routed, Stopping,
       Pending
  <1>9. ~broken' /\ ~taken' => Linked'
    BY <1>0, <1>1, <1>3, <1>4, NoOpIs DEF PreviewInv, OpShape, OpFits, Connecting, Linked, Ends, Arriving
  <1> QED BY <1>5, <1>6, <1>7, <1>8, <1>9 DEF PreviewInv

LEMMA StartPreviewKeeps ==
  ASSUME PreviewInv, Preview!Start
  PROVE  PreviewInv'
  <1>0. PreviewTyped /\ op \in OpType /\ env \in EnvType /\ net \in NetType
    BY DEF PreviewInv, PreviewTyped
  <1>1. UNCHANGED <<env, rows, routes, net, attached, owner, sweep, gc, dark, taken, broken>>
    BY DEF Preview!history, Preview!Start
  <1>2. op' \in OpType /\ env' \in EnvType /\ net' \in NetType
    BY <1>0, <1>1, OpMoves, NoOpIs DEF Preview!Start, OpType, PreviewSteps, Preview!NoOp, Preview!None
  <1>3. op = Preview!NoOp /\ env.status = "stopped" /\ owner = "active"
    BY <1>0, OpMoves, NoOpIs DEF Preview!Start, OpType, PreviewSteps, Preview!NoOp, Preview!None
  <1>4. op'.pc = "container" /\ op'.kind = "start"
    BY <1>0, <1>3, OpMoves, NoOpIs DEF Preview!Start, OpType, PreviewSteps, Preview!NoOp, Preview!None
  <1>5. PreviewTyped'
    BY <1>0, <1>1, <1>2, <1>3, <1>4, NetIs DEF PreviewTyped
  <1>6. OpShape'
    BY <1>0, <1>1, <1>3, <1>4, NoOpIs DEF PreviewInv, OpShape
  <1>7. OpFits'
    BY <1>0, <1>1, <1>3, <1>4, NoOpIs DEF PreviewInv, OpShape, OpFits, Connecting
  <1>8. ~broken' => Routed'
    BY <1>0, <1>1, <1>3, <1>4, NoOpIs DEF PreviewInv, OpShape, OpFits, Connecting, Routed, Stopping,
       Pending
  <1>9. ~broken' /\ ~taken' => Linked'
    BY <1>0, <1>1, <1>3, <1>4, NoOpIs DEF PreviewInv, OpShape, OpFits, Connecting, Linked, Ends, Arriving
  <1> QED BY <1>5, <1>6, <1>7, <1>8, <1>9 DEF PreviewInv

LEMMA StartContainerPreviewKeeps ==
  ASSUME PreviewInv, Preview!StartContainer
  PROVE  PreviewInv'
  <1>0. PreviewTyped /\ op \in OpType /\ env \in EnvType /\ net \in NetType
    BY DEF PreviewInv, PreviewTyped
  <1>1. UNCHANGED <<rows, routes, net, attached, owner, sweep, gc, dark, taken, broken>>
    BY DEF Preview!history, Preview!StartContainer
  <1>2. op' \in OpType /\ env' \in EnvType /\ net' \in NetType
    BY <1>0, <1>1, OpMoves, NoOpIs, EnvIs DEF Preview!StartContainer, OpType, PreviewSteps,
       Preview!NoOp, Preview!None, EnvType
  <1>3. op.pc = "container" /\ op.kind = "start"
    BY <1>0, OpMoves, NoOpIs, EnvIs DEF Preview!StartContainer, OpType, PreviewSteps, Preview!NoOp,
       Preview!None, EnvType
  <1>4. \/ /\ env'.container = "running" /\ env'.status = env.status
           /\ op'.pc = (IF rows # {} THEN "network" ELSE "commit") /\ op'.kind = op.kind
           /\ op'.preview = op.preview
        \/ env' = env /\ op' = Preview!NoOp
    <2> DEFINE o == [op EXCEPT !.pc = IF rows # {} THEN "network" ELSE "commit", !.recreated = env.container = "gone"]
    <2>1. \/ env' = [env EXCEPT !.container = "running"] /\ op' = o
          \/ env' = env /\ Preview!Done
      BY DEF Preview!StartContainer
    <2>2. /\ o.pc = (IF rows # {} THEN "network" ELSE "commit")
          /\ o.kind = op.kind /\ o.preview = op.preview
      BY <1>0 DEF OpType
    <2> HIDE DEF o
    <2> QED BY <1>0, <2>1, <2>2, OpMoves, EnvIs
  <1>5. PreviewTyped'
    BY <1>0, <1>1, <1>2, <1>3, <1>4, NetIs DEF PreviewTyped
  <1>6. OpShape'
    BY <1>0, <1>1, <1>3, <1>4, NoOpIs DEF PreviewInv, OpShape
  <1>7. OpFits'
    BY <1>0, <1>1, <1>3, <1>4, NoOpIs DEF PreviewInv, OpShape, OpFits, Connecting
  <1>8. ~broken' => Routed'
    BY <1>0, <1>1, <1>3, <1>4, NoOpIs DEF PreviewInv, OpShape, OpFits, Connecting, Routed, Stopping,
       Pending
  <1>9. ~broken' /\ ~taken' => Linked'
    BY <1>0, <1>1, <1>3, <1>4, NoOpIs DEF PreviewInv, OpShape, OpFits, Connecting, Linked, Ends, Arriving
  <1> QED BY <1>5, <1>6, <1>7, <1>8, <1>9 DEF PreviewInv

LEMMA RestorePreviewsPreviewKeeps ==
  ASSUME PreviewInv, Preview!RestorePreviews
  PROVE  PreviewInv'
  <1>0. PreviewTyped /\ op \in OpType /\ env \in EnvType /\ net \in NetType
    BY DEF PreviewInv, PreviewTyped
  <1>1. UNCHANGED <<env, rows, net, attached, owner, sweep, gc, taken, broken>>
    BY DEF Preview!history, Preview!RestorePreviews
  <1>2. op' \in OpType /\ env' \in EnvType /\ net' \in NetType
    BY <1>0, <1>1, OpMoves, NoOpIs DEF Preview!RestorePreviews, PreviewSteps
  <1>3. op.pc = "restore"
    BY <1>0, OpMoves, NoOpIs DEF Preview!RestorePreviews, PreviewSteps
  <1>4. \/ /\ routes' = routes \cup rows /\ dark' = dark \ rows /\ op'.pc = "commit"
           /\ op'.kind = op.kind /\ op'.preview = op.preview
        \/ /\ routes \subseteq routes' /\ routes' \subseteq routes \cup rows /\ dark' = dark
           /\ op'.pc = "undo routes"
           /\ op'.kind = op.kind /\ op'.preview = op.preview
    BY <1>0, <1>3, OpMoves, NoOpIs DEF Preview!RestorePreviews, PreviewSteps
  <1>5. PreviewTyped'
    BY <1>0, <1>1, <1>2, <1>3, <1>4, NetIs DEF PreviewTyped
  <1>6. OpShape'
    BY <1>0, <1>1, <1>3, <1>4, NoOpIs DEF PreviewInv, OpShape
  <1>7. OpFits'
    BY <1>0, <1>1, <1>3, <1>4, NoOpIs DEF PreviewInv, OpShape, OpFits, Connecting
  <1>8. ~broken' => Routed'
    BY <1>0, <1>1, <1>3, <1>4, NoOpIs DEF PreviewInv, OpShape, OpFits, Connecting, Routed, Stopping,
       Pending
  <1>9. ~broken' /\ ~taken' => Linked'
    BY <1>0, <1>1, <1>3, <1>4, NoOpIs DEF PreviewInv, OpShape, OpFits, Connecting, Linked, Ends, Arriving
  <1> QED BY <1>5, <1>6, <1>7, <1>8, <1>9 DEF PreviewInv

LEMMA CommitStartPreviewKeeps ==
  ASSUME PreviewInv, Preview!CommitStart
  PROVE  PreviewInv'
  <1>0. PreviewTyped /\ op \in OpType /\ env \in EnvType /\ net \in NetType
    BY DEF PreviewInv, PreviewTyped
  <1>1. UNCHANGED <<rows, routes, net, attached, owner, sweep, gc, dark, taken, broken>>
    BY DEF Preview!history, Preview!CommitStart
  <1>2. op' \in OpType /\ env' \in EnvType /\ net' \in NetType
    BY <1>0, <1>1, OpMoves, NoOpIs, EnvIs DEF Preview!CommitStart, PreviewSteps, EnvType
  <1>3. op.pc = "commit"
    BY <1>0, OpMoves, NoOpIs, EnvIs DEF Preview!CommitStart, PreviewSteps, EnvType
  <1>4. \/ /\ owner = "active" /\ env'.status = "running" /\ env'.container = env.container
           /\ op' = Preview!NoOp
        \/ env' = env /\ op'.pc \in {"undo routes", "undo"} /\ op'.kind = op.kind /\ op'.preview = op.preview
    BY <1>0, <1>3, OpMoves, NoOpIs, EnvIs DEF Preview!CommitStart, PreviewSteps, EnvType
  <1>5. PreviewTyped'
    BY <1>0, <1>1, <1>2, <1>3, <1>4, NetIs DEF PreviewTyped
  <1>6. OpShape'
    BY <1>0, <1>1, <1>3, <1>4, NoOpIs DEF PreviewInv, OpShape
  <1>7. OpFits'
    BY <1>0, <1>1, <1>3, <1>4, NoOpIs DEF PreviewInv, OpShape, OpFits, Connecting
  <1>8. ~broken' => Routed'
    BY <1>0, <1>1, <1>3, <1>4, NoOpIs DEF PreviewInv, OpShape, OpFits, Connecting, Routed, Stopping,
       Pending
  <1>9. ~broken' /\ ~taken' => Linked'
    BY <1>0, <1>1, <1>3, <1>4, NoOpIs DEF PreviewInv, OpShape, OpFits, Connecting, Linked, Ends, Arriving
  <1> QED BY <1>5, <1>6, <1>7, <1>8, <1>9 DEF PreviewInv

LEMMA UndoRoutesPreviewKeeps ==
  ASSUME PreviewInv, Preview!UndoRoutes
  PROVE  PreviewInv'
  <1>0. PreviewTyped /\ op \in OpType /\ env \in EnvType /\ net \in NetType
    BY DEF PreviewInv, PreviewTyped
  <1>1. UNCHANGED <<env, rows, net, attached, owner, sweep, gc, dark, taken, broken>>
    BY DEF Preview!history, Preview!UndoRoutes
  <1>2. op' \in OpType /\ env' \in EnvType /\ net' \in NetType
    BY <1>0, <1>1, OpMoves DEF Preview!UndoRoutes, PreviewSteps
  <1>3. op.pc = "undo routes" /\ routes' = routes \ rows
    BY DEF Preview!UndoRoutes, Preview!CleanupPreviews
  <1>4. op'.pc = "undo" /\ op'.kind = op.kind /\ op'.preview = op.preview
    BY <1>0, OpMoves DEF Preview!UndoRoutes, PreviewSteps
  <1>5. PreviewTyped'
    BY <1>0, <1>1, <1>2, <1>3, <1>4, NetIs DEF PreviewTyped
  <1>6. OpShape'
    BY <1>0, <1>1, <1>3, <1>4, NoOpIs DEF PreviewInv, OpShape
  <1>7. OpFits'
    BY <1>0, <1>1, <1>3, <1>4, NoOpIs DEF PreviewInv, OpShape, OpFits, Connecting
  <1>8. ~broken' => Routed'
    BY <1>0, <1>1, <1>3, <1>4, NoOpIs DEF PreviewInv, OpShape, OpFits, Connecting, Routed, Stopping,
       Pending
  <1>9. ~broken' /\ ~taken' => Linked'
    BY <1>0, <1>1, <1>3, <1>4, NoOpIs DEF PreviewInv, OpShape, OpFits, Connecting, Linked, Ends, Arriving
  <1> QED BY <1>5, <1>6, <1>7, <1>8, <1>9 DEF PreviewInv

LEMMA UndoStartPreviewKeeps ==
  ASSUME PreviewInv, Preview!UndoStart
  PROVE  PreviewInv'
  <1>0. PreviewTyped /\ op \in OpType /\ env \in EnvType /\ net \in NetType
    BY DEF PreviewInv, PreviewTyped
  <1>1. UNCHANGED <<rows, routes, net, owner, sweep, gc, dark, taken, broken>>
    BY DEF Preview!history, Preview!UndoStart, Preview!None
  <1>2. op' \in OpType /\ env' \in EnvType /\ net' \in NetType
    BY <1>0, <1>1, OpMoves, NoOpIs, EnvIs DEF Preview!UndoStart, Preview!None,
       PreviewSteps, EnvType
  <1>3. /\ op.pc = "undo" /\ env'.status = env.status /\ attached' \in {attached, "none"}
    BY <1>0, OpMoves, NoOpIs, EnvIs DEF Preview!UndoStart, Preview!None,
       PreviewSteps, EnvType
  <1>4. \/ op'.pc = "disconnect" /\ op'.kind = op.kind /\ op'.preview = op.preview
        \/ op' = Preview!NoOp
    BY <1>0, <1>3, OpMoves, NoOpIs, EnvIs DEF Preview!UndoStart, Preview!None,
       PreviewSteps, EnvType
  <1>5. PreviewTyped'
    BY <1>0, <1>1, <1>2, <1>3, <1>4, NetIs DEF PreviewTyped
  <1>6. OpShape'
    BY <1>0, <1>1, <1>3, <1>4, NoOpIs DEF PreviewInv, OpShape
  <1>7. OpFits'
    BY <1>0, <1>1, <1>3, <1>4, NoOpIs DEF PreviewInv, OpShape, OpFits, Connecting
  <1>8. ~broken' => Routed'
    BY <1>0, <1>1, <1>3, <1>4, NoOpIs DEF PreviewInv, OpShape, OpFits, Connecting, Routed, Stopping,
       Pending
  <1>9. ~broken' /\ ~taken' => Linked'
    BY <1>0, <1>1, <1>3, <1>4, NoOpIs DEF PreviewInv, OpShape, OpFits, Connecting, Linked, Ends, Arriving
  <1> QED BY <1>5, <1>6, <1>7, <1>8, <1>9 DEF PreviewInv

LEMMA SuspendPreviewKeeps ==
  ASSUME PreviewInv, NEW i \in 1..MaxSuspensions, Preview!Suspend(i)
  PROVE  PreviewInv'
  <1>0. PreviewTyped /\ op \in OpType /\ env \in EnvType /\ net \in NetType /\ sweep \in SweepType
    BY DEF PreviewInv, PreviewTyped
  <1>1. UNCHANGED <<env, rows, routes, net, attached, op, gc, dark, taken, broken>>
    BY DEF Preview!history, Preview!Suspend
  <1>2. op' \in OpType /\ env' \in EnvType /\ net' \in NetType /\ sweep' \in SweepType
    BY <1>0, <1>1, SweepMoves DEF Preview!Suspend, Preview!SweepTo, SweepSteps
  <1>3. owner' = "suspended" /\ sweep[i].pc = "none"
    BY DEF Preview!Suspend, Preview!NoSweep, Preview!None
  <1>4. \A j \in 1..MaxSuspensions \ {i} : sweep'[j] = sweep[j]
    BY <1>0, SweepMoves DEF Preview!Suspend, Preview!SweepTo, SweepSteps
  <1>5. PreviewTyped'
    BY <1>0, <1>1, <1>2, <1>3, <1>4, NetIs DEF PreviewTyped
  <1>6. OpShape'
    BY <1>0, <1>1, <1>3, <1>4, NoOpIs DEF PreviewInv, OpShape
  <1>7. OpFits'
    BY <1>0, <1>1, <1>3, <1>4, NoOpIs DEF PreviewInv, OpShape, OpFits, Connecting
  <1>8. ~broken' => Routed'
    BY <1>0, <1>1, <1>3, <1>4, NoOpIs DEF PreviewInv, OpShape, OpFits, Connecting, Routed, Stopping,
       Pending
  <1>9. ~broken' /\ ~taken' => Linked'
    BY <1>0, <1>1, <1>3, <1>4, NoOpIs DEF PreviewInv, OpShape, OpFits, Connecting, Linked, Ends, Arriving
  <1> QED BY <1>5, <1>6, <1>7, <1>8, <1>9 DEF PreviewInv

LEMMA ReactivatePreviewKeeps ==
  ASSUME PreviewInv, Preview!Reactivate
  PROVE  PreviewInv'
  <1>0. PreviewTyped /\ op \in OpType /\ env \in EnvType /\ net \in NetType
    BY DEF PreviewInv, PreviewTyped
  <1>1. UNCHANGED <<env, rows, routes, net, attached, op, sweep, gc, dark, taken, broken>>
    BY DEF Preview!history, Preview!Reactivate, Preview!None
  <1>2. op' \in OpType /\ env' \in EnvType /\ net' \in NetType
    BY <1>0, <1>1 DEF Preview!Reactivate, Preview!None
  <1>3. owner = "suspended"
    BY <1>0 DEF Preview!Reactivate, Preview!None
  <1>4. owner' = "active"
    BY <1>0, <1>3 DEF Preview!Reactivate, Preview!None
  <1>5. PreviewTyped'
    BY <1>0, <1>1, <1>2, <1>3, <1>4, NetIs DEF PreviewTyped
  <1>6. OpShape'
    BY <1>0, <1>1, <1>3, <1>4, NoOpIs DEF PreviewInv, OpShape
  <1>7. OpFits'
    BY <1>0, <1>1, <1>3, <1>4, NoOpIs DEF PreviewInv, OpShape, OpFits, Connecting
  <1>8. ~broken' => Routed'
    BY <1>0, <1>1, <1>3, <1>4, NoOpIs DEF PreviewInv, OpShape, OpFits, Connecting, Routed, Stopping,
       Pending
  <1>9. ~broken' /\ ~taken' => Linked'
    BY <1>0, <1>1, <1>3, <1>4, NoOpIs DEF PreviewInv, OpShape, OpFits, Connecting, Linked, Ends, Arriving
  <1> QED BY <1>5, <1>6, <1>7, <1>8, <1>9 DEF PreviewInv

LEMMA SweepSelectPreviewKeeps ==
  ASSUME PreviewInv, NEW i \in 1..MaxSuspensions, Preview!SweepSelect(i)
  PROVE  PreviewInv'
  <1>0. PreviewTyped /\ op \in OpType /\ env \in EnvType /\ net \in NetType /\ sweep \in SweepType
    BY DEF PreviewInv, PreviewTyped
  <1>1. UNCHANGED <<env, rows, routes, net, attached, op, owner, gc, dark, taken, broken>>
    BY DEF Preview!history, Preview!SweepSelect
  <1>2. op' \in OpType /\ env' \in EnvType /\ net' \in NetType /\ sweep' \in SweepType
    BY <1>0, <1>1, SweepMoves, EnvIs DEF Preview!SweepSelect, SweepSteps, EnvType
  <1>3. sweep[i].pc = "select"
    BY <1>0, <1>1, SweepMoves DEF Preview!SweepSelect, SweepSteps
  <1>4. \A j \in 1..MaxSuspensions \ {i} : sweep'[j] = sweep[j]
    BY <1>0, <1>1, <1>3, SweepMoves, EnvIs DEF Preview!SweepSelect, SweepSteps, EnvType
  <1>5. PreviewTyped'
    BY <1>0, <1>1, <1>2, <1>3, <1>4, NetIs DEF PreviewTyped
  <1>6. OpShape'
    BY <1>0, <1>1, <1>3, <1>4, NoOpIs DEF PreviewInv, OpShape
  <1>7. OpFits'
    BY <1>0, <1>1, <1>3, <1>4, NoOpIs DEF PreviewInv, OpShape, OpFits, Connecting
  <1>8. ~broken' => Routed'
    BY <1>0, <1>1, <1>3, <1>4, NoOpIs DEF PreviewInv, OpShape, OpFits, Connecting, Routed, Stopping,
       Pending
  <1>9. ~broken' /\ ~taken' => Linked'
    BY <1>0, <1>1, <1>3, <1>4, NoOpIs DEF PreviewInv, OpShape, OpFits, Connecting, Linked, Ends, Arriving
  <1> QED BY <1>5, <1>6, <1>7, <1>8, <1>9 DEF PreviewInv

LEMMA SweepRoutesPreviewKeeps ==
  ASSUME PreviewInv, NEW i \in 1..MaxSuspensions, Preview!SweepRoutes(i)
  PROVE  PreviewInv'
  <1>0. PreviewTyped /\ op \in OpType /\ env \in EnvType /\ net \in NetType /\ sweep \in SweepType
    BY DEF PreviewInv, PreviewTyped
  <1>1. UNCHANGED <<env, rows, net, attached, op, owner, gc, taken, broken>>
    BY DEF Preview!history, Preview!SweepRoutes
  <1>2. op' \in OpType /\ env' \in EnvType /\ net' \in NetType /\ sweep' \in SweepType
    BY <1>0, <1>1, SweepMoves, EnvIs DEF Preview!SweepRoutes, Preview!CleanupPreviews, Preview!Started, SweepSteps, EnvType
  <1>3. routes' = routes \ rows /\ \A j \in 1..MaxSuspensions \ {i} : sweep'[j] = sweep[j]
    BY <1>0, <1>1, SweepMoves DEF Preview!SweepRoutes, Preview!CleanupPreviews, Preview!Started, SweepSteps
  <1>4. \/ sweep'[i].pc = "stop" /\ dark' = dark
        \/ /\ sweep[i].pc = "listed stopped"
           /\ dark' = (IF env.status = "running" \/ op.kind = "start" THEN dark \cup rows ELSE dark)
    BY <1>0, <1>1, <1>3, SweepMoves, EnvIs DEF Preview!SweepRoutes, Preview!CleanupPreviews, Preview!Started, SweepSteps, EnvType
  <1>5. PreviewTyped'
    BY <1>0, <1>1, <1>2, <1>3, <1>4, NetIs DEF PreviewTyped
  <1>6. OpShape'
    BY <1>0, <1>1, <1>3, <1>4, NoOpIs DEF PreviewInv, OpShape
  <1>7. OpFits'
    BY <1>0, <1>1, <1>3, <1>4, NoOpIs DEF PreviewInv, OpShape, OpFits, Connecting
  <1>8. ~broken' => Routed'
    BY <1>0, <1>1, <1>3, <1>4, NoOpIs DEF PreviewInv, OpShape, OpFits, Connecting, Routed, Stopping,
       Pending
  <1>9. ~broken' /\ ~taken' => Linked'
    BY <1>0, <1>1, <1>3, <1>4, NoOpIs DEF PreviewInv, OpShape, OpFits, Connecting, Linked, Ends, Arriving
  <1> QED BY <1>5, <1>6, <1>7, <1>8, <1>9 DEF PreviewInv

LEMMA SweepStopPreviewKeeps ==
  ASSUME PreviewInv, NEW i \in 1..MaxSuspensions, Preview!SweepStop(i)
  PROVE  PreviewInv'
  <1>0. PreviewTyped /\ op \in OpType /\ env \in EnvType /\ net \in NetType /\ sweep \in SweepType
    BY DEF PreviewInv, PreviewTyped
  <1>1. UNCHANGED <<rows, routes, net, attached, op, owner, gc, taken, broken>>
    BY DEF Preview!history, Preview!SweepStop
  <1>2. op' \in OpType /\ env' \in EnvType /\ net' \in NetType /\ sweep' \in SweepType
    BY <1>0, <1>1, SweepMoves, EnvIs DEF Preview!SweepStop, SweepSteps, EnvType
  <1>3. \A j \in 1..MaxSuspensions \ {i} : sweep'[j] = sweep[j]
    BY <1>0, <1>1, SweepMoves DEF Preview!SweepStop, SweepSteps
  <1>4. \/ /\ dark' = dark /\ env'.status = env.status
           /\ env'.container = (IF env.container = "gone" THEN "gone" ELSE "stopped")
        \/ env' = env /\ dark' = dark \cup rows
    <2>1. \/ /\ dark' = dark
             /\ env' = [env EXCEPT !.container = (IF env.container = "gone" THEN "gone" ELSE "stopped")]
          \/ env' = env /\ dark' = dark \cup rows
      BY DEF Preview!SweepStop
    <2>2. (IF env.container = "gone" THEN "gone" ELSE "stopped") \in {"running", "stopped", "gone"}
      OBVIOUS
    <2> QED BY <1>0, <2>1, <2>2, EnvIs
  <1>5. PreviewTyped'
    BY <1>0, <1>1, <1>2, <1>3, <1>4, NetIs DEF PreviewTyped
  <1>6. OpShape'
    BY <1>0, <1>1, <1>3, <1>4, NoOpIs DEF PreviewInv, OpShape
  <1>7. OpFits'
    BY <1>0, <1>1, <1>3, <1>4, NoOpIs DEF PreviewInv, OpShape, OpFits, Connecting
  <1>8. ~broken' => Routed'
    BY <1>0, <1>1, <1>3, <1>4, NoOpIs DEF PreviewInv, OpShape, OpFits, Connecting, Routed, Stopping,
       Pending
  <1>9. ~broken' /\ ~taken' => Linked'
    BY <1>0, <1>1, <1>3, <1>4, NoOpIs DEF PreviewInv, OpShape, OpFits, Connecting, Linked, Ends, Arriving
  <1> QED BY <1>5, <1>6, <1>7, <1>8, <1>9 DEF PreviewInv

LEMMA SweepStatusPreviewKeeps ==
  ASSUME PreviewInv, NEW i \in 1..MaxSuspensions, Preview!SweepStatus(i)
  PROVE  PreviewInv'
  <1>0. PreviewTyped /\ op \in OpType /\ env \in EnvType /\ net \in NetType /\ sweep \in SweepType
    BY DEF PreviewInv, PreviewTyped
  <1>1. UNCHANGED <<rows, routes, net, attached, op, owner, gc, dark, taken, broken>>
    BY DEF Preview!history, Preview!SweepStatus
  <1>2. op' \in OpType /\ env' \in EnvType /\ net' \in NetType /\ sweep' \in SweepType
    BY <1>0, <1>1, SweepMoves, EnvIs DEF Preview!SweepStatus, SweepSteps, EnvType
  <1>3. sweep[i].pc = "status" /\ \A j \in 1..MaxSuspensions \ {i} : sweep'[j] = sweep[j]
    BY <1>0, <1>1, SweepMoves DEF Preview!SweepStatus, SweepSteps
  <1>4. \/ env'.status = (IF env.status = "gone" THEN "gone" ELSE "stopped") /\ env'.container = env.container
        \/ env' = env
    <2>1. \/ env' = [env EXCEPT !.status = (IF env.status = "gone" THEN "gone" ELSE "stopped")]
          \/ env' = env
      BY DEF Preview!SweepStatus
    <2>2. (IF env.status = "gone" THEN "gone" ELSE "stopped") \in {"running", "stopped", "gone"}
      OBVIOUS
    <2> QED BY <1>0, <2>1, <2>2, EnvIs
  <1>5. PreviewTyped'
    BY <1>0, <1>1, <1>2, <1>3, <1>4, NetIs DEF PreviewTyped
  <1>6. OpShape'
    BY <1>0, <1>1, <1>3, <1>4, NoOpIs DEF PreviewInv, OpShape
  <1>7. OpFits'
    BY <1>0, <1>1, <1>3, <1>4, NoOpIs DEF PreviewInv, OpShape, OpFits, Connecting
  <1>8. ~broken' => Routed'
    BY <1>0, <1>1, <1>3, <1>4, NoOpIs DEF PreviewInv, OpShape, OpFits, Connecting, Routed, Stopping,
       Pending
  <1>9. ~broken' /\ ~taken' => Linked'
    BY <1>0, <1>1, <1>3, <1>4, NoOpIs DEF PreviewInv, OpShape, OpFits, Connecting, Linked, Ends, Arriving
  <1> QED BY <1>5, <1>6, <1>7, <1>8, <1>9 DEF PreviewInv

LEMMA ReadOwnersPreviewKeeps ==
  ASSUME PreviewInv, Preview!ReadOwners
  PROVE  PreviewInv'
  <1>0. PreviewTyped /\ op \in OpType /\ env \in EnvType /\ net \in NetType
    BY DEF PreviewInv, PreviewTyped
  <1>1. UNCHANGED <<env, rows, routes, net, attached, op, owner, sweep, dark, taken, broken>>
    BY DEF Preview!history, Preview!ReadOwners, Preview!Owned, Preview!None
  <1>2. op' \in OpType /\ env' \in EnvType /\ net' \in NetType
    BY <1>0, <1>1 DEF Preview!ReadOwners, Preview!Owned, Preview!None
  <1>3. gc = "none" /\ gc' = "list"
    BY <1>0 DEF Preview!ReadOwners, Preview!Owned, Preview!None
  <1>4. env.status = "gone" \/ rows = {}
    BY <1>0, <1>3 DEF Preview!ReadOwners, Preview!Owned, Preview!None
  <1>5. PreviewTyped'
    BY <1>0, <1>1, <1>2, <1>3, <1>4, NetIs DEF PreviewTyped
  <1>6. OpShape'
    BY <1>0, <1>1, <1>3, <1>4, NoOpIs DEF PreviewInv, OpShape
  <1>7. OpFits'
    BY <1>0, <1>1, <1>3, <1>4, NoOpIs DEF PreviewInv, OpShape, OpFits, Connecting
  <1>8. ~broken' => Routed'
    BY <1>0, <1>1, <1>3, <1>4, NoOpIs DEF PreviewInv, OpShape, OpFits, Connecting, Routed, Stopping,
       Pending
  <1>9. ~broken' /\ ~taken' => Linked'
    BY <1>0, <1>1, <1>3, <1>4, NoOpIs DEF PreviewInv, OpShape, OpFits, Connecting, Linked, Ends, Arriving
  <1> QED BY <1>5, <1>6, <1>7, <1>8, <1>9 DEF PreviewInv

LEMMA ListNetworksPreviewKeeps ==
  ASSUME PreviewInv, Preview!ListNetworks
  PROVE  PreviewInv'
  <1>0. PreviewTyped /\ op \in OpType /\ env \in EnvType /\ net \in NetType
    BY DEF PreviewInv, PreviewTyped
  <1>1. UNCHANGED <<env, rows, routes, net, attached, op, owner, sweep, dark, taken, broken>>
    BY DEF Preview!history, Preview!ListNetworks, Preview!None
  <1>2. op' \in OpType /\ env' \in EnvType /\ net' \in NetType
    BY <1>0, <1>1 DEF Preview!ListNetworks, Preview!None
  <1>3. gc = "list"
    BY <1>0 DEF Preview!ListNetworks, Preview!None
  <1>4. gc' \in {"inspect", "none"}
    BY <1>0, <1>3 DEF Preview!ListNetworks, Preview!None
  <1>5. PreviewTyped'
    BY <1>0, <1>1, <1>2, <1>3, <1>4, NetIs DEF PreviewTyped
  <1>6. OpShape'
    BY <1>0, <1>1, <1>3, <1>4, NoOpIs DEF PreviewInv, OpShape
  <1>7. OpFits'
    BY <1>0, <1>1, <1>3, <1>4, NoOpIs DEF PreviewInv, OpShape, OpFits, Connecting
  <1>8. ~broken' => Routed'
    BY <1>0, <1>1, <1>3, <1>4, NoOpIs DEF PreviewInv, OpShape, OpFits, Connecting, Routed, Stopping,
       Pending
  <1>9. ~broken' /\ ~taken' => Linked'
    BY <1>0, <1>1, <1>3, <1>4, NoOpIs DEF PreviewInv, OpShape, OpFits, Connecting, Linked, Ends, Arriving
  <1> QED BY <1>5, <1>6, <1>7, <1>8, <1>9 DEF PreviewInv

LEMMA InspectNetworkPreviewKeeps ==
  ASSUME PreviewInv, Preview!InspectNetwork
  PROVE  PreviewInv'
  <1>0. PreviewTyped /\ op \in OpType /\ env \in EnvType /\ net \in NetType
    BY DEF PreviewInv, PreviewTyped
  <1>1. UNCHANGED <<env, rows, routes, net, attached, op, owner, sweep, dark, taken, broken>>
    BY DEF Preview!history, Preview!InspectNetwork, Preview!None
  <1>2. op' \in OpType /\ env' \in EnvType /\ net' \in NetType
    BY <1>0, <1>1 DEF Preview!InspectNetwork, Preview!None
  <1>3. gc = "inspect"
    BY <1>0 DEF Preview!InspectNetwork, Preview!None
  <1>4. \/ attached # "here" /\ gc' = "disconnect"
        \/ gc' = "none"
    BY <1>0, <1>3 DEF Preview!InspectNetwork, Preview!None
  <1>5. PreviewTyped'
    BY <1>0, <1>1, <1>2, <1>3, <1>4, NetIs DEF PreviewTyped
  <1>6. OpShape'
    BY <1>0, <1>1, <1>3, <1>4, NoOpIs DEF PreviewInv, OpShape
  <1>7. OpFits'
    BY <1>0, <1>1, <1>3, <1>4, NoOpIs DEF PreviewInv, OpShape, OpFits, Connecting
  <1>8. ~broken' => Routed'
    BY <1>0, <1>1, <1>3, <1>4, NoOpIs DEF PreviewInv, OpShape, OpFits, Connecting, Routed, Stopping,
       Pending
  <1>9. ~broken' /\ ~taken' => Linked'
    BY <1>0, <1>1, <1>3, <1>4, NoOpIs DEF PreviewInv, OpShape, OpFits, Connecting, Linked, Ends, Arriving
  <1> QED BY <1>5, <1>6, <1>7, <1>8, <1>9 DEF PreviewInv

LEMMA DisconnectTraefikPreviewKeeps ==
  ASSUME PreviewInv, Preview!DisconnectTraefik
  PROVE  PreviewInv'
  <1>0. PreviewTyped /\ op \in OpType /\ env \in EnvType /\ net \in NetType
    BY DEF PreviewInv, PreviewTyped
  <1>1. UNCHANGED <<env, rows, routes, attached, op, owner, sweep, dark, broken>>
    BY DEF Preview!history, Preview!DisconnectTraefik
  <1>2. op' \in OpType /\ env' \in EnvType /\ net' \in NetType
    BY <1>0, <1>1, NetIs DEF Preview!DisconnectTraefik, Preview!Took, Preview!Owned
  <1>3. gc = "disconnect" /\ gc' = "remove"
    BY <1>0, NetIs DEF Preview!DisconnectTraefik, Preview!Took, Preview!Owned
  <1>4. /\ net'.traefik = FALSE /\ net'.on = net.on
        /\ taken' = (taken \/ (env.status # "gone" /\ rows # {}) \/ attached = "here")
    BY <1>0, <1>3, NetIs DEF Preview!DisconnectTraefik, Preview!Took, Preview!Owned
  <1>5. PreviewTyped'
    BY <1>0, <1>1, <1>2, <1>3, <1>4, NetIs DEF PreviewTyped
  <1>6. OpShape'
    BY <1>0, <1>1, <1>3, <1>4, NoOpIs DEF PreviewInv, OpShape
  <1>7. OpFits'
    BY <1>0, <1>1, <1>3, <1>4, NoOpIs DEF PreviewInv, OpShape, OpFits, Connecting
  <1>8. ~broken' => Routed'
    BY <1>0, <1>1, <1>3, <1>4, NoOpIs DEF PreviewInv, OpShape, OpFits, Connecting, Routed, Stopping,
       Pending
  <1>9. ~broken' /\ ~taken' => Linked'
    BY <1>0, <1>1, <1>3, <1>4, NoOpIs DEF PreviewInv, OpShape, OpFits, Connecting, Linked, Ends, Arriving
  <1> QED BY <1>5, <1>6, <1>7, <1>8, <1>9 DEF PreviewInv

LEMMA RemoveOrphanPreviewKeeps ==
  ASSUME PreviewInv, Preview!RemoveOrphan
  PROVE  PreviewInv'
  <1>0. PreviewTyped /\ op \in OpType /\ env \in EnvType /\ net \in NetType
    BY DEF PreviewInv, PreviewTyped
  <1>1. UNCHANGED <<env, rows, routes, op, owner, sweep, dark, broken>>
    BY DEF Preview!history, Preview!RemoveOrphan, Preview!RemoveNetwork, Preview!CanRemoveNetwork, Preview!Took, Preview!Owned, Preview!None
  <1>2. op' \in OpType /\ env' \in EnvType /\ net' \in NetType
    BY <1>0, <1>1, NetIs DEF Preview!RemoveOrphan, Preview!RemoveNetwork, Preview!CanRemoveNetwork, Preview!Took, Preview!Owned,
       Preview!None
  <1>3. gc = "remove" /\ gc' = "none"
    BY <1>0, NetIs DEF Preview!RemoveOrphan, Preview!RemoveNetwork, Preview!CanRemoveNetwork, Preview!Took, Preview!Owned, Preview!None
  <1>4. \/ /\ net' = Preview!NoNet /\ attached' = (IF attached = "here" THEN "removed" ELSE attached)
           /\ taken' = (taken \/ (env.status # "gone" /\ rows # {}) \/ attached = "here")
        \/ net' = net /\ attached' = attached /\ taken' = taken
    BY <1>0, <1>3, NetIs DEF Preview!RemoveOrphan, Preview!RemoveNetwork, Preview!CanRemoveNetwork, Preview!Took, Preview!Owned,
       Preview!None
  <1>5. PreviewTyped'
    BY <1>0, <1>1, <1>2, <1>3, <1>4, NetIs DEF PreviewTyped
  <1>6. OpShape'
    BY <1>0, <1>1, <1>3, <1>4, NoOpIs DEF PreviewInv, OpShape
  <1>7. OpFits'
    BY <1>0, <1>1, <1>3, <1>4, NoOpIs DEF PreviewInv, OpShape, OpFits, Connecting
  <1>8. ~broken' => Routed'
    BY <1>0, <1>1, <1>3, <1>4, NoOpIs DEF PreviewInv, OpShape, OpFits, Connecting, Routed, Stopping,
       Pending
  <1>9. ~broken' /\ ~taken' => Linked'
    BY <1>0, <1>1, <1>3, <1>4, NoOpIs DEF PreviewInv, OpShape, OpFits, Connecting, Linked, Ends, Arriving
  <1> QED BY <1>5, <1>6, <1>7, <1>8, <1>9 DEF PreviewInv

LEMMA AgeNetworkPreviewKeeps ==
  ASSUME PreviewInv, Preview!AgeNetwork
  PROVE  PreviewInv'
  <1>0. PreviewTyped /\ op \in OpType /\ env \in EnvType /\ net \in NetType
    BY DEF PreviewInv, PreviewTyped
  <1>1. UNCHANGED <<env, rows, routes, attached, op, owner, sweep, gc, dark, taken, broken>>
    BY DEF Preview!history, Preview!AgeNetwork
  <1>2. op' \in OpType /\ env' \in EnvType /\ net' \in NetType
    BY <1>0, <1>1, NetIs DEF Preview!AgeNetwork
  <1>3. TRUE
    BY <1>0, NetIs DEF Preview!AgeNetwork
  <1>4. net'.on = net.on /\ net'.traefik = net.traefik
    BY <1>0, <1>3, NetIs DEF Preview!AgeNetwork
  <1>5. PreviewTyped'
    BY <1>0, <1>1, <1>2, <1>3, <1>4, NetIs DEF PreviewTyped
  <1>6. OpShape'
    BY <1>0, <1>1, <1>3, <1>4, NoOpIs DEF PreviewInv, OpShape
  <1>7. OpFits'
    BY <1>0, <1>1, <1>3, <1>4, NoOpIs DEF PreviewInv, OpShape, OpFits, Connecting
  <1>8. ~broken' => Routed'
    BY <1>0, <1>1, <1>3, <1>4, NoOpIs DEF PreviewInv, OpShape, OpFits, Connecting, Routed, Stopping,
       Pending
  <1>9. ~broken' /\ ~taken' => Linked'
    BY <1>0, <1>1, <1>3, <1>4, NoOpIs DEF PreviewInv, OpShape, OpFits, Connecting, Linked, Ends, Arriving
  <1> QED BY <1>5, <1>6, <1>7, <1>8, <1>9 DEF PreviewInv

LEMMA CrashPreviewKeeps ==
  ASSUME PreviewInv, Preview!Crash
  PROVE  PreviewInv'
  <1>0. PreviewTyped /\ op \in OpType /\ env \in EnvType /\ net \in NetType
    BY DEF PreviewInv, PreviewTyped
  <1>1. UNCHANGED <<env, rows, routes, net, attached, owner, taken>>
    BY DEF Preview!history, Preview!Crash, Preview!None, Preview!Sweeps, Stopping
  <1>2. op' \in OpType /\ env' \in EnvType /\ net' \in NetType
    BY <1>0, <1>1, OpMoves, NoOpIs DEF Preview!Crash, Preview!None, Preview!Sweeps, Stopping, PreviewSteps
  <1>3. gc' = "none" /\ op' = Preview!NoOp /\ sweep' = [i \in 1..MaxSuspensions |-> Preview!NoSweep]
    BY <1>0, OpMoves, NoOpIs DEF Preview!Crash, Preview!None, Preview!Sweeps, Stopping, PreviewSteps
  <1>4. /\ sweep' \in SweepType /\ broken' = (broken \/ op # Preview!NoOp)
        /\ dark' = (IF Stopping THEN dark \cup rows ELSE dark)
    BY <1>0, <1>3, OpMoves, NoOpIs, NoSweeps DEF Preview!Crash, Preview!None, Preview!Sweeps, Stopping, PreviewSteps
  <1>5. PreviewTyped'
    BY <1>0, <1>1, <1>2, <1>3, <1>4, NetIs DEF PreviewTyped
  <1>6. OpShape'
    BY <1>0, <1>1, <1>3, <1>4, NoOpIs DEF PreviewInv, OpShape
  <1>7. OpFits'
    BY <1>0, <1>1, <1>3, <1>4, NoOpIs DEF PreviewInv, OpShape, OpFits, Connecting
  <1>8. ~broken' => Routed'
    BY <1>0, <1>1, <1>3, <1>4, NoOpIs DEF PreviewInv, OpShape, OpFits, Connecting, Routed, Stopping,
       Pending
  <1>9. ~broken' /\ ~taken' => Linked'
    BY <1>0, <1>1, <1>3, <1>4, NoOpIs DEF PreviewInv, OpShape, OpFits, Connecting, Linked, Ends, Arriving
  <1> QED BY <1>5, <1>6, <1>7, <1>8, <1>9 DEF PreviewInv

\* The invariant of the previews, and what follows from it.
LEMMA PreviewInductive ==
  /\ Preview!Init => PreviewInv
  /\ PreviewInv /\ [Preview!Next]_previewVars => PreviewInv'
  /\ PreviewInv => Preview!PreviewsServed
  <1>1. ASSUME Preview!Init
        PROVE  PreviewInv
    <2>1. /\ env = [status |-> "running", container |-> "running"] /\ rows = {} /\ routes = {}
          /\ net = Preview!NoNet /\ attached = "none" /\ op = Preview!NoOp /\ owner = "active"
          /\ sweep = [i \in 1..MaxSuspensions |-> Preview!NoSweep] /\ gc = "none"
          /\ dark = {} /\ taken = FALSE /\ broken = FALSE
      BY <1>1 DEF Preview!Init, Preview!None, Preview!Sweeps
    <2>2. env \in EnvType /\ net \in NetType /\ op \in OpType /\ op.pc = "none" /\ op.kind = "none"
      BY <2>1, NoOpIs DEF EnvType, NetType, Preview!NoNet
    <2>3. PreviewTyped
      BY <2>1, <2>2, NoSweeps DEF PreviewTyped
    <2> QED BY <2>1, <2>2, <2>3
           DEF PreviewInv, OpShape, OpFits, Connecting, Routed, Linked, Pending, Arriving
  <1>2. ASSUME PreviewInv, UNCHANGED previewVars
        PROVE  PreviewInv'
    <2>1. UNCHANGED <<env, rows, routes, net, attached, op, owner, sweep, gc, dark, taken, broken>>
      BY <1>2 DEF previewVars
    <2>2. (PreviewTyped => PreviewTyped') /\ (OpShape => OpShape')
      BY <2>1 DEF PreviewTyped, OpShape
    <2>3. (OpFits => OpFits') /\ (Routed => Routed') /\ (Linked => Linked')
      BY <2>1 DEF OpFits, Connecting, Routed, Stopping, Linked, Ends, Pending, Arriving
    <2> QED BY <1>2, <2>1, <2>2, <2>3 DEF PreviewInv
  <1>3. ASSUME PreviewInv, Preview!Next
        PROVE  PreviewInv'
    BY <1>3, CreatePreviewPreviewKeeps, DeletePreviewPreviewKeeps, EnsureNetworkPreviewKeeps,
       EnsureTraefikPreviewKeeps, EnsureAliasPreviewKeeps, WriteRoutePreviewKeeps, UndoRowPreviewKeeps,
       CleanupUnusedPreviewIngressPreviewKeeps, DisconnectPreviewKeeps, RemoveIngressPreviewKeeps,
       DeleteRowPreviewKeeps, DeletePreviewKeeps, DeleteContainerPreviewKeeps,
       DeleteEnvironmentPreviewKeeps, StopPreviewKeeps, StopStatusPreviewKeeps, StartPreviewKeeps,
       StartContainerPreviewKeeps, RestorePreviewsPreviewKeeps, CommitStartPreviewKeeps,
       UndoRoutesPreviewKeeps, UndoStartPreviewKeeps, SuspendPreviewKeeps, ReactivatePreviewKeeps, SweepSelectPreviewKeeps,
       SweepRoutesPreviewKeeps, SweepStopPreviewKeeps, SweepStatusPreviewKeeps, ReadOwnersPreviewKeeps,
       ListNetworksPreviewKeeps, InspectNetworkPreviewKeeps, DisconnectTraefikPreviewKeeps,
       RemoveOrphanPreviewKeeps, AgeNetworkPreviewKeeps, CrashPreviewKeeps
       DEF Preview!Next, Preview!Sweeps
  <1>4. ASSUME PreviewInv
        PROVE  Preview!PreviewsServed
    <2>1. ASSUME Preview!Quiet
          PROVE  op.kind = "none" /\ op.pc = "none" /\ Pending = {} /\ Arriving = {} /\ ~Stopping
      BY <2>1, NoOpIs DEF Preview!Quiet, Preview!Sweeps, Preview!NoSweep, Preview!None, Pending, Arriving, Stopping
    <2>2. Preview!Served
      BY <1>4, <2>1 DEF Preview!Served, Preview!Running, PreviewInv, Routed, Linked, Ends
    <2>3. Preview!NothingLeft
      BY <1>4 DEF Preview!NothingLeft, PreviewInv, OpFits, Linked
    <2> QED BY <2>2, <2>3 DEF Preview!PreviewsServed
  <1> QED BY <1>1, <1>2, <1>3, <1>4

\* The previews of a running environment are served, whatever was created, deleted, stopped,
\* suspended, undone or collected in between, by however many sweeps and after any faults: the
\* routes are there unless a late sweep took them since the last start, and the network has both
\* ends unless GC took it in the middle of a creation; no route stays without its row, and no
\* stopped container without its network.
THEOREM PreviewsAreServed == ServerSpec => []PreviewsServed
  <1>1. ServerInit => (scene = "previews" => PreviewInv)
    BY PreviewInductive DEF ServerInit
  <1>2. (scene = "previews" => PreviewInv) /\ [ServerNext]_serverVars => (scene = "previews" => PreviewInv)'
    BY PreviewInductive DEF ServerNext, serverVars, previewVars
  <1>3. (scene = "previews" => PreviewInv) => PreviewsServed
    BY PreviewInductive DEF PreviewsServed
  <1> QED BY <1>1, <1>2, <1>3, PTL DEF ServerSpec

===============================================================================
