------------------------- MODULE ArtifactCacheProofs -------------------------
(***************************************************************************)
(* Theorems about ArtifactCache, for any launchers, artifacts, versions    *)
(* and faults:                                                             *)
(*                                                                         *)
(*   CacheTypeCorrect   the state keeps its types                          *)
(*   GetIsSound         HandedSound: what Get hands out is there, and is   *)
(*                      genuine unless a cleanup had begun to remove it    *)
(*   CleanAllIsFull     FullCleanupEmpties                                 *)
(*   UsedArtifactsStay  InUseKept, which no lock protects                  *)
(*                                                                         *)
(* All rest on CInv: what is on the disk (Sound), what the holder of the   *)
(* lock relies on between two of its steps (Work), and what the users of a *)
(* path, who hold no lock, rely on (Use).                                  *)
(***************************************************************************)
EXTENDS ArtifactCache, TLAPS

\* The artifacts that a checksum or the binary vouches for.
Vouched == Checked \cup Embedded

\* The lock has one holder, which is where it works under it, or is left behind.
Locked ==
    /\ \A p \in Procs : pc[p] \in Holding <=> p \in lock
    /\ \A p, q \in lock : p = q
    /\ stale => lock = {}

\* What is on the disk: a local archive is not copied, a tree unpacked from a vouched
\* artifact has no files of another version, and what the index lists is genuine until
\* a cleanup touches it.
Sound ==
    /\ \A k \in Local : artifact[k] = Missing
    /\ \A k \in Embedded : upstream[k] = 1
    /\ \A k \in Vouched : files[k] \subseteq {1}
    /\ \A k \in Vouched \ removed : index.entries[k] # "none" => Genuine(Content(k))

\* Where a Get fetches, and where it has what it will hand out.
Fetching == {"fetching", "verifying", "extracting", "recording"}
Served(p) ==
    /\ mode[p] = "get"
    /\ pc[p] \in {"planning", "removing", "writing"} \/ (pc[p] = "unlocking" /\ result[p] = "ok")

\* The mode and the place of a call fit together.
Placed(p) ==
    /\ pc[p] \in Fetching \cup {"planning"} => mode[p] = "get"
    /\ pc[p] = "removing" => mode[p] \in {"get", "stale", "all", "invalid"}
    /\ pc[p] = "resetting" => mode[p] = "all"

\* Only what the index does not list, or what is not there, is fetched; what is unpacked
\* has been verified.
Fetched(p) ==
    LET k == key[p] IN
    /\ pc[p] \in {"verifying", "extracting"} /\ k \notin Local => artifact[k] \in Versions
    /\ pc[p] \in {"verifying", "extracting"} /\ k \in Embedded \ Local => artifact[k] = 1
    /\ pc[p] = "extracting" => Verified(k) /\ k \in Extracted
    /\ pc[p] \in Fetching /\ k \in Vouched \ removed => index.entries[k] = "none"
    /\ pc[p] = "fetching" /\ HasIdentity(k) => index.entries[k] = "none" \/ ~Exists(k)
    /\ pc[p] \in {"verifying", "extracting"} /\ HasIdentity(k) /\ k \in Extracted
          => index.entries[k] = "none" \/ files[k] = {}
    /\ pc[p] = "recording" => Exists(k) /\ (k \in Vouched => Genuine(Content(k)))

\* What will be handed out is there, and its entry is fresh.
Kept(p) ==
    LET k == key[p] IN
    /\ Served(p) =>
          /\ Exists(k) /\ (k \in Vouched \ removed => Genuine(Content(k)))
          /\ mem[p].entries[k] = "fresh"
    /\ Served(p) /\ pc[p] = "unlocking" => index.entries[k] = "fresh"

\* The copy of the index against the index: no entry is older in the copy, and none is
\* listed in it alone but the one that is being served.
Copied(p) ==
    pc[p] \in Holding \ {"reading", "unlocking"} =>
        \A k \in Keys :
           /\ mem[p].entries[k] = "old" => index.entries[k] = "old"
           /\ mem[p].entries[k] # "none" => index.entries[k] # "none" \/ (Served(p) /\ k = key[p])

\* What is still to be removed is old, where only old entries are to go.
Cleaning(p) ==
    pc[p] = "removing" /\ mode[p] \in {"get", "stale"} =>
        \A k \in todo[p] : mem[p].entries[k] = "old"

\* A full cleanup.
Empty(k) == artifact[k] = Missing /\ files[k] = {}
Emptied == [emptyCacheIndex EXCEPT !.due = FALSE]
Wiping(p) ==
    mode[p] = "all" =>
        /\ pc[p] = "removing" =>
              /\ mem[p].readable
              /\ \A k \in Keys \ todo[p] : Empty(k) /\ mem[p].entries[k] = "none"
        /\ pc[p] \in {"resetting", "writing"} => mem[p] = Emptied /\ \A k \in Keys : Empty(k)
        /\ pc[p] = "unlocking" /\ result[p] = "ok" => index = Emptied /\ \A k \in Keys : Empty(k)

Work(p) == Placed(p) /\ Fetched(p) /\ Kept(p) /\ Copied(p) /\ Cleaning(p) /\ Wiping(p)

\* The users of a path.
Use(p) ==
    Using(p) =>
        /\ handed[p].artifact # Missing \/ handed[p].files # {}
        /\ key[p] \in Vouched \ removed => Genuine(handed[p])
        /\ index.entries[key[p]] # "old"

CInv == TypeOK /\ Locked /\ Sound /\ (\A p \in Procs : Work(p)) /\ (\A p \in Procs : Use(p))

-----------------------------------------------------------------------------
(* Facts about the operators *)

\* The contents a file can have.
LEMMA VersionFacts ==
    /\ 1 \in Versions /\ Missing \notin Versions /\ 1 # Missing
    /\ Versions \subseteq 0 .. MaxVersion /\ Versions \subseteq 0 .. Partial
    /\ Missing \in 0 .. Partial /\ Partial \in 0 .. Partial
    /\ 0 \in 0 .. MaxVersion
  BY CacheAssumption DEF Versions, Missing, Partial

\* The empty index.
LEMMA EmptyIndexFacts ==
    /\ emptyCacheIndex \in Index /\ emptyCacheIndex.readable = TRUE
    /\ \A k \in Keys : emptyCacheIndex.entries[k] = "none"
    /\ Emptied \in Index /\ Emptied.readable = TRUE /\ Emptied.due = FALSE
    /\ \A k \in Keys : Emptied.entries[k] = "none"
  BY DEF emptyCacheIndex, Emptied, Index, Lookups

\* An index is its three fields.
LEMMA IndexEqual ==
    ASSUME NEW m \in Index, m.readable, m.due = FALSE, \A k \in Keys : m.entries[k] = "none"
    PROVE  m = Emptied
<1>1. m.entries = [k \in Keys |-> "none"]
  BY DEF Index
<1>2. m = [readable |-> m.readable, entries |-> m.entries, due |-> m.due]
  BY DEF Index
<1>3. m.readable = TRUE
  BY DEF Index
<1>4. Emptied \in Index /\ Emptied.readable = TRUE /\ Emptied.due = FALSE
      /\ Emptied.entries = [k \in Keys |-> "none"]
  BY EmptyIndexFacts DEF Emptied, emptyCacheIndex
<1>5. Emptied = [readable |-> Emptied.readable, entries |-> Emptied.entries, due |-> Emptied.due]
  BY <1>4 DEF Index
<1>6. m.readable = Emptied.readable /\ m.entries = Emptied.entries /\ m.due = Emptied.due
  BY <1>1, <1>3, <1>4
<1> QED BY <1>2, <1>5, <1>6, Zenon

\* Changing the entries, and the time of the last cleanup.
LEMMA IndexWrites ==
    ASSUME NEW m \in Index
    PROVE  /\ \A e \in [Keys -> Lookups] :
                 /\ [m EXCEPT !.entries = e] \in Index /\ [m EXCEPT !.entries = e].entries = e
                 /\ [m EXCEPT !.entries = e].readable = m.readable
           /\ \A b \in BOOLEAN :
                 /\ [m EXCEPT !.due = b] \in Index /\ [m EXCEPT !.due = b].entries = m.entries
                 /\ [m EXCEPT !.due = b].readable = m.readable /\ [m EXCEPT !.due = b].due = b
           /\ m.entries \in [Keys -> Lookups] /\ m.readable \in BOOLEAN
  BY DEF Index

\* Touching an entry.
LEMMA TouchedFacts ==
    ASSUME NEW e \in [Keys -> Lookups], NEW k \in Keys
    PROVE  /\ Touched(e, k) \in [Keys -> Lookups] /\ Touched(e, k)[k] = "fresh"
           /\ \A j \in Keys \ {k} : Touched(e, k)[j] = e[j]
  BY DEF Touched, Lookups

\* What is there has contents.
LEMMA ContentFacts ==
    ASSUME NEW k \in Keys, CInv
    PROVE  /\ Exists(k) <=> Content(k).artifact # Missing \/ Content(k).files # {}
           /\ Genuine(Content(k)) => Exists(k)
           /\ k \notin Extracted => (Genuine(Content(k)) <=> artifact[k] = 1)
           /\ k \in Extracted => (Genuine(Content(k)) <=> files[k] = {1} /\ whole[k] = 1)
           /\ Content(k) \in [artifact : 0 .. Partial, files : SUBSET Versions, whole : 0 .. MaxVersion]
<1>1. /\ artifact[k] \in 0 .. Partial /\ files[k] \in SUBSET Versions /\ whole[k] \in 0 .. MaxVersion
  BY DEF CInv, TypeOK
<1>2. Missing \in 0 .. Partial /\ 0 \in 0 .. MaxVersion /\ 1 # Missing
  BY VersionFacts
<1> QED BY <1>1, <1>2 DEF Exists, Content, Genuine

-----------------------------------------------------------------------------
(* Steps *)

\* A process that holds no lock relies on nothing on the disk.
LEMMA AtRest == ASSUME NEW p \in Procs, pc'[p] \notin Holding PROVE Work(p)'
<1> USE DEF Holding
<1>1. Placed(p)'
  BY DEF Placed, Fetching
<1>2. Fetched(p)'
  BY DEF Fetched, Fetching
<1>3. Kept(p)'
  BY DEF Kept, Served
<1>4. Copied(p)' /\ Cleaning(p)'
  BY DEF Copied, Cleaning
<1>5. Wiping(p)'
  BY DEF Wiping
<1> QED BY <1>1, <1>2, <1>3, <1>4, <1>5 DEF Work

\* What the holder relies on stays while nobody changes it.
LEMMA Undisturbed ==
    ASSUME NEW q \in Procs, Work(q), UNCHANGED <<disk, removed>>,
           pc'[q] = pc[q], key'[q] = key[q], mode'[q] = mode[q], mem'[q] = mem[q],
           todo'[q] = todo[q], result'[q] = result[q]
    PROVE  Work(q)'
<1> USE DEF disk
<1>1. Placed(q)'
  BY DEF Work, Placed
<1>2. Fetched(q)'
  BY DEF Work, Fetched, Verified, Exists, Content, Genuine, HasIdentity
<1>3. Kept(q)'
  BY DEF Work, Kept, Served, Exists, Content, Genuine
<1>4. Copied(q)' /\ Cleaning(q)'
  BY DEF Work, Copied, Cleaning, Served
<1>5. Wiping(q)'
  BY DEF Work, Wiping, Empty
<1> QED BY <1>1, <1>2, <1>3, <1>4, <1>5 DEF Work

\* A user of a path is not affected by what others do, unless an entry gets old.
LEMMA UseKept ==
    ASSUME CInv, NEW q \in Procs, pc'[q] = pc[q], key'[q] = key[q], handed'[q] = handed[q],
           removed \subseteq removed',
           \A k \in Keys : index'.entries[k] = "old" => index.entries[k] = "old"
    PROVE  Use(q)'
<1>1. key[q] \in Keys /\ Use(q)
  BY DEF CInv, TypeOK
<1> QED BY <1>1 DEF Use, Using, Genuine

\* A step of the process that holds the lock.
LEMMA HolderStep ==
    ASSUME CInv, NEW p \in lock, TypeOK', Sound', Work(p)', Use(p)',
           \A q \in Procs \ {p} : pc'[q] = pc[q] /\ key'[q] = key[q] /\ handed'[q] = handed[q],
           \/ lock' = lock /\ pc'[p] \in Holding /\ UNCHANGED stale
           \/ lock' = lock \ {p} /\ pc'[p] \notin Holding,
           removed \subseteq removed',
           \A k \in Keys : index'.entries[k] = "old" => index.entries[k] = "old"
    PROVE  CInv'
<1>0. p \in Procs /\ lock = {p} /\ lock \subseteq Procs /\ stale = FALSE
  BY DEF CInv, Locked, TypeOK
<1>1. \A q \in Procs \ {p} : pc[q] \notin Holding
  BY <1>0 DEF CInv, Locked
<1>2. Locked'
  BY <1>0, <1>1 DEF Locked
<1>3. \A q \in Procs : Work(q)'
  BY <1>1, AtRest
<1>4. \A q \in Procs : Use(q)'
  BY UseKept
<1> QED BY <1>2, <1>3, <1>4 DEF CInv

\* A step of a process that does not hold it.
LEMMA OtherStep ==
    ASSUME CInv, NEW p \in Procs, p \notin lock, TypeOK', Sound', Use(p)',
           UNCHANGED <<disk, removed, stale>>, pc'[p] \notin Holding, lock' = lock,
           \A q \in Procs \ {p} : /\ pc'[q] = pc[q] /\ key'[q] = key[q] /\ handed'[q] = handed[q]
                                  /\ mode'[q] = mode[q] /\ mem'[q] = mem[q]
                                  /\ todo'[q] = todo[q] /\ result'[q] = result[q]
    PROVE  CInv'
<1>1. Locked'
  BY DEF CInv, Locked
<1>2. \A q \in Procs : Work(q)'
  BY AtRest, Undisturbed DEF CInv
<1>3. \A q \in Procs : Use(q)'
  BY UseKept DEF disk
<1> QED BY <1>1, <1>2, <1>3 DEF CInv

\* The disk is as it was.
LEMMA SoundKept == ASSUME CInv, UNCHANGED <<disk, upstream, removed>> PROVE Sound'
  BY DEF CInv, Sound, disk, Content, Genuine

-----------------------------------------------------------------------------
(* Calls and the lock *)

\* A call of Get or Clean, the lock that is not free in time, and the end of a use.
LEMMA CallCInv ==
    ASSUME CInv, NEW p \in Procs,
           \/ \E k \in Keys : CallGet(p, k)
           \/ \E m \in CleanModes : CallClean(p, m)
           \/ AcquireTimeout(p) \/ Used(p)
    PROVE  CInv'
<1>1. /\ UNCHANGED <<disk, upstream, guard, mem, todo, result, removed>>
      /\ pc[p] \in {"idle", "acquiring", "using"} /\ pc'[p] \in {"idle", "acquiring"}
      /\ \A q \in Procs \ {p} : /\ pc'[q] = pc[q] /\ key'[q] = key[q] /\ handed'[q] = handed[q]
                                /\ mode'[q] = mode[q]
  BY DEF CInv, TypeOK, CallGet, CallClean, AcquireTimeout, Used, Goto, local, guard
<1>2. pc[p] \notin Holding /\ pc'[p] \notin Holding /\ pc'[p] # "using"
  BY <1>1 DEF Holding
<1>3. TypeOK'
  <2>1. Nothing \in [artifact : 0 .. Partial, files : SUBSET Versions, whole : 0 .. MaxVersion]
    BY VersionFacts DEF Nothing
  <2> USE DEF CInv, TypeOK, Goto, local, guard, disk
  <2>2. CASE \E k \in Keys : CallGet(p, k)
    BY <1>1, <2>2, CacheAssumption DEF CallGet
  <2>3. CASE \E m \in CleanModes : CallClean(p, m)
    BY <1>1, <2>3, CacheAssumption DEF CallClean
  <2>4. CASE AcquireTimeout(p)
    BY <1>1, <2>4 DEF AcquireTimeout
  <2>5. CASE Used(p)
    BY <1>1, <2>1, <2>5 DEF Used
  <2> QED BY <2>2, <2>3, <2>4, <2>5
<1>4. Sound'
  BY <1>1, SoundKept
<1>5. Use(p)'
  BY <1>2 DEF Use, Using
<1>6. p \notin lock
  BY <1>2 DEF CInv, Locked
<1> QED BY <1>1, <1>2, <1>3, <1>4, <1>5, <1>6, OtherStep DEF guard

\* The lock is taken.
LEMMA LockCInv == ASSUME CInv, NEW p \in Procs, withExclusiveLock(p) PROVE CInv'
<1>1. /\ UNCHANGED <<disk, upstream, stale, local, removed, calls>> /\ lock = {} /\ ~stale
      /\ lock' = {p} /\ pc[p] = "acquiring" /\ pc'[p] = "reading"
      /\ \A q \in Procs \ {p} : pc'[q] = pc[q]
      /\ pc' \in [Procs -> Holding \cup {"idle", "acquiring", "using"}]
  BY DEF withExclusiveLock, LockFree, Goto, CInv, TypeOK, Holding
<1>2. TypeOK'
  BY <1>1 DEF CInv, TypeOK, disk, local
<1>3. Locked'
  <2>1. "reading" \in Holding
    BY DEF Holding
  <2> QED BY <1>1, <2>1 DEF CInv, Locked
<1>4. Sound'
  BY <1>1, SoundKept
<1>5. \A q \in Procs : Work(q)'
  <2>1. ASSUME NEW q \in Procs, q # p PROVE Work(q)'
    <3>1. pc'[q] \notin Holding
      BY <1>1, <2>1 DEF CInv, Locked
    <3> QED BY <3>1, AtRest
  <2>2. Work(p)'
    BY <1>1 DEF Work, Placed, Fetched, Fetching, Kept, Served, Copied, Cleaning, Wiping
  <2> QED BY <2>1, <2>2
<1>6. \A q \in Procs : Use(q)'
  <2>1. ASSUME NEW q \in Procs, q # p PROVE Use(q)'
    BY <1>1, <2>1, UseKept DEF disk, local
  <2>2. Use(p)'
    BY <1>1 DEF Use, Using
  <2> QED BY <2>1, <2>2
<1> QED BY <1>2, <1>3, <1>4, <1>5, <1>6 DEF CInv

\* The lock is released, and the path is handed out.
LEMMA UnlockCInv == ASSUME CInv, NEW p \in Procs, Unlock(p) PROVE CInv'
<1>1. /\ UNCHANGED <<disk, upstream, stale, key, mode, todo, removed, calls>>
      /\ pc[p] = "unlocking" /\ pc'[p] \in {"using", "idle"} /\ lock' = lock \ {p}
      /\ pc' \in [Procs -> Holding \cup {"idle", "acquiring", "using"}]
      /\ \A q \in Procs \ {p} : pc'[q] = pc[q] /\ handed'[q] = handed[q]
      /\ mem' = [mem EXCEPT ![p] = emptyCacheIndex]
      /\ result' = [result EXCEPT ![p] = "ok"]
  BY DEF Unlock, Goto, Forget, CInv, TypeOK
<1>2. p \in lock /\ pc'[p] \notin Holding
  BY <1>1 DEF CInv, Locked, Holding
<1>3. key[p] \in Keys /\ Content(key[p]) \in
         [artifact : 0 .. Partial, files : SUBSET Versions, whole : 0 .. MaxVersion]
  BY ContentFacts DEF CInv, TypeOK
<1>4. handed' \in [Procs -> [artifact : 0 .. Partial, files : SUBSET Versions, whole : 0 .. MaxVersion]]
  BY <1>3 DEF Unlock, CInv, TypeOK
<1>5. TypeOK'
  BY <1>1, <1>4, EmptyIndexFacts DEF CInv, TypeOK, disk
<1>6. Sound'
  BY <1>1, SoundKept
<1>7. Use(p)'
  <2>1. CASE pc'[p] = "idle"
    BY <2>1 DEF Use, Using
  <2>2. CASE pc'[p] = "using"
    <3>1. mode[p] = "get" /\ result[p] = "ok" /\ handed' = [handed EXCEPT ![p] = Content(key[p])]
      BY <1>1, <2>2 DEF Unlock, Goto, CInv, TypeOK
    <3>2. handed'[p] = Content(key[p])
      BY <3>1 DEF CInv, TypeOK
    <3>3. /\ Exists(key[p]) /\ (key[p] \in Vouched \ removed => Genuine(Content(key[p])))
          /\ index.entries[key[p]] = "fresh"
      BY <1>1, <3>1 DEF CInv, Work, Kept, Served
    <3>4. handed'[p].artifact # Missing \/ handed'[p].files # {}
      BY <1>3, <3>2, <3>3, ContentFacts
    <3>5. key'[p] \in Vouched \ removed' => Genuine(handed'[p])
      BY <1>1, <3>2, <3>3
    <3>6. index'.entries[key'[p]] # "old"
      BY <1>1, <3>3 DEF disk
    <3> QED BY <3>4, <3>5, <3>6 DEF Use, Genuine
  <2> QED BY <1>1, <2>1, <2>2
<1>8. Work(p)'
  BY <1>2, AtRest DEF CInv, TypeOK
<1> QED BY <1>1, <1>2, <1>5, <1>6, <1>7, <1>8, HolderStep DEF disk

-----------------------------------------------------------------------------
(* Get *)

\* The holder goes on.
LEMMA GotoFacts ==
    ASSUME CInv, NEW p \in Procs, NEW to \in Holding, Goto(p, to)
    PROVE  /\ pc' \in [Procs -> Holding \cup {"idle", "acquiring", "using"}]
           /\ pc'[p] = to /\ \A q \in Procs \ {p} : pc'[q] = pc[q]
  BY DEF CInv, TypeOK, Goto

\* The holder goes on under the lock.
LEMMA OnStep ==
    ASSUME CInv, NEW p \in Procs, pc[p] \in Holding, NEW to \in Holding, Goto(p, to),
           TypeOK', Sound', Work(p)', UNCHANGED <<guard, key, handed>>,
           removed \subseteq removed',
           \A k \in Keys : index'.entries[k] = "old" => index.entries[k] = "old"
    PROVE  CInv'
<1>1. p \in lock
  BY DEF CInv, Locked
<1>2. pc'[p] = to /\ \A q \in Procs \ {p} : pc'[q] = pc[q]
  BY GotoFacts
<1>3. Use(p)'
  BY <1>2 DEF Use, Using, Holding
<1>4. lock' = lock /\ stale' = stale
  BY DEF guard
<1>5. \A q \in Procs \ {p} : pc'[q] = pc[q] /\ key'[q] = key[q] /\ handed'[q] = handed[q]
  BY <1>2
<1> QED BY <1>1, <1>2, <1>3, <1>4, <1>5, HolderStep

\* A call that fails relies on nothing any more.
LEMMA FailCInv ==
    ASSUME CInv, NEW p \in Procs, pc[p] \in Holding, Fail(p), UNCHANGED <<guard, key, handed, mode>>,
           TypeOK', Sound', removed \subseteq removed', UNCHANGED index
    PROVE  CInv'
<1>1. "unlocking" \in Holding /\ Goto(p, "unlocking")
  BY DEF Fail, Holding
<1>2. pc'[p] = "unlocking" /\ result'[p] = "error"
  BY <1>1, GotoFacts DEF Fail, CInv, TypeOK
<1>3. Work(p)'
  BY <1>2 DEF Work, Placed, Fetched, Fetching, Kept, Served, Copied, Cleaning, Wiping
<1> QED BY <1>1, <1>3, OnStep

\* Its types.
LEMMA FailTypes ==
    ASSUME CInv, NEW p \in Procs, Fail(p)
    PROVE  /\ pc' \in [Procs -> Holding \cup {"idle", "acquiring", "using"}]
           /\ result' \in [Procs -> {"ok", "error"}]
  BY DEF CInv, TypeOK, Fail, Goto, Holding

\* The disk, where one entry is changed that the index does not list or a cleanup has
\* touched.
LEMMA SoundAt ==
    ASSUME CInv, NEW k \in Keys, UNCHANGED <<index, upstream>>, removed \subseteq removed',
           \A j \in Keys \ {k} : artifact'[j] = artifact[j] /\ files'[j] = files[j] /\ whole'[j] = whole[j],
           k \in Local => artifact'[k] = Missing,
           k \in Vouched => files'[k] \subseteq {1},
           k \in Vouched \ removed' => index.entries[k] = "none"
    PROVE  Sound'
<1>0. Local \subseteq Keys /\ Embedded \subseteq Keys /\ Vouched \subseteq Keys
  BY CacheAssumption DEF Vouched
<1>1. \A j \in Local : artifact'[j] = Missing
  BY <1>0 DEF CInv, Sound
<1>2. \A j \in Embedded : upstream'[j] = 1
  BY DEF CInv, Sound
<1>3. \A j \in Vouched : files'[j] \subseteq {1}
  BY <1>0 DEF CInv, Sound
<1>4. ASSUME NEW j \in Vouched, j \notin removed', index'.entries[j] # "none"
      PROVE  Genuine(Content(j))'
  <2>1. j # k /\ j \in Keys
    BY <1>0, <1>4
  <2>2. Genuine(Content(j))
    BY <1>4 DEF CInv, Sound
  <2> QED BY <2>1, <2>2 DEF Genuine, Content
<1> QED BY <1>1, <1>2, <1>3, <1>4 DEF Sound

\* resolveUnderLock.
LEMMA ResolveCInv == ASSUME CInv, NEW p \in Procs, Resolve(p) PROVE CInv'
<1> DEFINE k == key[p]
           hit == HasIdentity(k) /\ index.entries[k] # "none" /\ Exists(k)
<1>1. /\ UNCHANGED <<disk, upstream, guard, key, mode, todo, handed, removed, calls>>
      /\ pc[p] = "reading" /\ pc[p] \in Holding /\ mode[p] = "get" /\ k \in Keys
      /\ {"planning", "fetching"} \subseteq Holding
  BY DEF Resolve, CInv, TypeOK, Holding
<1>2. Sound'
  BY <1>1, SoundKept
<1>3. CASE Fail(p) /\ UNCHANGED mem
  <2>1. TypeOK'
    BY <1>1, <1>3, FailTypes DEF CInv, TypeOK, disk, guard
  <2> QED BY <1>1, <1>2, <1>3, <2>1, FailCInv DEF disk
<1>4. CASE /\ mem' = [mem EXCEPT ![p] = IF hit THEN [index EXCEPT !.entries = Touched(@, k)] ELSE index]
           /\ Goto(p, IF hit THEN "planning" ELSE "fetching") /\ UNCHANGED result
  <2> DEFINE to == IF hit THEN "planning" ELSE "fetching"
             m == IF hit THEN [index EXCEPT !.entries = Touched(@, k)] ELSE index
  <2>0. index \in Index /\ index.entries \in [Keys -> Lookups]
    BY IndexWrites DEF CInv, TypeOK
  <2>1. /\ m \in Index
        /\ hit => m.entries = Touched(index.entries, k)
        /\ ~hit => m = index
    BY <1>1, <2>0, IndexWrites, TouchedFacts
  <2>2. to \in Holding /\ Goto(p, to)
    BY <1>1, <1>4
  <2>3. mem' \in [Procs -> Index] /\ mem'[p] = m
    BY <1>4, <2>1 DEF CInv, TypeOK
  <2>4. pc' \in [Procs -> Holding \cup {"idle", "acquiring", "using"}] /\ pc'[p] = to
    BY <2>2, GotoFacts
  <2>5. TypeOK'
    BY <1>1, <1>4, <2>3, <2>4 DEF CInv, TypeOK, disk, guard
  <2>6. \A j \in Vouched \ removed : index.entries[j] # "none" => Genuine(Content(j))
    BY DEF CInv, Sound
  <2>7. k \in Vouched => HasIdentity(k)
    BY DEF HasIdentity, Vouched
  <2>8. CASE hit
    <3>1. pc'[p] = "planning" /\ mem'[p].entries = Touched(index.entries, k)
      BY <2>1, <2>3, <2>4, <2>8
    <3>2. mem'[p].entries[k] = "fresh" /\ \A j \in Keys \ {k} : mem'[p].entries[j] = index.entries[j]
      BY <1>1, <2>0, <3>1, TouchedFacts
    <3>3. Served(p)' /\ pc'[p] # "unlocking"
      BY <1>1, <3>1 DEF Served
    <3>4. Kept(p)'
      <4>1. Exists(k)' /\ (k \in Vouched \ removed => Genuine(Content(k)))'
        BY <1>1, <2>6, <2>8 DEF Exists, Content, Genuine, disk
      <4> QED BY <1>1, <3>2, <3>3, <4>1 DEF Kept
    <3>5. Copied(p)'
      BY <1>1, <2>8, <3>2, <3>3 DEF Copied, disk
    <3>6. Placed(p)' /\ Fetched(p)' /\ Cleaning(p)' /\ Wiping(p)'
      BY <1>1, <3>1 DEF Placed, Fetched, Fetching, Cleaning, Wiping
    <3>7. Work(p)'
      BY <3>4, <3>5, <3>6 DEF Work
    <3> QED BY <1>1, <1>2, <2>2, <2>5, <3>7, OnStep DEF disk
  <2>9. CASE ~hit
    <3>1. pc'[p] = "fetching" /\ mem'[p] = index
      BY <2>1, <2>3, <2>4, <2>9
    <3>2. HasIdentity(k) => index.entries[k] = "none" \/ ~Exists(k)
      BY <2>9
    <3>3. k \in Vouched \ removed => index.entries[k] = "none"
      BY <1>1, <2>6, <2>7, <3>2, ContentFacts
    <3>4. Fetched(p)'
      BY <1>1, <3>1, <3>2, <3>3 DEF Fetched, Fetching, HasIdentity, Exists, disk
    <3>5. Kept(p)' /\ Copied(p)' /\ Placed(p)' /\ Cleaning(p)' /\ Wiping(p)'
      BY <1>1, <3>1 DEF Placed, Fetching, Kept, Served, Copied, Cleaning, Wiping, disk
    <3>6. Work(p)'
      BY <3>4, <3>5 DEF Work
    <3> QED BY <1>1, <1>2, <2>2, <2>5, <3>6, OnStep DEF disk
  <2> QED BY <2>8, <2>9
<1> QED BY <1>3, <1>4 DEF Resolve

\* fetch.
LEMMA FetchCInv == ASSUME CInv, NEW p \in Procs, Fetch(p) PROVE CInv'
<1> DEFINE k == key[p]
           v == IF k \in Local THEN artifact[k] ELSE IF k \in Embedded THEN 1 ELSE upstream[k]
<1>1. /\ UNCHANGED <<index, files, whole, upstream, guard, local, removed, calls>>
      /\ pc[p] = "fetching" /\ pc[p] \in Holding /\ k \in Keys /\ Goto(p, "verifying")
      /\ "verifying" \in Holding /\ artifact' = [artifact EXCEPT ![k] = v]
  BY DEF Fetch, CInv, TypeOK, Holding
<1>2. /\ k \notin Local => v \in Versions
      /\ k \in Embedded \ Local => v = 1
      /\ k \in Local => v = Missing
      /\ v \in 0 .. Partial
  BY <1>1, VersionFacts DEF CInv, TypeOK, Sound
<1>3. artifact' \in [Keys -> 0 .. Partial] /\ artifact'[k] = v
      /\ \A j \in Keys \ {k} : artifact'[j] = artifact[j]
  BY <1>1, <1>2 DEF CInv, TypeOK
<1> HIDE DEF v
<1>4. /\ k \in Vouched \ removed => index.entries[k] = "none"
      /\ HasIdentity(k) => index.entries[k] = "none" \/ ~Exists(k)
      /\ mode[p] = "get"
  BY <1>1 DEF CInv, Work, Fetched, Fetching, Placed
<1>5. Sound'
  BY <1>1, <1>2, <1>3, <1>4, SoundAt DEF CInv, Sound
<1>6. /\ pc' \in [Procs -> Holding \cup {"idle", "acquiring", "using"}] /\ pc'[p] = "verifying"
  BY <1>1, GotoFacts
<1>7. TypeOK'
  BY <1>1, <1>3, <1>6 DEF CInv, TypeOK, guard, local
<1>8. Fetched(p)'
  BY <1>1, <1>2, <1>3, <1>4, <1>6 DEF Fetched, Fetching, HasIdentity, Exists, local
<1>9. Placed(p)' /\ Kept(p)' /\ Cleaning(p)' /\ Wiping(p)'
  BY <1>1, <1>4, <1>6 DEF Placed, Kept, Served, Cleaning, Wiping, local
<1>10. Copied(p)'
  BY <1>1, <1>6 DEF CInv, Work, Copied, Served, local
<1>11. Work(p)'
  BY <1>8, <1>9, <1>10 DEF Work
<1> QED BY <1>1, <1>5, <1>7, <1>11, OnStep DEF local

\* It breaks off.
LEMMA FetchFailsCInv == ASSUME CInv, NEW p \in Procs, FetchFails(p) PROVE CInv'
<1> DEFINE k == key[p]
<1>1. /\ UNCHANGED <<index, files, whole, upstream, guard, key, mode, mem, todo, handed, removed, calls>>
      /\ pc[p] = "fetching" /\ pc[p] \in Holding /\ k \in Keys /\ Fail(p)
  BY DEF FetchFails, CInv, TypeOK, Holding
<1>2. /\ artifact' \in [Keys -> 0 .. Partial]
      /\ \A j \in Keys \ {k} : artifact'[j] = artifact[j]
      /\ k \in Local => artifact'[k] = artifact[k]
  BY <1>1, VersionFacts, CacheAssumption DEF FetchFails, CInv, TypeOK
<1>3. k \in Vouched \ removed => index.entries[k] = "none"
  BY <1>1 DEF CInv, Work, Fetched, Fetching
<1>4. Sound'
  BY <1>1, <1>2, <1>3, SoundAt DEF CInv, Sound
<1>5. TypeOK'
  BY <1>1, <1>2, FailTypes DEF CInv, TypeOK, guard
<1> QED BY <1>1, <1>4, <1>5, FailCInv

\* verifyFetchedChecksum.
LEMMA VerifyCInv == ASSUME CInv, NEW p \in Procs, Verify(p) PROVE CInv'
<1> DEFINE k == key[p]
           to == IF k \in Extracted THEN "extracting" ELSE "recording"
<1>1. /\ UNCHANGED <<disk, upstream, guard, key, mode, mem, todo, handed, removed, calls>>
      /\ pc[p] = "verifying" /\ pc[p] \in Holding /\ k \in Keys /\ to \in Holding
  BY DEF Verify, CInv, TypeOK, Holding
<1>2. Sound'
  BY <1>1, SoundKept
<1>3. CASE Fail(p)
  <2>1. TypeOK'
    BY <1>1, <1>3, FailTypes DEF CInv, TypeOK, disk, guard
  <2> QED BY <1>1, <1>2, <1>3, <2>1, FailCInv DEF disk
<1>4. CASE Verified(k) /\ Goto(p, to) /\ UNCHANGED result
  <2>1. pc' \in [Procs -> Holding \cup {"idle", "acquiring", "using"}] /\ pc'[p] = to
    BY <1>1, <1>4, GotoFacts
  <2>2. TypeOK'
    BY <1>1, <1>4, <2>1 DEF CInv, TypeOK, disk, guard
  <2>3. Fetched(p) /\ Copied(p) /\ mode[p] = "get"
    BY <1>1 DEF CInv, Work, Placed, Fetching
  <2>4. CASE k \in Extracted
    <3>1. pc'[p] = "extracting"
      BY <2>1, <2>4
    <3>2. Fetched(p)'
      BY <1>1, <1>4, <2>3, <2>4, <3>1 DEF Fetched, Fetching, HasIdentity, Verified, disk
    <3>3. Placed(p)' /\ Kept(p)' /\ Cleaning(p)' /\ Wiping(p)'
      BY <1>1, <2>3, <3>1 DEF Placed, Kept, Served, Cleaning, Wiping
    <3>4. Copied(p)'
      BY <1>1, <2>3, <3>1 DEF Copied, Served, disk
    <3>5. Work(p)'
      BY <3>2, <3>3, <3>4 DEF Work
    <3> QED BY <1>1, <1>2, <1>4, <2>2, <3>5, OnStep DEF disk
  <2>5. CASE k \notin Extracted
    <3>1. pc'[p] = "recording"
      BY <2>1, <2>5
    <3>2. k \notin Local
      BY <2>5, CacheAssumption
    <3>3. artifact[k] \in Versions /\ (k \in Vouched => artifact[k] = 1)
      BY <1>1, <1>4, <2>3, <3>2 DEF Fetched, Verified, Vouched
    <3>4. Exists(k) /\ (k \in Vouched => Genuine(Content(k)))
      BY <1>1, <2>5, <3>3, ContentFacts, VersionFacts DEF Exists
    <3>5. Exists(k)' /\ (k \in Vouched => Genuine(Content(k))')
      BY <1>1, <3>4 DEF Exists, Content, Genuine, disk
    <3>6. Fetched(p)'
      BY <1>1, <2>3, <3>1, <3>5 DEF Fetched, Fetching, disk
    <3>7. Placed(p)' /\ Kept(p)' /\ Cleaning(p)' /\ Wiping(p)'
      BY <1>1, <2>3, <3>1 DEF Placed, Kept, Served, Cleaning, Wiping
    <3>8. Copied(p)'
      BY <1>1, <2>3, <3>1 DEF Copied, Served, disk
    <3>9. Work(p)'
      BY <3>6, <3>7, <3>8 DEF Work
    <3> QED BY <1>1, <1>2, <1>4, <2>2, <3>9, OnStep DEF disk
  <2> QED BY <2>4, <2>5
<1> QED BY <1>3, <1>4 DEF Verify

\* What is unpacked is a version, and the vouched one.
LEMMA ArchivedFacts ==
    ASSUME CInv, NEW p \in Procs, pc[p] = "extracting"
    PROVE  /\ key[p] \in Keys /\ Archived(key[p]) \in Versions
           /\ key[p] \in Vouched => Archived(key[p]) = 1
           /\ key[p] \in Extracted /\ mode[p] = "get"
           /\ key[p] \in Vouched \ removed => index.entries[key[p]] = "none"
<1> DEFINE k == key[p]
<1>1. k \in Keys /\ upstream[k] \in Versions
  BY DEF CInv, TypeOK
<1>2. /\ k \notin Local => artifact[k] \in Versions
      /\ k \in Embedded \ Local => artifact[k] = 1
      /\ Verified(k) /\ k \in Extracted
      /\ k \in Vouched \ removed => index.entries[k] = "none"
      /\ mode[p] = "get"
  BY DEF CInv, Work, Fetched, Fetching, Placed
<1>3. /\ k \in Local => artifact[k] = Missing
      /\ k \in Embedded => upstream[k] = 1
  BY DEF CInv, Sound
<1> QED BY <1>1, <1>2, <1>3, VersionFacts DEF Archived, Vouched, Verified

\* extract.
LEMMA ExtractCInv == ASSUME CInv, NEW p \in Procs, Extract(p) PROVE CInv'
<1> DEFINE k == key[p]
           v == Archived(k)
<1>1. /\ UNCHANGED <<index, artifact, upstream, guard, local, removed, calls>>
      /\ pc[p] = "extracting" /\ pc[p] \in Holding /\ Goto(p, "recording") /\ "recording" \in Holding
      /\ files' = [files EXCEPT ![k] = @ \cup {v}] /\ whole' = [whole EXCEPT ![k] = v]
  BY DEF Extract, Holding
<1>2. /\ k \in Keys /\ v \in Versions /\ (k \in Vouched => v = 1) /\ k \in Extracted
      /\ mode[p] = "get" /\ (k \in Vouched \ removed => index.entries[k] = "none")
  BY <1>1, ArchivedFacts
<1>3. /\ files' \in [Keys -> SUBSET Versions] /\ whole' \in [Keys -> 0 .. MaxVersion]
      /\ files'[k] = files[k] \cup {v} /\ whole'[k] = v
      /\ \A j \in Keys \ {k} : files'[j] = files[j] /\ whole'[j] = whole[j]
  BY <1>1, <1>2, VersionFacts DEF CInv, TypeOK
<1> HIDE DEF v
<1>4. k \in Vouched => files'[k] = {1} /\ whole'[k] = 1
  BY <1>2, <1>3 DEF CInv, Sound
<1>5. Sound'
  BY <1>1, <1>2, <1>3, <1>4, SoundAt DEF CInv, Sound
<1>6. pc' \in [Procs -> Holding \cup {"idle", "acquiring", "using"}] /\ pc'[p] = "recording"
  BY <1>1, GotoFacts
<1>7. TypeOK'
  BY <1>1, <1>3, <1>6 DEF CInv, TypeOK, guard, local
<1>8. Exists(k)' /\ (k \in Vouched => Genuine(Content(k))')
  BY <1>1, <1>2, <1>3, <1>4 DEF Exists, Content, Genuine, local
<1>9. Fetched(p)'
  BY <1>1, <1>2, <1>6, <1>8 DEF Fetched, Fetching, local
<1>10. Placed(p)' /\ Kept(p)' /\ Cleaning(p)' /\ Wiping(p)'
  BY <1>1, <1>2, <1>6 DEF Placed, Kept, Served, Cleaning, Wiping, local
<1>11. Copied(p)'
  BY <1>1, <1>6 DEF CInv, Work, Copied, Served, local
<1>12. Work(p)'
  BY <1>9, <1>10, <1>11 DEF Work
<1> QED BY <1>1, <1>5, <1>7, <1>12, OnStep DEF local

\* Part of it.
LEMMA ExtractPartFacts ==
    ASSUME CInv, NEW p \in Procs, pc[p] = "extracting", ExtractPart(key[p]),
           UNCHANGED <<index, artifact, upstream, removed>>
    PROVE  /\ Sound'
           /\ files' \in [Keys -> SUBSET Versions] /\ whole' \in [Keys -> 0 .. MaxVersion]
<1> DEFINE k == key[p]
           v == Archived(k)
<1>1. /\ k \in Keys /\ v \in Versions /\ (k \in Vouched => v = 1)
      /\ (k \in Vouched \ removed => index.entries[k] = "none")
  BY ArchivedFacts
<1>2. files' = [files EXCEPT ![k] = @ \cup {v}] /\ whole' = [whole EXCEPT ![k] = 0]
  BY DEF ExtractPart
<1>3. /\ files' \in [Keys -> SUBSET Versions] /\ whole' \in [Keys -> 0 .. MaxVersion]
      /\ files'[k] = files[k] \cup {v}
      /\ \A j \in Keys \ {k} : files'[j] = files[j] /\ whole'[j] = whole[j]
  BY <1>1, <1>2, VersionFacts DEF CInv, TypeOK
<1>4. Sound'
  BY <1>1, <1>3, SoundAt DEF CInv, Sound
<1> QED BY <1>3, <1>4

\* It fails half way.
LEMMA ExtractFailsCInv == ASSUME CInv, NEW p \in Procs, ExtractFails(p) PROVE CInv'
<1>1. /\ UNCHANGED <<index, artifact, upstream, guard, key, mode, mem, todo, handed, removed, calls>>
      /\ pc[p] = "extracting" /\ pc[p] \in Holding /\ Fail(p) /\ ExtractPart(key[p])
  BY DEF ExtractFails, Holding
<1>2. Sound' /\ files' \in [Keys -> SUBSET Versions] /\ whole' \in [Keys -> 0 .. MaxVersion]
  BY <1>1, ExtractPartFacts
<1>3. TypeOK'
  BY <1>1, <1>2, FailTypes DEF CInv, TypeOK, guard
<1> QED BY <1>1, <1>2, <1>3, FailCInv

\* refresh.
LEMMA RecordCInv == ASSUME CInv, NEW p \in Procs, RecordEntry(p) PROVE CInv'
<1> DEFINE k == key[p]
           m == [mem[p] EXCEPT !.entries = Touched(mem[p].entries, k)]
<1>1. /\ UNCHANGED <<disk, upstream, guard, key, mode, todo, result, handed, removed, calls>>
      /\ pc[p] = "recording" /\ pc[p] \in Holding /\ Goto(p, "planning") /\ "planning" \in Holding
      /\ k \in Keys /\ mem[p] \in Index
      /\ mem' = [mem EXCEPT ![p] = m]
  BY DEF RecordEntry, Holding, CInv, TypeOK
<1>2. mem[p].entries \in [Keys -> Lookups] /\ m \in Index /\ m.entries = Touched(mem[p].entries, k)
  BY <1>1, IndexWrites, TouchedFacts
<1>3. mem' \in [Procs -> Index] /\ mem'[p] = m
  BY <1>1, <1>2 DEF CInv, TypeOK
<1> HIDE DEF m
<1>4. mem'[p].entries[k] = "fresh" /\ \A j \in Keys \ {k} : mem'[p].entries[j] = mem[p].entries[j]
  BY <1>1, <1>2, <1>3, TouchedFacts
<1>5. pc' \in [Procs -> Holding \cup {"idle", "acquiring", "using"}] /\ pc'[p] = "planning"
  BY <1>1, GotoFacts
<1>6. TypeOK'
  BY <1>1, <1>3, <1>5 DEF CInv, TypeOK, disk, guard
<1>7. mode[p] = "get" /\ Exists(k) /\ (k \in Vouched => Genuine(Content(k)))
  BY <1>1 DEF CInv, Work, Placed, Fetched, Fetching
<1>8. Served(p)' /\ pc'[p] # "unlocking"
  BY <1>1, <1>5, <1>7 DEF Served
<1>9. Kept(p)'
  <2>1. Exists(k)' /\ (k \in Vouched => Genuine(Content(k))')
    BY <1>1, <1>7 DEF Exists, Content, Genuine, disk
  <2> QED BY <1>1, <1>4, <1>8, <2>1 DEF Kept
<1>10. Copied(p)'
  <2>1. \A j \in Keys : /\ mem[p].entries[j] = "old" => index.entries[j] = "old"
                        /\ mem[p].entries[j] # "none" => index.entries[j] # "none"
    BY <1>1 DEF CInv, Work, Copied, Served
  <2> QED BY <1>1, <1>4, <1>8, <2>1 DEF Copied, disk
<1>11. Placed(p)' /\ Fetched(p)' /\ Cleaning(p)' /\ Wiping(p)'
  BY <1>1, <1>5, <1>7 DEF Placed, Fetched, Fetching, Cleaning, Wiping
<1>12. Work(p)'
  BY <1>9, <1>10, <1>11 DEF Work
<1>13. Sound'
  BY <1>1, SoundKept
<1> QED BY <1>1, <1>6, <1>12, <1>13, OnStep DEF disk

-----------------------------------------------------------------------------
(* Cleanup *)

\* cleanupStaleIfDue plans.
LEMMA PlanAfterGetCInv == ASSUME CInv, NEW p \in Procs, PlanAfterGet(p) PROVE CInv'
<1>1. /\ UNCHANGED <<disk, upstream, guard, key, mode, mem, result, handed, removed, calls>>
      /\ pc[p] = "planning" /\ pc[p] \in Holding
      /\ {"removing", "writing"} \subseteq Holding
  BY DEF PlanAfterGet, Holding
<1>2. PICK to \in {"removing", "writing"} :
         /\ Goto(p, to)
         /\ to = "removing" => todo' = [todo EXCEPT ![p] = Stale(mem[p].entries)]
         /\ to = "writing" => UNCHANGED todo
  BY DEF PlanAfterGet
<1>3. pc' \in [Procs -> Holding \cup {"idle", "acquiring", "using"}] /\ pc'[p] = to
  BY <1>1, <1>2, GotoFacts
<1>4. todo' \in [Procs -> SUBSET Keys]
      /\ (to = "removing" => todo'[p] = Stale(mem[p].entries))
  BY <1>1, <1>2 DEF CInv, TypeOK, Stale
<1>5. TypeOK'
  BY <1>1, <1>3, <1>4 DEF CInv, TypeOK, disk, guard
<1>6. mode[p] = "get" /\ Kept(p) /\ Served(p) /\ Copied(p)
  BY <1>1 DEF CInv, Work, Placed, Served
<1>7. Served(p)'
  BY <1>1, <1>3, <1>6 DEF Served
<1>8. Kept(p)'
  <2>1. /\ Exists(key[p]) /\ (key[p] \in Vouched \ removed => Genuine(Content(key[p])))
        /\ mem[p].entries[key[p]] = "fresh"
    BY <1>6 DEF Kept
  <2>2. Exists(key[p])' /\ (key[p] \in Vouched \ removed => Genuine(Content(key[p])))'
    BY <1>1, <2>1 DEF Exists, Content, Genuine, disk
  <2> QED BY <1>1, <1>3, <2>1, <2>2 DEF Kept
<1>9. Copied(p)'
  BY <1>1, <1>6, <1>7 DEF Copied, disk, Holding
<1>10. Cleaning(p)'
  BY <1>1, <1>3, <1>4 DEF Cleaning, Stale
<1>11. Placed(p)' /\ Fetched(p)' /\ Wiping(p)'
  BY <1>1, <1>3, <1>6 DEF Placed, Fetched, Fetching, Wiping
<1>12. Work(p)'
  BY <1>8, <1>9, <1>10, <1>11 DEF Work
<1>13. Sound'
  BY <1>1, SoundKept
<1> QED BY <1>1, <1>2, <1>5, <1>12, <1>13, OnStep DEF disk

\* cleanIndexedEntries plans.
LEMMA PlanCleanCInv == ASSUME CInv, NEW p \in Procs, PlanClean(p) PROVE CInv'
<1> DEFINE current == IF index.readable THEN index ELSE emptyCacheIndex
<1>1. /\ UNCHANGED <<disk, upstream, guard, key, mode, result, handed, removed, calls>>
      /\ pc[p] = "reading" /\ pc[p] \in Holding /\ mode[p] # "get"
      /\ mem' = [mem EXCEPT ![p] = current]
      /\ {"removing", "unlocking"} \subseteq Holding
  BY DEF PlanClean, Holding
<1>2. PICK to \in {"removing", "unlocking"} :
         /\ Goto(p, to)
         /\ to = "removing" =>
               /\ mode[p] \notin {"partial-downloads", "dry-run"}
               /\ todo' = [todo EXCEPT ![p] =
                              IF mode[p] = "all" THEN Keys
                              ELSE IF mode[p] = "invalid" THEN Invalid(current.entries)
                              ELSE Stale(current.entries)]
         /\ to = "unlocking" => UNCHANGED todo /\ mode[p] \in {"partial-downloads", "dry-run"}
  BY DEF PlanClean
<1>3. pc' \in [Procs -> Holding \cup {"idle", "acquiring", "using"}] /\ pc'[p] = to
  BY <1>1, <1>2, GotoFacts
<1>4. /\ todo' \in [Procs -> SUBSET Keys]
      /\ to = "removing" /\ mode[p] = "all" => todo'[p] = Keys
      /\ to = "removing" /\ mode[p] = "stale" => todo'[p] = Stale(current.entries)
  BY <1>1, <1>2 DEF CInv, TypeOK, Stale, Invalid
<1>5. /\ mem' \in [Procs -> Index] /\ mem'[p] = current /\ current.readable
      /\ \A k \in Keys : current.entries[k] = "none" \/ current.entries[k] = index.entries[k]
  BY <1>1, EmptyIndexFacts DEF CInv, TypeOK
<1> HIDE DEF current
<1>6. TypeOK'
  BY <1>1, <1>3, <1>4, <1>5 DEF CInv, TypeOK, disk, guard
<1>7. mode[p] \in AllCleanModes
  BY <1>1 DEF CInv, TypeOK
<1>8. Placed(p)' /\ Fetched(p)' /\ Kept(p)'
  BY <1>1, <1>2, <1>3, <1>7 DEF Placed, Fetched, Fetching, Kept, Served, AllCleanModes
<1>9. Copied(p)'
  BY <1>1, <1>3, <1>5 DEF Copied, disk
<1>10. Cleaning(p)'
  BY <1>1, <1>3, <1>4, <1>5 DEF Cleaning, Stale
<1>11. Wiping(p)'
  BY <1>1, <1>2, <1>3, <1>4, <1>5 DEF Wiping
<1>12. Work(p)'
  BY <1>8, <1>9, <1>10, <1>11 DEF Work
<1>13. Sound'
  BY <1>1, SoundKept
<1> QED BY <1>1, <1>2, <1>6, <1>12, <1>13, OnStep DEF disk

\* Removing an entry, and part of it.
LEMMA RemoveFacts ==
    ASSUME CInv, NEW k \in Keys, UNCHANGED <<index, upstream>>, removed' = removed \cup {k},
           artifact' \in {artifact, [artifact EXCEPT ![k] = Missing]},
           files' \in {files, [files EXCEPT ![k] = {}]}, whole' = [whole EXCEPT ![k] = 0]
    PROVE  /\ Sound' /\ removed' \subseteq Keys
           /\ artifact' \in [Keys -> 0 .. Partial] /\ files' \in [Keys -> SUBSET Versions]
           /\ whole' \in [Keys -> 0 .. MaxVersion]
           /\ \A j \in Keys \ {k} : artifact'[j] = artifact[j] /\ files'[j] = files[j] /\ whole'[j] = whole[j]
<1>1. /\ artifact' \in [Keys -> 0 .. Partial] /\ files' \in [Keys -> SUBSET Versions]
      /\ whole' \in [Keys -> 0 .. MaxVersion] /\ removed' \subseteq Keys
      /\ \A j \in Keys \ {k} : artifact'[j] = artifact[j] /\ files'[j] = files[j] /\ whole'[j] = whole[j]
      /\ artifact'[k] \in {artifact[k], Missing} /\ files'[k] \in {files[k], {}}
  <2>1. /\ artifact \in [Keys -> 0 .. Partial] /\ files \in [Keys -> SUBSET Versions]
        /\ whole \in [Keys -> 0 .. MaxVersion] /\ removed \subseteq Keys
        /\ Missing \in 0 .. Partial /\ 0 \in 0 .. MaxVersion
    BY VersionFacts DEF CInv, TypeOK
  <2>2. /\ artifact' \in [Keys -> 0 .. Partial] /\ artifact'[k] \in {artifact[k], Missing}
        /\ \A j \in Keys \ {k} : artifact'[j] = artifact[j]
    <3>1. CASE artifact' = artifact
      BY <2>1, <3>1
    <3>2. CASE artifact' = [artifact EXCEPT ![k] = Missing]
      BY <2>1, <3>2
    <3> QED BY <3>1, <3>2
  <2>3. /\ files' \in [Keys -> SUBSET Versions] /\ files'[k] \in {files[k], {}}
        /\ \A j \in Keys \ {k} : files'[j] = files[j]
    <3>1. CASE files' = files
      BY <2>1, <3>1
    <3>2. CASE files' = [files EXCEPT ![k] = {}]
      BY <2>1, <3>2
    <3> QED BY <3>1, <3>2
  <2>4. /\ whole' \in [Keys -> 0 .. MaxVersion] /\ \A j \in Keys \ {k} : whole'[j] = whole[j]
    BY <2>1
  <2>5. removed' \subseteq Keys
    BY <2>1
  <2> QED BY <2>2, <2>3, <2>4, <2>5
<1>2. Sound'
  BY <1>1, SoundAt DEF CInv, Sound
<1> QED BY <1>1, <1>2

\* What is served is not among what a cleanup of old entries removes.
LEMMA ServedStays ==
    ASSUME CInv, NEW p \in Procs, pc[p] = "removing", mode[p] = "get", NEW k \in todo[p],
           \A j \in Keys \ {k} : artifact'[j] = artifact[j] /\ files'[j] = files[j] /\ whole'[j] = whole[j],
           removed \subseteq removed'
    PROVE  /\ key[p] \in Keys \ {k} /\ Served(p) /\ mem[p].entries[key[p]] = "fresh"
           /\ Exists(key[p]) /\ (key[p] \in Vouched \ removed => Genuine(Content(key[p])))
           /\ key'[p] = key[p] =>
                 Exists(key[p])' /\ (key[p] \in Vouched \ removed => Genuine(Content(key[p])))'
<1>1. Served(p) /\ key[p] \in Keys
  BY DEF Served, CInv, TypeOK
<1>2. /\ Exists(key[p]) /\ (key[p] \in Vouched \ removed => Genuine(Content(key[p])))
      /\ mem[p].entries[key[p]] = "fresh" /\ mem[p].entries[k] = "old"
  BY <1>1 DEF CInv, Work, Kept, Cleaning
<1>3. key[p] \in Keys \ {k}
  BY <1>1, <1>2
<1> QED BY <1>1, <1>2, <1>3 DEF Exists, Content, Genuine

\* removeEntries.
LEMMA RemoveEntryCInv == ASSUME CInv, NEW p \in Procs, NEW k \in Keys, RemoveEntry(p, k) PROVE CInv'
<1> DEFINE m == [mem[p] EXCEPT !.entries = [mem[p].entries EXCEPT ![k] = "none"]]
<1>1. /\ UNCHANGED <<index, upstream, guard, pc, key, mode, result, handed, calls>>
      /\ pc[p] = "removing" /\ pc[p] \in Holding /\ k \in todo[p]
      /\ artifact' = [artifact EXCEPT ![k] = Missing] /\ files' = [files EXCEPT ![k] = {}]
      /\ whole' = [whole EXCEPT ![k] = 0] /\ removed' = removed \cup {k}
      /\ mem' = [mem EXCEPT ![p] = m] /\ todo' = [todo EXCEPT ![p] = @ \ {k}]
  BY DEF RemoveEntry, Holding
<1>2. /\ Sound' /\ removed' \subseteq Keys
      /\ artifact' \in [Keys -> 0 .. Partial] /\ files' \in [Keys -> SUBSET Versions]
      /\ whole' \in [Keys -> 0 .. MaxVersion]
      /\ \A j \in Keys \ {k} : artifact'[j] = artifact[j] /\ files'[j] = files[j] /\ whole'[j] = whole[j]
  BY <1>1, RemoveFacts
<1>3. artifact'[k] = Missing /\ files'[k] = {}
  BY <1>1 DEF CInv, TypeOK
<1>4. mem[p] \in Index /\ mem[p].entries \in [Keys -> Lookups]
  BY IndexWrites DEF CInv, TypeOK
<1>5. [mem[p].entries EXCEPT ![k] = "none"] \in [Keys -> Lookups]
  BY <1>4 DEF Lookups
<1>6. m \in Index /\ m.entries = [mem[p].entries EXCEPT ![k] = "none"] /\ m.readable = mem[p].readable
  BY <1>4, <1>5, IndexWrites
<1>7. mem' \in [Procs -> Index] /\ mem'[p] = m
  BY <1>1, <1>6 DEF CInv, TypeOK
<1> HIDE DEF m
<1>8. /\ mem'[p].entries[k] = "none" /\ mem'[p].readable = mem[p].readable
      /\ \A j \in Keys \ {k} : mem'[p].entries[j] = mem[p].entries[j]
  BY <1>4, <1>6, <1>7
<1>9. todo' \in [Procs -> SUBSET Keys] /\ todo'[p] = todo[p] \ {k}
  BY <1>1 DEF CInv, TypeOK
<1>10. TypeOK'
  BY <1>1, <1>2, <1>7, <1>9 DEF CInv, TypeOK, guard
<1>11. Served(p)' <=> Served(p)
  BY <1>1 DEF Served
<1>12. Kept(p)'
  <2>1. CASE mode[p] = "get"
    BY <1>1, <1>2, <1>8, <2>1, ServedStays DEF Kept
  <2>2. CASE mode[p] # "get"
    BY <1>1, <2>2 DEF Kept, Served
  <2> QED BY <2>1, <2>2
<1>13. Copied(p)'
  BY <1>1, <1>8, <1>11 DEF CInv, Work, Copied, Holding
<1>14. Cleaning(p)'
  BY <1>1, <1>8, <1>9 DEF CInv, Work, Cleaning, TypeOK
<1>15. Wiping(p)'
  BY <1>1, <1>2, <1>3, <1>8, <1>9 DEF CInv, Work, Wiping, Empty
<1>16. Placed(p)' /\ Fetched(p)'
  BY <1>1 DEF CInv, Work, Placed, Fetched, Fetching
<1>17. Work(p)'
  BY <1>12, <1>13, <1>14, <1>15, <1>16 DEF Work
<1>18. Goto(p, "removing") /\ "removing" \in Holding
  BY <1>1 DEF Goto, CInv, TypeOK, Holding
<1> QED BY <1>1, <1>2, <1>10, <1>17, <1>18, OnStep

\* It fails: a Get goes on.
LEMMA RemoveFailsCInv == ASSUME CInv, NEW p \in Procs, NEW k \in Keys, RemoveFails(p, k) PROVE CInv'
<1>1. /\ UNCHANGED <<index, upstream, guard, key, mode, mem, handed, calls>>
      /\ pc[p] = "removing" /\ pc[p] \in Holding /\ k \in todo[p] /\ RemovePart(k)
      /\ removed' = removed \cup {k} /\ todo' = [todo EXCEPT ![p] = {}] /\ "writing" \in Holding
  BY DEF RemoveFails, Holding
<1>2. /\ Sound' /\ removed' \subseteq Keys
      /\ artifact' \in [Keys -> 0 .. Partial] /\ files' \in [Keys -> SUBSET Versions]
      /\ whole' \in [Keys -> 0 .. MaxVersion]
      /\ \A j \in Keys \ {k} : artifact'[j] = artifact[j] /\ files'[j] = files[j] /\ whole'[j] = whole[j]
  BY <1>1, RemoveFacts DEF RemovePart
<1>3. todo' \in [Procs -> SUBSET Keys]
  BY <1>1 DEF CInv, TypeOK
<1>4. CASE Fail(p)
  <2>1. TypeOK'
    BY <1>1, <1>2, <1>3, <1>4, FailTypes DEF CInv, TypeOK, guard
  <2> QED BY <1>1, <1>2, <1>4, <2>1, FailCInv
<1>5. CASE mode[p] = "get" /\ Goto(p, "writing") /\ UNCHANGED result
  <2>1. pc' \in [Procs -> Holding \cup {"idle", "acquiring", "using"}] /\ pc'[p] = "writing"
    BY <1>1, <1>5, GotoFacts
  <2>2. TypeOK'
    BY <1>1, <1>2, <1>3, <1>5, <2>1 DEF CInv, TypeOK, guard
  <2>3. Served(p) /\ Served(p)'
    BY <1>1, <1>5, <2>1 DEF Served
  <2>4. Kept(p)'
    BY <1>1, <1>2, <1>5, <2>1, ServedStays DEF Kept
  <2>5. Copied(p)'
    BY <1>1, <2>3 DEF CInv, Work, Copied, Holding
  <2>6. Placed(p)' /\ Fetched(p)' /\ Cleaning(p)' /\ Wiping(p)'
    BY <1>1, <1>5, <2>1 DEF Placed, Fetched, Fetching, Cleaning, Wiping
  <2>7. Work(p)'
    BY <2>4, <2>5, <2>6 DEF Work
  <2> QED BY <1>1, <1>2, <1>5, <2>2, <2>7, OnStep
<1> QED BY <1>4, <1>5 DEF RemoveFails

\* EnsureCacheConfig, or writing the index, fails.
LEMMA FailsCInv == ASSUME CInv, NEW p \in Procs, CleanFails(p) \/ WriteIndexFails(p) PROVE CInv'
<1>1. /\ UNCHANGED <<disk, upstream, guard, key, mode, mem, todo, handed, removed, calls>>
      /\ pc[p] \in {"reading", "resetting", "writing"} /\ Fail(p)
  BY DEF CleanFails, WriteIndexFails
<1>2. pc[p] \in Holding
  BY <1>1 DEF Holding
<1>3. TypeOK'
  BY <1>1, FailTypes DEF CInv, TypeOK, disk, guard
<1>4. Sound'
  BY <1>1, SoundKept
<1> QED BY <1>1, <1>2, <1>3, <1>4, FailCInv DEF disk

\* All entries that were to go are removed.
LEMMA RemovedCInv == ASSUME CInv, NEW p \in Procs, Removed(p) PROVE CInv'
<1> DEFINE to == IF mode[p] = "all" THEN "resetting" ELSE "writing"
           m == [mem[p] EXCEPT !.due = FALSE]
<1>1. /\ UNCHANGED <<disk, upstream, guard, key, mode, todo, result, handed, removed, calls>>
      /\ pc[p] = "removing" /\ pc[p] \in Holding /\ todo[p] = {} /\ Goto(p, to) /\ to \in Holding
      /\ mem' = [mem EXCEPT ![p] = m] /\ mem[p] \in Index
  BY DEF Removed, Holding, CInv, TypeOK
<1>2. m \in Index /\ m.entries = mem[p].entries /\ m.readable = mem[p].readable /\ m.due = FALSE
  BY <1>1, IndexWrites
<1>3. mem' \in [Procs -> Index] /\ mem'[p] = m
  BY <1>1, <1>2 DEF CInv, TypeOK
<1>4. pc' \in [Procs -> Holding \cup {"idle", "acquiring", "using"}] /\ pc'[p] = to
  BY <1>1, GotoFacts
<1>5. TypeOK'
  BY <1>1, <1>3, <1>4 DEF CInv, TypeOK, disk, guard
<1> HIDE DEF m
<1>6. Served(p)' <=> Served(p)
  BY <1>1, <1>4 DEF Served
<1>7. Kept(p)'
  <2>1. CASE ~Served(p)
    BY <1>6, <2>1 DEF Kept
  <2>2. CASE Served(p)
    <3>1. /\ Exists(key[p]) /\ (key[p] \in Vouched \ removed => Genuine(Content(key[p])))
          /\ mem[p].entries[key[p]] = "fresh"
      BY <2>2 DEF CInv, Work, Kept
    <3>2. Exists(key[p])' /\ (key[p] \in Vouched \ removed => Genuine(Content(key[p])))'
      BY <1>1, <3>1 DEF Exists, Content, Genuine, disk
    <3> QED BY <1>1, <1>2, <1>3, <1>4, <3>1, <3>2 DEF Kept
  <2> QED BY <2>1, <2>2
<1>8. Copied(p)'
  <2>1. Copied(p) /\ pc[p] \notin {"reading", "unlocking"}
    BY <1>1 DEF CInv, Work
  <2> QED BY <1>1, <1>2, <1>3, <1>6, <2>1 DEF Copied, disk
<1>9. Wiping(p)'
  <2>1. CASE mode[p] # "all"
    BY <1>1, <2>1 DEF Wiping
  <2>2. CASE mode[p] = "all"
    <3>1. mem[p].readable /\ \A k \in Keys : Empty(k) /\ mem[p].entries[k] = "none"
      BY <1>1, <2>2 DEF CInv, Work, Wiping
    <3>2. m = Emptied
      BY <1>2, <3>1, IndexEqual
    <3>3. \A k \in Keys : Empty(k)'
      BY <1>1, <3>1 DEF Empty, disk
    <3>4. pc'[p] = "resetting"
      BY <1>4, <2>2
    <3> QED BY <1>3, <3>2, <3>3, <3>4 DEF Wiping, Emptied, emptyCacheIndex
  <2> QED BY <2>1, <2>2
<1>10. Placed(p)' /\ Fetched(p)' /\ Cleaning(p)'
  BY <1>1, <1>4 DEF Placed, Fetched, Fetching, Cleaning
<1>11. Work(p)'
  BY <1>7, <1>8, <1>9, <1>10 DEF Work
<1>12. Sound'
  BY <1>1, SoundKept
<1> QED BY <1>1, <1>5, <1>11, <1>12, OnStep DEF disk

\* The disk, where only the index is changed.
LEMMA SoundIndex ==
    ASSUME CInv, UNCHANGED <<artifact, files, whole, upstream, removed>>,
           \A k \in Vouched \ removed :
              index'.entries[k] # "none" => index.entries[k] # "none" \/ Genuine(Content(k))
    PROVE  Sound'
  BY DEF CInv, Sound, Content, Genuine

\* index.json is removed.
LEMMA RemoveIndexCInv == ASSUME CInv, NEW p \in Procs, RemoveIndex(p) PROVE CInv'
<1>1. /\ UNCHANGED <<artifact, files, whole, upstream, guard, local, removed, calls>>
      /\ pc[p] = "resetting" /\ pc[p] \in Holding /\ Goto(p, "writing") /\ "writing" \in Holding
      /\ index' = emptyCacheIndex
  BY DEF RemoveIndex, Holding
<1>2. pc' \in [Procs -> Holding \cup {"idle", "acquiring", "using"}] /\ pc'[p] = "writing"
  BY <1>1, GotoFacts
<1>3. index' \in Index /\ \A k \in Keys : index'.entries[k] = "none"
  BY <1>1, EmptyIndexFacts
<1>4. TypeOK'
  BY <1>1, <1>2, <1>3 DEF CInv, TypeOK, guard, local
<1>5. Sound'
  <2>1. Vouched \subseteq Keys
    BY CacheAssumption DEF Vouched
  <2> QED BY <1>1, <1>3, <2>1, SoundIndex
<1>6. mode[p] = "all" /\ mem[p] = Emptied /\ \A k \in Keys : Empty(k)
  BY <1>1 DEF CInv, Work, Placed, Wiping
<1>7. mem'[p] = Emptied /\ mode'[p] = "all"
  BY <1>1, <1>6 DEF local
<1>8. Wiping(p)'
  <2>1. \A k \in Keys : Empty(k)'
    BY <1>1, <1>6 DEF Empty
  <2> QED BY <1>2, <1>7, <2>1 DEF Wiping, Emptied, emptyCacheIndex
<1>9. Copied(p)'
  BY <1>7, EmptyIndexFacts DEF Copied
<1>10. Placed(p)' /\ Fetched(p)' /\ Kept(p)' /\ Cleaning(p)'
  BY <1>2, <1>7 DEF Placed, Fetched, Fetching, Kept, Served, Cleaning
<1>11. Work(p)'
  BY <1>8, <1>9, <1>10 DEF Work
<1> QED BY <1>1, <1>3, <1>4, <1>5, <1>11, OnStep DEF local

\* writeIndex.
LEMMA WriteIndexCInv == ASSUME CInv, NEW p \in Procs, WriteIndex(p) PROVE CInv'
<1>1. /\ UNCHANGED <<artifact, files, whole, upstream, guard, local, removed, calls>>
      /\ pc[p] = "writing" /\ pc[p] \in Holding /\ Goto(p, "unlocking") /\ "unlocking" \in Holding
      /\ index' = mem[p] /\ mem[p] \in Index /\ key[p] \in Keys
  BY DEF WriteIndex, Holding, CInv, TypeOK
<1>2. pc' \in [Procs -> Holding \cup {"idle", "acquiring", "using"}] /\ pc'[p] = "unlocking"
  BY <1>1, GotoFacts
<1>3. TypeOK'
  BY <1>1, <1>2 DEF CInv, TypeOK, guard, local
<1>4. \A k \in Keys :
         /\ mem[p].entries[k] = "old" => index.entries[k] = "old"
         /\ mem[p].entries[k] # "none" => index.entries[k] # "none" \/ (Served(p) /\ k = key[p])
  BY <1>1 DEF CInv, Work, Copied
<1>5. Served(p) => /\ Exists(key[p]) /\ (key[p] \in Vouched \ removed => Genuine(Content(key[p])))
                   /\ mem[p].entries[key[p]] = "fresh"
  BY DEF CInv, Work, Kept
<1>6. Sound'
  <2>1. Vouched \subseteq Keys
    BY CacheAssumption DEF Vouched
  <2> QED BY <1>1, <1>4, <1>5, <2>1, SoundIndex
<1>7. Kept(p)'
  <2>1. Served(p)' => Served(p)
    BY <1>1, <1>2 DEF Served, local
  <2>2. Served(p) => Exists(key[p])' /\ (key[p] \in Vouched \ removed => Genuine(Content(key[p])))'
    BY <1>1, <1>5 DEF Exists, Content, Genuine, local
  <2> QED BY <1>1, <1>5, <2>1, <2>2 DEF Kept, local
<1>8. Wiping(p)'
  <2>1. mode[p] = "all" => mem[p] = Emptied /\ \A k \in Keys : Empty(k)
    BY <1>1 DEF CInv, Work, Wiping
  <2>2. mode[p] = "all" => index' = Emptied' /\ \A k \in Keys : Empty(k)'
    BY <1>1, <2>1 DEF Empty, Emptied, emptyCacheIndex
  <2> QED BY <1>1, <1>2, <2>2 DEF Wiping, local
<1>9. Placed(p)' /\ Fetched(p)' /\ Copied(p)' /\ Cleaning(p)'
  BY <1>2 DEF Placed, Fetched, Fetching, Copied, Cleaning
<1>10. Work(p)'
  BY <1>7, <1>8, <1>9 DEF Work
<1> QED BY <1>1, <1>3, <1>4, <1>6, <1>10, OnStep DEF local

-----------------------------------------------------------------------------
(* The environment *)

\* What a step that is cut short leaves.
LEMMA CutShortFacts ==
    ASSUME CInv, NEW p \in Procs, CutShort(p), UNCHANGED upstream
    PROVE  /\ Sound' /\ removed \subseteq removed' /\ removed' \subseteq Keys /\ index' = index
           /\ artifact' \in [Keys -> 0 .. Partial] /\ files' \in [Keys -> SUBSET Versions]
           /\ whole' \in [Keys -> 0 .. MaxVersion]
           /\ UNCHANGED <<disk, removed>> \/ pc[p] \in Holding
<1>0. /\ artifact \in [Keys -> 0 .. Partial] /\ files \in [Keys -> SUBSET Versions]
      /\ whole \in [Keys -> 0 .. MaxVersion] /\ removed \subseteq Keys /\ key[p] \in Keys
      /\ todo[p] \subseteq Keys
  BY DEF CInv, TypeOK
<1>1. CASE UNCHANGED <<disk, removed>>
  <2>1. Sound'
    BY <1>1, SoundKept
  <2> QED BY <1>0, <1>1, <2>1 DEF disk
<1>2. CASE /\ pc[p] = "fetching" /\ key[p] \notin Local
           /\ artifact' = [artifact EXCEPT ![key[p]] = Partial]
           /\ UNCHANGED <<index, files, whole, removed>>
  <2>1. artifact' \in [Keys -> 0 .. Partial] /\ \A j \in Keys \ {key[p]} : artifact'[j] = artifact[j]
    BY <1>0, <1>2, VersionFacts
  <2>2. key[p] \in Vouched \ removed => index.entries[key[p]] = "none"
    BY <1>2 DEF CInv, Work, Fetched, Fetching
  <2>3. Sound'
    BY <1>0, <1>2, <2>1, <2>2, SoundAt DEF CInv, Sound
  <2> QED BY <1>0, <1>2, <2>1, <2>3 DEF Holding
<1>3. CASE pc[p] = "extracting" /\ ExtractPart(key[p]) /\ UNCHANGED <<index, artifact, removed>>
  BY <1>0, <1>3, ExtractPartFacts DEF Holding
<1>4. CASE /\ pc[p] = "removing"
           /\ \E k \in todo[p] : RemovePart(k) /\ removed' = removed \cup {k}
           /\ UNCHANGED index
  <2>1. PICK k \in Keys : RemovePart(k) /\ removed' = removed \cup {k}
    BY <1>0, <1>4
  <2> QED BY <1>0, <1>4, <2>1, RemoveFacts DEF RemovePart, Holding
<1> QED BY <1>1, <1>2, <1>3, <1>4 DEF CutShort

\* A launcher is killed or interrupted.
LEMMA EndCInv == ASSUME CInv, NEW p \in Procs, Crash(p) \/ Interrupt(p) PROVE CInv'
<1>1. /\ pc' = [pc EXCEPT ![p] = "idle"] /\ todo' = [todo EXCEPT ![p] = {}] /\ lock' = lock \ {p}
      /\ mem' = [mem EXCEPT ![p] = emptyCacheIndex] /\ result' = [result EXCEPT ![p] = "ok"]
      /\ handed' = [handed EXCEPT ![p] = Nothing] /\ UNCHANGED <<upstream, key, mode, calls>>
      /\ CutShort(p)
      /\ stale' = (stale \/ p \in lock) \/ UNCHANGED stale
  BY DEF Crash, Interrupt, Gone, Goto, Forget
<1>2. /\ Sound' /\ removed \subseteq removed' /\ removed' \subseteq Keys /\ index' = index
      /\ artifact' \in [Keys -> 0 .. Partial] /\ files' \in [Keys -> SUBSET Versions]
      /\ whole' \in [Keys -> 0 .. MaxVersion]
      /\ UNCHANGED <<disk, removed>> \/ pc[p] \in Holding
  BY <1>1, CutShortFacts
<1>3. TypeOK'
  <2>1. Nothing \in [artifact : 0 .. Partial, files : SUBSET Versions, whole : 0 .. MaxVersion]
    BY VersionFacts DEF Nothing
  <2>2. stale' \in BOOLEAN
    BY <1>1, Zenon DEF CInv, TypeOK
  <2> QED BY <1>1, <1>2, <2>1, <2>2, EmptyIndexFacts DEF CInv, TypeOK
<1>4. /\ pc'[p] = "idle" /\ pc'[p] \notin Holding
      /\ \A q \in Procs \ {p} : /\ pc'[q] = pc[q] /\ key'[q] = key[q] /\ handed'[q] = handed[q]
                                /\ mode'[q] = mode[q] /\ mem'[q] = mem[q]
                                /\ todo'[q] = todo[q] /\ result'[q] = result[q]
  BY <1>1 DEF CInv, TypeOK, Holding
<1>5. Use(p)' /\ Work(p)'
  BY <1>4, AtRest DEF Use, Using
<1>6. CASE p \in lock
  BY <1>1, <1>2, <1>3, <1>4, <1>5, <1>6, HolderStep
<1>7. CASE p \notin lock
  <2>1. pc[p] \notin Holding /\ UNCHANGED <<disk, removed>>
    BY <1>2, <1>7 DEF CInv, Locked
  <2>2. lock' = lock
    BY <1>1, <1>7
  <2>3. stale' = stale
    BY <1>1, <1>7, Zenon DEF CInv, TypeOK
  <2> QED BY <1>2, <1>3, <1>4, <1>5, <1>7, <2>1, <2>2, <2>3, OtherStep
<1> QED BY <1>6, <1>7

\* The lock is forced, a source publishes, and time passes.
LEMMA WorldCInv ==
    ASSUME CInv, ForceUnlock \/ (\E k \in Keys : Publish(k)) \/ Retire \/ DamageIndex
    PROVE  CInv'
<1>1. CASE ForceUnlock
  <2>1. UNCHANGED <<disk, upstream, lock, pc, local, removed, calls>> /\ stale' = FALSE
    BY <1>1 DEF ForceUnlock
  <2>2. TypeOK' /\ Locked' /\ Sound'
    BY <2>1, SoundKept DEF CInv, TypeOK, Locked, disk, local
  <2>3. ASSUME NEW q \in Procs PROVE Work(q)' /\ Use(q)'
    BY <2>1, Undisturbed, UseKept DEF CInv, local, disk
  <2> QED BY <2>2, <2>3 DEF CInv
<1>2. CASE \E k \in Keys : Publish(k)
  <2>1. PICK k \in Keys : Publish(k)
    BY <1>2
  <2>2. UNCHANGED <<disk, guard, pc, local, removed, calls>>
    BY <2>1 DEF Publish
  <2>3. upstream' \in [Keys -> Versions] /\ \A j \in Embedded : upstream'[j] = upstream[j]
    BY <2>1, CacheAssumption DEF Publish, CInv, TypeOK, Versions
  <2>4. TypeOK' /\ Locked'
    BY <2>2, <2>3 DEF CInv, TypeOK, Locked, disk, guard, local
  <2>5. Sound'
    BY <2>2, <2>3 DEF CInv, Sound, disk, Content, Genuine
  <2>6. ASSUME NEW q \in Procs PROVE Work(q)' /\ Use(q)'
    BY <2>2, Undisturbed, UseKept DEF CInv, local, disk
  <2> QED BY <2>4, <2>5, <2>6 DEF CInv
<1>3. CASE Retire \/ DamageIndex
  <2>1. /\ UNCHANGED <<artifact, files, whole, upstream, guard, pc, local, removed, calls>>
        /\ \A q \in Procs : pc[q] = "idle"
    BY <1>3 DEF Retire, DamageIndex
  <2>2. index' \in Index /\ \A k \in Keys : index'.entries[k] # "none" => index.entries[k] # "none"
    <3>1. index \in Index
      BY DEF CInv, TypeOK
    <3>2. CASE Retire
      BY <3>1, <3>2 DEF Retire, Index, Lookups
    <3>3. CASE DamageIndex
      BY <3>1, <3>3 DEF DamageIndex, Index
    <3> QED BY <1>3, <3>2, <3>3
  <2>3. TypeOK' /\ Locked'
    BY <2>1, <2>2 DEF CInv, TypeOK, Locked, guard, local
  <2>4. Sound'
    <3>1. Vouched \subseteq Keys
      BY CacheAssumption DEF Vouched
    <3> QED BY <2>1, <2>2, <3>1, SoundIndex
  <2>5. ASSUME NEW q \in Procs PROVE Work(q)' /\ Use(q)'
    <3>1. pc'[q] = "idle" /\ pc'[q] \notin Holding
      BY <2>1 DEF Holding
    <3> QED BY <3>1, AtRest DEF Use, Using
  <2> QED BY <2>3, <2>4, <2>5 DEF CInv
<1> QED BY <1>1, <1>2, <1>3

-----------------------------------------------------------------------------
(* The invariant and the theorems *)

\* The cache starts empty, with nobody at it.
LEMMA InitCInv == Init => CInv
<1> SUFFICES ASSUME Init PROVE CInv
  OBVIOUS
<1>1. pc = [p \in Procs |-> "idle"] /\ lock = {} /\ stale = FALSE /\ index = emptyCacheIndex
  BY DEF Init
<1>2. (CHOOSE k \in Keys : TRUE) \in Keys
  BY CacheAssumption
<1>3. key \in [Procs -> Keys]
  BY <1>2 DEF Init
<1>4. Nothing \in [artifact : 0 .. Partial, files : SUBSET Versions, whole : 0 .. MaxVersion]
  BY VersionFacts DEF Nothing
<1>5. TypeOK
  BY <1>3, <1>4, VersionFacts, EmptyIndexFacts DEF Init, TypeOK
<1>6. Locked
  BY <1>1 DEF Locked, Holding
<1>7. Sound
  <2>1. Local \subseteq Keys /\ Embedded \subseteq Keys /\ Vouched \subseteq Keys
    BY CacheAssumption DEF Vouched
  <2> QED BY <1>1, <2>1, EmptyIndexFacts DEF Init, Sound
<1>8. ASSUME NEW p \in Procs PROVE Work(p) /\ Use(p)
  <2>1. pc[p] = "idle"
    BY <1>1
  <2>2. Placed(p) /\ Fetched(p) /\ Kept(p)
    BY <2>1 DEF Placed, Fetched, Fetching, Kept, Served
  <2>3. Copied(p) /\ Cleaning(p) /\ Wiping(p) /\ Use(p)
    BY <2>1 DEF Copied, Holding, Cleaning, Wiping, Use, Using
  <2> QED BY <2>2, <2>3 DEF Work
<1> QED BY <1>5, <1>6, <1>7, <1>8 DEF CInv

\* Nothing happens.
LEMMA StutterCInv == ASSUME CInv, UNCHANGED vars PROVE CInv'
<1>1. /\ UNCHANGED <<disk, upstream, guard, removed, calls>>
      /\ UNCHANGED <<pc, key, mode, mem, todo, result, handed>>
  BY DEF vars, local
<1>2. TypeOK' /\ Locked' /\ Sound'
  BY <1>1, SoundKept DEF CInv, TypeOK, Locked, disk, guard
<1>3. ASSUME NEW q \in Procs PROVE Work(q)' /\ Use(q)'
  BY <1>1, Undisturbed, UseKept DEF CInv, disk
<1> QED BY <1>2, <1>3 DEF CInv

\* Every step keeps it.
LEMMA NextCInv == CInv /\ [Next]_vars => CInv'
<1> SUFFICES ASSUME CInv, [Next]_vars PROVE CInv'
  OBVIOUS
<1>1. ASSUME NEW p \in Procs, Step(p) PROVE CInv'
  <2>1. CASE withExclusiveLock(p) \/ Unlock(p)
    BY <2>1, LockCInv, UnlockCInv
  <2>2. CASE AcquireTimeout(p) \/ Used(p)
    BY <2>2, CallCInv
  <2>3. CASE Resolve(p) \/ Fetch(p) \/ FetchFails(p) \/ Verify(p)
    BY <2>3, ResolveCInv, FetchCInv, FetchFailsCInv, VerifyCInv
  <2>4. CASE Extract(p) \/ ExtractFails(p) \/ RecordEntry(p)
    BY <2>4, ExtractCInv, ExtractFailsCInv, RecordCInv
  <2>5. CASE PlanAfterGet(p) \/ PlanClean(p) \/ CleanFails(p) \/ WriteIndexFails(p)
    BY <2>5, PlanAfterGetCInv, PlanCleanCInv, FailsCInv
  <2>6. CASE Removed(p) \/ RemoveIndex(p) \/ WriteIndex(p)
    BY <2>6, RemovedCInv, RemoveIndexCInv, WriteIndexCInv
  <2>7. CASE \E k \in Keys : RemoveEntry(p, k) \/ RemoveFails(p, k)
    BY <2>7, RemoveEntryCInv, RemoveFailsCInv
  <2> QED BY <1>1, <2>1, <2>2, <2>3, <2>4, <2>5, <2>6, <2>7 DEF Step
<1>2. ASSUME NEW p \in Procs,
             (\E k \in Keys : CallGet(p, k)) \/ (\E m \in CleanModes : CallClean(p, m))
      PROVE  CInv'
  BY <1>2, CallCInv
<1>3. ASSUME NEW p \in Procs, Crash(p) \/ Interrupt(p) PROVE CInv'
  BY <1>3, EndCInv
<1>4. CASE ForceUnlock \/ (\E k \in Keys : Publish(k)) \/ Retire \/ DamageIndex
  BY <1>4, WorldCInv
<1>5. CASE UNCHANGED vars
  BY <1>5, StutterCInv
<1> QED BY <1>1, <1>2, <1>3, <1>4, <1>5 DEF Next

\* CInv holds at all times.
LEMMA CInvariance == Spec => []CInv
  BY InitCInv, NextCInv, PTL DEF Spec

\* The state of the cache keeps its types, whatever calls are made, fail or die.
THEOREM CacheTypeCorrect == Spec => []TypeOK
<1>1. CInv => TypeOK
  BY DEF CInv
<1> QED BY <1>1, CInvariance, PTL

\* What Get hands out is there, and is the genuine artifact unless a cleanup had begun to
\* remove it, however many launchers resolve, clean, fail and die (resolveUnderLock,
\* refresh, cleanupStaleIfDue).
THEOREM GetIsSound == Spec => []HandedSound
<1>1. CInv => HandedSound
  BY DEF CInv, Use, HandedSound, HandedExists, GenuineUnlessRemoved, Vouched
<1> QED BY <1>1, CInvariance, PTL

\* A full cleanup that reports success leaves nothing (wipeCacheContents).
THEOREM CleanAllIsFull == Spec => []FullCleanupEmpties
<1>1. CInv => FullCleanupEmpties
  BY DEF CInv, Work, Wiping, Emptied, Empty, FullCleanupEmpties
<1> QED BY <1>1, CInvariance, PTL

-----------------------------------------------------------------------------
(* Artifacts in use *)

\* Only the holder of the lock changes what a path leads to, and only where its call has
\* come to; what it changes is not listed in the index, not there, or old, unless the user
\* asked for its removal.
LEMMA ContentSteps ==
    ASSUME CInv, [Next]_vars, NEW k \in Keys, HasIdentity(k), index.entries[k] = "fresh", Exists(k),
           ~ \E q \in Procs : pc[q] = "removing" /\ mode[q] \in {"all", "invalid"}
    PROVE  Content(k)' = Content(k)
<1>1. CASE UNCHANGED <<artifact, files, whole>>
  BY <1>1 DEF Content
<1>2. ASSUME NEW p \in Procs, pc[p] = "fetching", UNCHANGED <<files, whole>>,
             \A j \in Keys \ {key[p]} : artifact'[j] = artifact[j]
      PROVE  Content(k)' = Content(k)
  <2>1. k # key[p]
    BY <1>2 DEF CInv, Work, Fetched
  <2> QED BY <1>2, <2>1 DEF Content
<1>3. ASSUME NEW p \in Procs, pc[p] = "extracting",
             \A j \in Keys \ {key[p]} : files'[j] = files[j] /\ whole'[j] = whole[j],
             UNCHANGED artifact
      PROVE  Content(k)' = Content(k)
  <2>1. k # key[p]
    BY <1>3 DEF CInv, Work, Fetched, Exists
  <2> QED BY <1>3, <2>1 DEF Content
<1>4. ASSUME NEW p \in Procs, pc[p] = "removing", NEW j \in todo[p],
             \A i \in Keys \ {j} : artifact'[i] = artifact[i] /\ files'[i] = files[i] /\ whole'[i] = whole[i]
      PROVE  Content(k)' = Content(k)
  <2>1. j \in Keys /\ mode[p] \in {"get", "stale"}
    BY <1>4 DEF CInv, TypeOK, Work, Placed
  <2>2. mem[p].entries[j] = "old" /\ index.entries[j] = "old"
    BY <1>4, <2>1 DEF CInv, Work, Cleaning, Copied, Holding
  <2> QED BY <1>4, <2>2 DEF Content
<1>5. /\ artifact \in [Keys -> 0 .. Partial] /\ files \in [Keys -> SUBSET Versions]
      /\ whole \in [Keys -> 0 .. MaxVersion]
      /\ \A p \in Procs : todo[p] \subseteq Keys
  BY DEF CInv, TypeOK
<1>6. ASSUME NEW p \in Procs, NEW j \in todo[p], pc[p] = "removing", RemovePart(j)
      PROVE  Content(k)' = Content(k)
  <2>1. \A i \in Keys \ {j} : artifact'[i] = artifact[i] /\ files'[i] = files[i] /\ whole'[i] = whole[i]
    BY <1>5, <1>6 DEF RemovePart
  <2> QED BY <1>4, <1>6, <2>1
<1>7. ASSUME NEW p \in Procs, CutShort(p) PROVE Content(k)' = Content(k)
  <2>1. CASE UNCHANGED <<disk, removed>>
    BY <1>1, <2>1 DEF disk
  <2>2. CASE /\ pc[p] = "fetching" /\ artifact' = [artifact EXCEPT ![key[p]] = Partial]
             /\ UNCHANGED <<index, files, whole, removed>>
    BY <1>2, <1>5, <2>2
  <2>3. CASE pc[p] = "extracting" /\ ExtractPart(key[p]) /\ UNCHANGED <<index, artifact, removed>>
    BY <1>3, <1>5, <2>3 DEF ExtractPart
  <2>4. CASE pc[p] = "removing" /\ \E j \in todo[p] : RemovePart(j)
    BY <1>6, <2>4
  <2> QED BY <1>7, <2>1, <2>2, <2>3, <2>4 DEF CutShort
<1>8. ASSUME NEW p \in Procs, Step(p) PROVE Content(k)' = Content(k)
  <2>1. CASE UNCHANGED <<artifact, files, whole>>
    BY <1>1, <2>1
  <2>2. CASE Fetch(p)
    BY <1>2, <1>5, <2>2 DEF Fetch
  <2>3. CASE FetchFails(p)
    <3>1. \A j \in Keys \ {key[p]} : artifact'[j] = artifact[j]
      BY <1>5, <2>3 DEF FetchFails
    <3> QED BY <1>2, <2>3, <3>1 DEF FetchFails
  <2>4. CASE Extract(p)
    BY <1>3, <1>5, <2>4 DEF Extract
  <2>5. CASE ExtractFails(p)
    BY <1>3, <1>5, <2>5 DEF ExtractFails, ExtractPart
  <2>6. ASSUME NEW j \in Keys, RemoveEntry(p, j) PROVE Content(k)' = Content(k)
    <3>1. pc[p] = "removing" /\ j \in todo[p]
          /\ artifact' = [artifact EXCEPT ![j] = Missing] /\ files' = [files EXCEPT ![j] = {}]
          /\ whole' = [whole EXCEPT ![j] = 0]
      BY <2>6 DEF RemoveEntry
    <3>2. \A i \in Keys \ {j} : artifact'[i] = artifact[i] /\ files'[i] = files[i] /\ whole'[i] = whole[i]
      BY <1>5, <3>1
    <3> QED BY <1>4, <3>1, <3>2
  <2>7. ASSUME NEW j \in Keys, RemoveFails(p, j) PROVE Content(k)' = Content(k)
    BY <1>6, <2>7 DEF RemoveFails
  <2>8. ASSUME withExclusiveLock(p) \/ AcquireTimeout(p) \/ Unlock(p) \/ Used(p) \/ Resolve(p)
               \/ Verify(p) \/ RecordEntry(p) \/ PlanAfterGet(p) \/ PlanClean(p) \/ CleanFails(p)
               \/ Removed(p) \/ RemoveIndex(p) \/ WriteIndex(p) \/ WriteIndexFails(p)
        PROVE  UNCHANGED <<artifact, files, whole>>
    BY <2>8 DEF withExclusiveLock, AcquireTimeout, Unlock, Used, Resolve, Verify, RecordEntry,
       PlanAfterGet, PlanClean, CleanFails, Removed, RemoveIndex, WriteIndex, WriteIndexFails, disk
  <2> QED BY <1>8, <2>1, <2>2, <2>3, <2>4, <2>5, <2>6, <2>7, <2>8 DEF Step
<1>9. ASSUME NEW p \in Procs,
             (\E j \in Keys : CallGet(p, j)) \/ (\E m \in CleanModes : CallClean(p, m))
      PROVE  UNCHANGED <<artifact, files, whole>>
  BY <1>9 DEF CallGet, CallClean, disk
<1>10. ASSUME NEW p \in Procs, Crash(p) \/ Interrupt(p) PROVE Content(k)' = Content(k)
  BY <1>7, <1>10 DEF Crash, Interrupt
<1>11. ASSUME ForceUnlock \/ (\E j \in Keys : Publish(j)) \/ Retire \/ DamageIndex \/ UNCHANGED vars
       PROVE  UNCHANGED <<artifact, files, whole>>
  BY <1>11 DEF ForceUnlock, Publish, Retire, DamageIndex, vars, disk
<1> QED BY <1>1, <1>8, <1>9, <1>10, <1>11 DEF Next

\* Where a path is being used, the process goes on to use the same key or stops using it:
\* it asks for another only in its next call.
LEMMA KeySteps ==
    ASSUME CInv, [Next]_vars, NEW p \in Procs, pc[p] = "using"
    PROVE  key'[p] = key[p]
<1> SUFFICES ASSUME NEW q \in Procs, NEW k \in Keys, CallGet(q, k) PROVE key'[p] = key[p]
  BY DEF Next, CallClean, Step, withExclusiveLock, AcquireTimeout, Unlock, Used, Resolve, Fetch,
     FetchFails, Verify, Extract, ExtractFails, RecordEntry, PlanAfterGet, PlanClean, CleanFails,
     Removed, RemoveIndex, RemoveEntry, RemoveFails, WriteIndex, WriteIndexFails, Crash, Interrupt,
     Gone, Publish, ForceUnlock, Retire, DamageIndex, vars, local
<1>1. q # p
  BY DEF CallGet
<1> QED BY <1>1 DEF CallGet, CInv, TypeOK

\* An artifact with an identity that the index lists stays as it is while it is used,
\* although the lock is released: only a cleanup that the user asks for takes it away
\* (cleanupStaleIfDue removes what is old, Get fetches what is missing).
THEOREM UsedArtifactsStay == Spec => InUseKept
<1> DEFINE Stays(p) == (/\ Using(p) /\ HasIdentity(key[p]) /\ index.entries[key[p]] # "none"
                        /\ Content(key[p]) = handed[p])
                       => \/ Content(key[p])' = handed[p]
                          \/ \E q \in Procs : pc[q] = "removing" /\ mode[q] \in {"all", "invalid"}
<1>1. ASSUME CInv, [Next]_vars, NEW p \in Procs PROVE Stays(p)
  <2> SUFFICES ASSUME Using(p), HasIdentity(key[p]), index.entries[key[p]] # "none",
                      Content(key[p]) = handed[p],
                      ~ \E q \in Procs : pc[q] = "removing" /\ mode[q] \in {"all", "invalid"}
               PROVE  Content(key[p])' = handed[p]
    OBVIOUS
  <2>1. key[p] \in Keys /\ index.entries[key[p]] \in Lookups
    <3>1. key[p] \in Keys /\ index \in Index
      BY <1>1 DEF CInv, TypeOK
    <3> QED BY <3>1 DEF Index
  <2>2. index.entries[key[p]] = "fresh" /\ (handed[p].artifact # Missing \/ handed[p].files # {})
    BY <2>1, <1>1 DEF CInv, Use, Lookups
  <2>3. Exists(key[p])
    BY <1>1, <2>1, <2>2, ContentFacts
  <2>4. key'[p] = key[p]
    BY <1>1, KeySteps DEF Using
  <2>5. \A k \in Keys : k = key[p] => Content(k)' = Content(k)
    BY <1>1, <2>1, <2>2, <2>3, ContentSteps
  <2> QED BY <2>1, <2>4, <2>5 DEF Content
<1>2. CInv /\ [Next]_vars => [\A p \in Procs : Stays(p)]_vars
  BY <1>1
<1> QED BY <1>2, CInvariance, PTL DEF Spec, InUseKept
=============================================================================
