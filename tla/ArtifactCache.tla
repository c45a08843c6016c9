---------------------------- MODULE ArtifactCache ----------------------------
(***************************************************************************)
(* internal/runtimeartifacts: the per-user cache of downloaded tools and   *)
(* images.  Every launcher of a user resolves artifacts in it (Get), and   *)
(* users clean it (Clean).  Each call works under the cache's exclusive    *)
(* lock, which DirectoryMutex models, on three things that no file-system  *)
(* call changes together: the index, the fetched artifact, and the tree    *)
(* unpacked from it.  A path that Get returns is used after the lock is    *)
(* released.                                                               *)
(*                                                                         *)
(* Contents are versions: version 1 of a checked or embedded artifact is   *)
(* the one its checksum names.                                             *)
(***************************************************************************)
EXTENDS Naturals

CONSTANTS
    Procs,      \* launcher processes
    Keys,       \* cache keys, one for each identity of an artifact
    Checked,    \* downloads with a checksum
    Embedded,   \* compiled into the binary
    Local,      \* archives named by a file:// path, identified by that path
    Git,        \* repositories, identified by a commit
    Extracted,  \* archives that are unpacked
    CleanModes, \* the cleanups users run
    Faults,     \* what may go wrong
    MaxVersion, \* bound: versions a source publishes
    MaxCalls    \* bound: calls in one behaviour

AllCleanModes == {"stale", "invalid", "all", "partial-downloads", "dry-run"}

AllFaults == {"crash", "signal", "io", "index"}

ASSUME CacheAssumption ==
    /\ Keys # {}
    /\ \A S \in {Checked, Embedded, Local, Git, Extracted} : S \subseteq Keys
    /\ \A k \in Keys : k \notin Checked \cap Embedded
    /\ Embedded \cap Local = {}
    /\ Local \subseteq Extracted
    /\ CleanModes \subseteq AllCleanModes
    /\ Faults \subseteq AllFaults
    /\ MaxVersion \in Nat \ {0}
    /\ MaxCalls \in Nat

VARIABLES
    index,      \* index.json
    artifact,   \* the downloaded file of each entry
    files,      \* the versions with files in each unpacked tree
    whole,      \* the version all of whose files are there, unaltered
    upstream,   \* what each source serves now
    lock,       \* the process that holds the cache lock
    stale,      \* the lock's holder is gone
    pc,         \* where each process stands in its call
    key,        \* the artifact its Get asks for
    mode,       \* "get", or the mode of its Clean
    mem,        \* its copy of the index
    todo,       \* entries it has still to remove
    result,     \* "ok" or "error"
    handed,     \* what its path led to when Get returned it
    removed,    \* history: entries whose removal has been started
    calls       \* calls made so far

disk == <<index, artifact, files, whole>>
guard == <<lock, stale>>
local == <<key, mode, mem, todo, result, handed>>
vars == <<disk, upstream, guard, pc, local, removed, calls>>

Versions == 1 .. MaxVersion

\* No file at all, and a file that was not written to its end.
Missing == 0
Partial == MaxVersion + 1

Lookups == {"none", "fresh", "old"}

\* The last use of each entry is within the retention period or before it; a
\* cleanup is due when the last one was more than a day ago.
Index == [readable : BOOLEAN, entries : [Keys -> Lookups], due : BOOLEAN]

\* emptyCacheIndex, which also stands for a missing index.json
emptyCacheIndex == [readable |-> TRUE, entries |-> [k \in Keys |-> "none"], due |-> TRUE]

\* Program points under the lock.
Holding == {"reading", "fetching", "verifying", "extracting", "recording",
            "planning", "removing", "resetting", "writing", "unlocking"}

TypeOK ==
    /\ index \in Index
    /\ artifact \in [Keys -> 0 .. Partial]
    /\ files \in [Keys -> SUBSET Versions]
    /\ whole \in [Keys -> 0 .. MaxVersion]
    /\ upstream \in [Keys -> Versions]
    /\ lock \subseteq Procs
    /\ stale \in BOOLEAN
    /\ pc \in [Procs -> Holding \cup {"idle", "acquiring", "using"}]
    /\ key \in [Procs -> Keys]
    /\ mode \in [Procs -> AllCleanModes \cup {"get"}]
    /\ mem \in [Procs -> Index]
    /\ todo \in [Procs -> SUBSET Keys]
    /\ result \in [Procs -> {"ok", "error"}]
    /\ handed \in [Procs -> [artifact : 0 .. Partial, files : SUBSET Versions, whole : 0 .. MaxVersion]]
    /\ removed \subseteq Keys
    /\ calls \in Nat

Nothing == [artifact |-> Missing, files |-> {}, whole |-> 0]

\* What the path of an entry leads to.
Content(k) ==
    IF k \in Extracted
    THEN [artifact |-> Missing, files |-> files[k], whole |-> whole[k]]
    ELSE [artifact |-> artifact[k], files |-> {}, whole |-> 0]

Init ==
    /\ index = emptyCacheIndex
    /\ artifact = [k \in Keys |-> Missing]
    /\ files = [k \in Keys |-> {}]
    /\ whole = [k \in Keys |-> 0]
    /\ upstream = [k \in Keys |-> 1]
    /\ lock = {}
    /\ stale = FALSE
    /\ pc = [p \in Procs |-> "idle"]
    /\ key \in [Procs -> {CHOOSE k \in Keys : TRUE}]
    /\ mode = [p \in Procs |-> "get"]
    /\ mem = [p \in Procs |-> emptyCacheIndex]
    /\ todo = [p \in Procs |-> {}]
    /\ result = [p \in Procs |-> "ok"]
    /\ handed = [p \in Procs |-> Nothing]
    /\ removed = {}
    /\ calls = 0

Goto(p, to) == pc' = [pc EXCEPT ![p] = to]

\* A call ends with an error, and releases the lock.
Fail(p) == Goto(p, "unlocking") /\ result' = [result EXCEPT ![p] = "error"]

-----------------------------------------------------------------------------
(* The lock *)

\* A launcher calls Get for an artifact ...
CallGet(p, k) ==
    /\ pc[p] = "idle"
    /\ calls < MaxCalls
    /\ calls' = calls + 1
    /\ Goto(p, "acquiring")
    /\ key' = [key EXCEPT ![p] = k]
    /\ mode' = [mode EXCEPT ![p] = "get"]
    /\ UNCHANGED <<disk, upstream, guard, mem, todo, result, handed, removed>>

\* ... or a user runs `exasol cache clean`.
CallClean(p, m) ==
    /\ pc[p] = "idle"
    /\ calls < MaxCalls
    /\ calls' = calls + 1
    /\ Goto(p, "acquiring")
    /\ mode' = [mode EXCEPT ![p] = m]
    /\ UNCHANGED <<disk, upstream, guard, key, mem, todo, result, handed, removed>>

\* Mutant: the cache is used without its lock.
LockFreeAlways == stale \in BOOLEAN

LockFree == lock = {} /\ ~stale

withExclusiveLock(p) ==
    /\ pc[p] = "acquiring"
    /\ LockFree
    /\ lock' = {p}
    /\ Goto(p, "reading")
    /\ UNCHANGED <<disk, upstream, stale, local, removed, calls>>

\* ErrCacheLocked
AcquireTimeout(p) ==
    /\ pc[p] = "acquiring"
    /\ ~LockFree
    /\ Goto(p, "idle")
    /\ UNCHANGED <<disk, upstream, guard, local, removed, calls>>

\* The call's own variables go out of scope with it.
Forget(p) ==
    /\ mem' = [mem EXCEPT ![p] = emptyCacheIndex]
    /\ result' = [result EXCEPT ![p] = "ok"]

\* The lock is released.  The caller of Get goes on to use the path.
Unlock(p) ==
    /\ pc[p] = "unlocking"
    /\ lock' = lock \ {p}
    /\ IF mode[p] = "get" /\ result[p] = "ok"
       THEN Goto(p, "using") /\ handed' = [handed EXCEPT ![p] = Content(key[p])]
       ELSE Goto(p, "idle") /\ UNCHANGED handed
    /\ Forget(p)
    /\ UNCHANGED <<disk, upstream, stale, key, mode, todo, removed, calls>>

\* It is done with the artifact.
Used(p) ==
    /\ pc[p] = "using"
    /\ Goto(p, "idle")
    /\ handed' = [handed EXCEPT ![p] = Nothing]
    /\ UNCHANGED <<disk, upstream, guard, key, mode, mem, todo, result, removed, calls>>

-----------------------------------------------------------------------------
(* Get *)

\* os.Stat of the resolved path
Exists(k) == IF k \in Extracted THEN files[k] # {} ELSE artifact[k] # Missing

\* An artifact without any identity is fetched again at each request.
HasIdentity(k) == k \in Checked \cup Embedded \cup Local \cup Git

\* Mutant: a hit does not record its use.
TouchedNot(entries, k) == [entries EXCEPT ![k] = IF @ = "none" THEN "fresh" ELSE @]

Touched(entries, k) == [entries EXCEPT ![k] = "fresh"]

\* resolveUnderLock: getCacheEntry finds the entry and its path, and takes it as
\* it is, or the artifact has to be fetched.
Resolve(p) ==
    LET k == key[p]
        hit == HasIdentity(k) /\ index.entries[k] # "none" /\ Exists(k) IN
    /\ pc[p] = "reading" /\ mode[p] = "get"
    /\ \/ ~index.readable /\ Fail(p) /\ UNCHANGED mem
       \/ /\ index.readable
          /\ mem' = [mem EXCEPT ![p] = IF hit THEN [index EXCEPT !.entries = Touched(@, k)]
                                              ELSE index]
          /\ Goto(p, IF hit THEN "planning" ELSE "fetching")
          /\ UNCHANGED result
    /\ UNCHANGED <<disk, upstream, guard, key, mode, todo, handed, removed, calls>>

\* fetch, resolveEmbedded.  A local archive stays where it is.
Fetch(p) ==
    LET k == key[p] IN
    /\ pc[p] = "fetching"
    /\ artifact' = [artifact EXCEPT ![k] = IF k \in Local THEN @
                                           ELSE IF k \in Embedded THEN 1 ELSE upstream[k]]
    /\ Goto(p, "verifying")
    /\ UNCHANGED <<index, files, whole, upstream, guard, local, removed, calls>>

\* A source cannot be reached, or breaks off.  An HTTP download goes to a
\* temporary file, a Docker image is removed from its place, embedded data is not.
FetchFails(p) ==
    LET k == key[p] IN
    /\ pc[p] = "fetching"
    /\ k \in Embedded => "io" \in Faults
    /\ artifact' \in {artifact, [artifact EXCEPT ![k] = IF k \in Embedded THEN Partial
                                                     ELSE IF k \in Local THEN @ ELSE Missing]}
    /\ Fail(p)
    /\ UNCHANGED <<index, files, whole, upstream, guard, key, mode, mem, todo, handed, removed, calls>>

\* The file has the checksum of the definition, if there is one.
Verified(k) == k \in Checked => artifact[k] = 1

\* verifyFetchedChecksum.  A rejected file stays where it is.
Verify(p) ==
    LET k == key[p] IN
    /\ pc[p] = "verifying"
    /\ \/ Verified(k) /\ Goto(p, IF k \in Extracted THEN "extracting" ELSE "recording")
          /\ UNCHANGED result
       \/ ~Verified(k) /\ Fail(p)
    /\ UNCHANGED <<disk, upstream, guard, key, mode, mem, todo, handed, removed, calls>>

\* The version that is unpacked: of the local archive, or of the fetched one.
Archived(k) == IF k \in Local THEN upstream[k] ELSE artifact[k]

\* extract: the files of the archive replace files of the same name, and leave
\* all others.
Extract(p) ==
    LET k == key[p] IN
    /\ pc[p] = "extracting"
    /\ files' = [files EXCEPT ![k] = @ \cup {Archived(k)}]
    /\ whole' = [whole EXCEPT ![k] = Archived(k)]
    /\ Goto(p, "recording")
    /\ UNCHANGED <<index, artifact, upstream, guard, local, removed, calls>>

\* Some of the files are written.
ExtractPart(k) ==
    /\ files' = [files EXCEPT ![k] = @ \cup {Archived(k)}]
    /\ whole' = [whole EXCEPT ![k] = 0]

\* The archive is broken, or the disk is full.
ExtractFails(p) ==
    /\ "io" \in Faults
    /\ pc[p] = "extracting"
    /\ ExtractPart(key[p])
    /\ Fail(p)
    /\ UNCHANGED <<index, artifact, upstream, guard, key, mode, mem, todo, handed, removed, calls>>

\* refresh puts the entry into the index.
RecordEntry(p) ==
    /\ pc[p] = "recording"
    /\ mem' = [mem EXCEPT ![p].entries = Touched(@, key[p])]
    /\ Goto(p, "planning")
    /\ UNCHANGED <<disk, upstream, guard, key, mode, todo, result, handed, removed, calls>>

-----------------------------------------------------------------------------
(* Cleanup *)

\* isEntryStale
Stale(entries) == {k \in Keys : entries[k] = "old"}

\* checkIntegrity looks at the downloaded file only, which a local archive does
\* not have and for which an unchecked one has no checksum.
Invalid(entries) ==
    {k \in Keys :
        /\ entries[k] # "none"
        /\ ~(k \in Checked \cup Embedded /\ artifact[k] = 1)
        /\ ~(k \in Git /\ artifact[k] # Missing)}

\* cleanupStaleIfDue, at the end of Get, which goes on without a cleanup if the
\* cache's configuration cannot be read.
PlanAfterGet(p) ==
    /\ pc[p] = "planning"
    /\ \/ mem[p].due /\ Goto(p, "removing")
          /\ todo' = [todo EXCEPT ![p] = Stale(mem[p].entries)]
       \/ ~mem[p].due /\ Goto(p, "writing") /\ UNCHANGED todo
       \/ mem[p].due /\ "io" \in Faults /\ Goto(p, "writing") /\ UNCHANGED todo
    /\ UNCHANGED <<disk, upstream, guard, key, mode, mem, result, handed, removed, calls>>

\* Mutant: only what the index lists is removed.
WipeIndexedOnly(p) ==
    /\ pc[p] = "reading" /\ mode[p] # "get"
    /\ mem' = [mem EXCEPT ![p] = IF index.readable THEN index ELSE emptyCacheIndex]
    /\ Goto(p, "removing")
    /\ todo' = [todo EXCEPT ![p] = {k \in Keys : index.readable /\ index.entries[k] # "none"}]
    /\ UNCHANGED <<disk, upstream, guard, key, mode, result, handed, removed, calls>>

\* cleanIndexedEntries; an index that cannot be read counts as empty.  Nothing
\* is ever put into the directory that the partial downloads are removed from.
PlanClean(p) ==
    LET current == IF index.readable THEN index ELSE emptyCacheIndex IN
    /\ pc[p] = "reading" /\ mode[p] # "get"
    /\ mem' = [mem EXCEPT ![p] = current]
    /\ IF mode[p] \in {"partial-downloads", "dry-run"}
       THEN Goto(p, "unlocking") /\ UNCHANGED todo
       ELSE /\ Goto(p, "removing")
            /\ todo' = [todo EXCEPT ![p] =
                    IF mode[p] = "all" THEN Keys
                    ELSE IF mode[p] = "invalid" THEN Invalid(current.entries)
                    ELSE Stale(current.entries)]
    /\ UNCHANGED <<disk, upstream, guard, key, mode, result, handed, removed, calls>>

\* EnsureCacheConfig fails.
CleanFails(p) ==
    /\ "io" \in Faults
    /\ pc[p] = "reading" /\ mode[p] # "get"
    /\ Fail(p)
    /\ UNCHANGED <<disk, upstream, guard, key, mode, mem, todo, handed, removed, calls>>

\* os.RemoveAll of an entry's directory; its entry is deleted in memory.
RemoveEntry(p, k) ==
    /\ pc[p] = "removing" /\ k \in todo[p]
    /\ artifact' = [artifact EXCEPT ![k] = Missing]
    /\ files' = [files EXCEPT ![k] = {}]
    /\ whole' = [whole EXCEPT ![k] = 0]
    /\ mem' = [mem EXCEPT ![p].entries[k] = "none"]
    /\ todo' = [todo EXCEPT ![p] = @ \ {k}]
    /\ removed' = removed \cup {k}
    /\ UNCHANGED <<index, upstream, guard, pc, key, mode, result, handed, calls>>

\* Some of the directory is removed.
RemovePart(k) ==
    /\ artifact' \in {artifact, [artifact EXCEPT ![k] = Missing]}
    /\ files' \in {files, [files EXCEPT ![k] = {}]}
    /\ whole' = [whole EXCEPT ![k] = 0]

\* os.RemoveAll fails, on a file in use say.  Get warns and goes on, Clean
\* returns before the index is written.
RemoveFails(p, k) ==
    /\ "io" \in Faults
    /\ pc[p] = "removing" /\ k \in todo[p]
    /\ RemovePart(k)
    /\ todo' = [todo EXCEPT ![p] = {}]
    /\ removed' = removed \cup {k}
    /\ IF mode[p] = "get" THEN Goto(p, "writing") /\ UNCHANGED result ELSE Fail(p)
    /\ UNCHANGED <<index, upstream, guard, key, mode, mem, handed, calls>>

\* All are removed; the time of this cleanup is noted.  A full cleanup goes on to
\* remove index.json.
Removed(p) ==
    /\ pc[p] = "removing" /\ todo[p] = {}
    /\ mem' = [mem EXCEPT ![p].due = FALSE]
    /\ Goto(p, IF mode[p] = "all" THEN "resetting" ELSE "writing")
    /\ UNCHANGED <<disk, upstream, guard, key, mode, todo, result, handed, removed, calls>>

\* wipeCacheContents comes to index.json, after the artifacts.
RemoveIndex(p) ==
    /\ pc[p] = "resetting"
    /\ index' = emptyCacheIndex
    /\ Goto(p, "writing")
    /\ UNCHANGED <<artifact, files, whole, upstream, guard, local, removed, calls>>

\* writeIndex: a temporary file is renamed to index.json.
WriteIndex(p) ==
    /\ pc[p] = "writing"
    /\ index' = mem[p]
    /\ Goto(p, "unlocking")
    /\ UNCHANGED <<artifact, files, whole, upstream, guard, local, removed, calls>>

\* index.json cannot be written, or not be removed.
WriteIndexFails(p) ==
    /\ "io" \in Faults
    /\ pc[p] \in {"resetting", "writing"}
    /\ Fail(p)
    /\ UNCHANGED <<disk, upstream, guard, key, mode, mem, todo, handed, removed, calls>>

-----------------------------------------------------------------------------
(* The environment *)

\* What a process leaves on the disk when it ends in the middle of a step.
CutShort(p) ==
    \/ UNCHANGED <<disk, removed>>
    \/ /\ pc[p] = "fetching" /\ key[p] \notin Local
       /\ artifact' = [artifact EXCEPT ![key[p]] = Partial]
       /\ UNCHANGED <<index, files, whole, removed>>
    \/ /\ pc[p] = "extracting"
       /\ ExtractPart(key[p])
       /\ UNCHANGED <<index, artifact, removed>>
    \/ /\ pc[p] = "removing"
       /\ \E k \in todo[p] : RemovePart(k) /\ removed' = removed \cup {k}
       /\ UNCHANGED index

Gone(p) ==
    /\ Goto(p, "idle")
    /\ todo' = [todo EXCEPT ![p] = {}]
    /\ lock' = lock \ {p}
    /\ Forget(p)
    /\ handed' = [handed EXCEPT ![p] = Nothing]
    /\ UNCHANGED <<upstream, key, mode, calls>>

\* The process is killed: its lock stays.
Crash(p) ==
    /\ "crash" \in Faults
    /\ pc[p] # "idle"
    /\ CutShort(p)
    /\ Gone(p)
    /\ stale' = (stale \/ p \in lock)

\* SIGINT or SIGTERM: the handler of the lock releases it and the process exits.
\* (What the main goroutine still does in between is not modelled here.)
Interrupt(p) ==
    /\ "signal" \in Faults
    /\ pc[p] # "idle"
    /\ CutShort(p)
    /\ Gone(p)
    /\ UNCHANGED stale

\* `exasol cache unlock`, used as documented: no launcher is using the cache.
ForceUnlock ==
    /\ stale /\ \A p \in Procs : pc[p] \in {"idle", "using"}
    /\ stale' = FALSE
    /\ UNCHANGED <<disk, upstream, lock, pc, local, removed, calls>>

\* A source changes what it serves.
Publish(k) ==
    /\ k \notin Embedded /\ upstream[k] < MaxVersion
    /\ upstream' = [upstream EXCEPT ![k] = @ + 1]
    /\ UNCHANGED <<disk, guard, pc, local, removed, calls>>

\* More than the retention period passes, which is at least a day: every entry
\* is old, and a cleanup due.  No call and no use takes that long.
Retire ==
    /\ index.readable
    /\ \A p \in Procs : pc[p] = "idle"
    /\ index' = [index EXCEPT !.entries = [k \in Keys |-> IF @[k] = "fresh" THEN "old" ELSE @[k]],
                              !.due = TRUE]
    /\ UNCHANGED <<artifact, files, whole, upstream, guard, pc, local, removed, calls>>

\* The index is one of another launcher version, or damaged, when the next
\* launcher starts to use it.
DamageIndex ==
    /\ "index" \in Faults
    /\ index.readable /\ \A p \in Procs : pc[p] = "idle"
    /\ index' = [index EXCEPT !.readable = FALSE]
    /\ UNCHANGED <<artifact, files, whole, upstream, guard, pc, local, removed, calls>>

Step(p) ==
    \/ withExclusiveLock(p) \/ AcquireTimeout(p) \/ Unlock(p) \/ Used(p)
    \/ Resolve(p) \/ Fetch(p) \/ FetchFails(p) \/ Verify(p)
    \/ Extract(p) \/ ExtractFails(p) \/ RecordEntry(p)
    \/ PlanAfterGet(p) \/ PlanClean(p) \/ CleanFails(p) \/ Removed(p) \/ RemoveIndex(p)
    \/ \E k \in Keys : RemoveEntry(p, k) \/ RemoveFails(p, k)
    \/ WriteIndex(p) \/ WriteIndexFails(p)

Next ==
    \/ \E p \in Procs :
        \/ \E k \in Keys : CallGet(p, k)
        \/ \E m \in CleanModes : CallClean(p, m)
        \/ Step(p) \/ Crash(p) \/ Interrupt(p)
    \/ \E k \in Keys : Publish(k)
    \/ ForceUnlock \/ Retire \/ DamageIndex

Spec == Init /\ [][Next]_vars

-----------------------------------------------------------------------------
(* Properties *)

\* The path of p's Get is being used.
Using(p) == pc[p] = "using"

\* What Get hands out is there, although the cleanup at its end removes entries
\* and may fail half way: the entry's use is noted before what is stale is
\* planned (getCacheEntry, refresh, writeIndexAfterCleanup).
HandedExists ==
    \A p \in Procs :
        Using(p) => handed[p].artifact # Missing \/ handed[p].files # {}

\* What the checksum or the binary vouches for, and nothing else.
Genuine(content) == content.artifact = 1 \/ (content.files = {1} /\ content.whole = 1)

\* A checked or embedded artifact is handed out only if it is what was verified,
\* whole and with nothing else beside it, wherever earlier calls were cut short,
\* as long as no cleanup has begun to remove it: an entry gets into the index
\* after its files (refresh).
GenuineUnlessRemoved ==
    \A p \in Procs :
        Using(p) /\ key[p] \in (Checked \cup Embedded) \ removed => Genuine(handed[p])

\* What Get hands out is sound: it is there, and it is the genuine artifact unless a
\* cleanup had begun to remove it.
HandedSound == HandedExists /\ GenuineUnlessRemoved

\* An artifact with an identity that the index lists stays as it is while a launcher
\* uses it, though the lock is released and other launchers resolve, clean what is
\* stale, fail and die: only a cleanup that the user asks for, of all or of invalid
\* entries, takes it away.  (Entries are rewritten when fetched, and removed when stale.)
\* After such a cleanup the index does not list it, and a Get that was cut short may
\* have put it back: that one is fetched again.
InUseKept ==
    [][\A p \in Procs :
        (/\ Using(p) /\ HasIdentity(key[p]) /\ index.entries[key[p]] # "none"
         /\ Content(key[p]) = handed[p])
            => \/ Content(key[p])' = handed[p]
               \/ \E q \in Procs : pc[q] = "removing" /\ mode[q] \in {"all", "invalid"}]_vars

\* When `cache clean --all` has succeeded the cache holds nothing, listed in the
\* index or not, and the index can be read (wipeCacheContents, writeIndex).
FullCleanupEmpties ==
    \A p \in Procs :
        pc[p] = "unlocking" /\ mode[p] = "all" /\ result[p] = "ok" =>
            /\ index = [emptyCacheIndex EXCEPT !.due = FALSE]
            /\ \A k \in Keys : artifact[k] = Missing /\ files[k] = {}

=============================================================================
