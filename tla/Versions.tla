------------------------------ MODULE Versions ------------------------------
(* How a mapping file gets its version.  A recorded value is identified by   *)
(* the `id@version` of the file that decoded it, so the number must name one *)
(* content for ever.  A pull request changes the files; the checks on it are *)
(* the version guard (tools/check_mapping_versions.py) and the lock          *)
(* (bmwdiag/mapping/versioning.py); a protected branch takes it only when it *)
(* is up to date, so that one request at a time is looked at here.           *)
EXTENDS Integers, Sequences, FiniteSets

CONSTANTS Paths,      \* watched files
          Contents,   \* what the loader can see in one, as sequences of requests
          MaxVersion, \* bound
          MaxPulls,   \* bound: merges
          Gone        \* no such file

VARIABLES master,   \* [files, lock]
          pull,     \* the proposal, or Gone
          ledger,   \* every [version, content] the branch has ever had
          merges,
          moved,    \* ghost: a file was added, moved or deleted
          lowered   \* ghost: a version was taken back

versionVars == <<master, pull, ledger, merges, moved, lowered>>

FileTexts == [version : 1..MaxVersion, content : Contents]

\* "No such file" is not a file.
ASSUME VersionsAssumption == MaxVersion \in Nat /\ Gone \notin FileTexts

Present(files) == {p \in Paths : files[p] # Gone}

-----------------------------------------------------------------------------
(* The lock *)

\* build_lock()
BuildLock(files) == [p \in Present(files) |-> files[p].version]

\* diff_lock(): no entry is new, missing or of another version or path.  All
\* the files carry one id here; entries of one id hide each other.
Indexed(lock) ==
  IF DOMAIN lock = {} THEN {}
  ELSE LET p == CHOOSE q \in DOMAIN lock : \A r \in DOMAIN lock : r <= q
       IN {[path |-> p, version |-> lock[p]]}

LockMatches(files, lock) == Indexed(BuildLock(files)) = Indexed(lock)

-----------------------------------------------------------------------------
(* The guard *)

\* As a comparison of dictionaries would have it.
ContentUnordered(text) == {text.content[i] : i \in DOMAIN text.content}

\* content(): the order of the requests is content; comments are not.
Content(text) == text.content

NotRaised(old, new) == new.version < old.version
TooLow(old, new) == new.version <= old.version

\* main(): a deleted file has nothing to bump, a new one nothing to compare.
Problems(old, new) ==
  {p \in Present(old) \cap Present(new) :
     /\ Content(new[p]) # Content(old[p])
     /\ TooLow(old[p], new[p])}

-----------------------------------------------------------------------------
VersionsInit ==
  /\ \E p \in Paths, text \in FileTexts :
       LET files == [q \in Paths |-> IF q = p THEN text ELSE Gone] IN
       /\ text.version = 1
       /\ master = [files |-> files, lock |-> BuildLock(files)]
       /\ ledger = {text}
  /\ pull = Gone /\ merges = 0 /\ moved = FALSE /\ lowered = FALSE

\* Any edit of the files, with the lock made again or forgotten.
Propose ==
  /\ pull = Gone /\ merges < MaxPulls
  /\ \E files \in [Paths -> FileTexts \cup {Gone}] :
       /\ files # master.files
       /\ \E lock \in {master.lock, BuildLock(files)} :
            pull' = [files |-> files, lock |-> lock]
  /\ UNCHANGED <<master, ledger, merges, moved, lowered>>

\* The checks are green.
Merge ==
  /\ pull # Gone
  /\ Problems(master.files, pull.files) = {}
  /\ LockMatches(pull.files, pull.lock)
  /\ master' = pull /\ pull' = Gone
  /\ ledger' = ledger \cup {pull.files[p] : p \in Present(pull.files)}
  /\ merges' = merges + 1
  /\ moved' = (moved \/ Present(pull.files) # Present(master.files))
  /\ lowered' = (lowered \/ \E p \in Present(pull.files) \cap Present(master.files) :
                              pull.files[p].version < master.files[p].version)

\* They are not: the request goes back to its author.
Reject ==
  /\ pull # Gone
  /\ Problems(master.files, pull.files) # {} \/ ~LockMatches(pull.files, pull.lock)
  /\ pull' = Gone
  /\ UNCHANGED <<master, ledger, merges, moved, lowered>>

VersionsNext == Propose \/ Merge \/ Reject

VersionsSpec == VersionsInit /\ [][VersionsNext]_versionVars

-----------------------------------------------------------------------------
(* Properties *)

OneContentPerVersion ==
  \A a, b \in ledger : a.version = b.version => a.content = b.content

\* What the checks do guarantee: while files stay where they are and nobody
\* takes a version back, a version names one content for the whole history of
\* the branch, so that two decodes never share a number in the lake
\* (check_mapping_versions.py:142-193, docs/CI.md:17).
GuardSuffices == moved \/ lowered \/ OneContentPerVersion

\* "Versions only ever go up" (docs/DATA_VERSIONING.md:30): the guard passes an
\* edit of the version line alone, downward too, and the number is then free
\* to name another content.
VersionsGoUp == moved \/ OneContentPerVersion
=============================================================================
