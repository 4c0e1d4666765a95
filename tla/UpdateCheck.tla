---------------------------- MODULE UpdateCheck ----------------------------
(***************************************************************************)
(* run_check of utils/update_check.py: every process of the application    *)
(* asks GitHub once for the latest release, unless the cache file says     *)
(* that somebody asked within the last hour.  The cache pairs the ETag of  *)
(* an answer with the release it named, so that "304 Not Modified" can be  *)
(* answered from it.  Processes share the file and nothing else, and may   *)
(* be killed at any step.                                                  *)
(*                                                                         *)
(* A release is known by its number; 0 is none.  Its ETag and the list of  *)
(* its files are known by the same number.                                 *)
(***************************************************************************)
EXTENDS Versions

CONSTANTS
    Procs,      \* process identifiers
    Releases,   \* the versions of the releases, oldest first
    Torn        \* a cache file that cannot be parsed

Numbers == 0..Len(Releases)

ASSUME UpdateCheckAssumption ==
    /\ Releases \in Seq(Seq(Nat))
    /\ Releases # <<>>
    /\ Torn \notin [recent : BOOLEAN, etag : Numbers, tag : Numbers, assets : Numbers]

VARIABLES
    published,  \* the latest release on GitHub
    cache,      \* .update_check_cache.json
    check       \* run_check and _state, of every process

checkVars == <<published, cache, check>>

-----------------------------------------------------------------------------
\* `recent`: last_attempt_at is less than an hour ago.
CacheRec == [recent : BOOLEAN, etag : Numbers, tag : Numbers, assets : Numbers]
NoCache == [recent |-> FALSE, etag |-> 0, tag |-> 0, assets |-> 0]

\* A check has not begun, waits for GitHub, is about to write the cache, has
\* the file open ("mixed": and another process has written it meanwhile), or
\* is done.  `latest` and `assets` are of _state; `heard` (for the properties)
\* is the release that was the latest when GitHub answered.
CheckRec ==
    [pc : {"idle", "asked", "save", "write", "mixed", "done"},
     cache : CacheRec, latest : Numbers, assets : Numbers, heard : Numbers]

NoCheck == [pc |-> "idle", cache |-> NoCache, latest |-> 0, assets |-> 0, heard |-> 0]

CheckTypeOK ==
    /\ published \in Numbers \ {0}
    /\ cache \in CacheRec \cup {Torn}
    /\ check \in [Procs -> CheckRec]

CheckInit ==
    /\ published = 1
    /\ cache = NoCache
    /\ check = [p \in Procs |-> NoCheck]

-----------------------------------------------------------------------------
Publish ==
    /\ published < Len(Releases)
    /\ published' = published + 1
    /\ UNCHANGED <<cache, check>>

HourPasses ==
    /\ cache # Torn
    /\ cache.recent
    /\ cache' = [cache EXCEPT !.recent = FALSE]
    /\ UNCHANGED <<published, check>>

Loaded == IF cache = Torn THEN NoCache ELSE cache

\* Within the hour the cache answers (with no release in it: nothing).
Begin(p) ==
    /\ check[p].pc = "idle"
    /\ check' = [check EXCEPT ![p] =
           IF Loaded.recent
           THEN [NoCheck EXCEPT !.pc = "done", !.latest = Loaded.tag,
                                !.assets = IF Loaded.tag = 0 THEN 0 ELSE Loaded.assets]
           ELSE [NoCheck EXCEPT !.pc = "asked", !.cache = Loaded]]
    /\ UNCHANGED <<published, cache>>

\* The status of a check and the cache it is about to write.
Tell(p, latest, assets, heard, c) ==
    /\ check' = [check EXCEPT ![p] =
           [pc |-> "save", cache |-> [c EXCEPT !.recent = TRUE],
            latest |-> latest, assets |-> assets, heard |-> heard]]
    /\ UNCHANGED <<published, cache>>

\* 304: nothing is newer than what the ETag stands for.
NotModified(p) ==
    LET c == check[p].cache
    IN /\ check[p].pc = "asked"
       /\ c.etag = published
       /\ Tell(p, c.tag, c.assets, published, c)

\* 200: the release; its ETag is kept if there is one.
\* (Release_KeepsTag, a mutant: the ETag is saved, its release is not.)
Release_KeepsTag(p) ==
    /\ check[p].pc = "asked"
    /\ \E e \in {published, check[p].cache.etag} :
         Tell(p, published, published, published, [check[p].cache EXCEPT !.etag = e])

Release(p) ==
    /\ check[p].pc = "asked"
    /\ \E e \in {published, check[p].cache.etag} :
         Tell(p, published, published, published,
              [check[p].cache EXCEPT !.etag = e, !.tag = published, !.assets = published])

\* An error, a time-out or something that is no JSON.
AskFails(p) ==
    /\ check[p].pc = "asked"
    /\ Tell(p, 0, 0, 0, check[p].cache)

\* write_text() empties the file, then writes it.
SaveOpen(p) ==
    /\ check[p].pc = "save"
    /\ cache' = Torn
    /\ check' = [check EXCEPT ![p].pc = "write"]
    /\ UNCHANGED published

SaveWrite(p) ==
    /\ check[p].pc \in {"write", "mixed"}
    /\ cache' \in IF check[p].pc = "mixed" THEN {check[p].cache, Torn} ELSE {check[p].cache}
    /\ check' = [q \in Procs |->
           IF q = p THEN [check[p] EXCEPT !.pc = "done", !.cache = NoCache]
           ELSE IF check[q].pc = "write" THEN [check[q] EXCEPT !.pc = "mixed"]
           ELSE check[q]]
    /\ UNCHANGED published

CheckStep(p) == Begin(p) \/ NotModified(p) \/ Release(p) \/ AskFails(p) \/ SaveOpen(p) \/ SaveWrite(p)

-----------------------------------------------------------------------------
\* Release n is newer than release m.
Newer(n, m) == n # 0 /\ Gt(Releases[n], Releases[m])

\* The status of a process that runs release m: has_update.
HasUpdate(p, m) == check[p].pc \notin {"idle", "asked"} /\ Newer(check[p].latest, m)

\* get_update_asset: the release whose file is downloaded, 0 if there is none.
Asset(p) == check[p].assets

\* When GitHub answered, with the release or with "not modified", the process
\* names the release that was the latest at that moment, and the files it
\* offers for download are that release's, whatever other processes have made
\* of the cache, and even if an earlier answer had no ETag or its writer died.
AnswerIsShown ==
    \A p \in Procs : check[p].heard # 0 =>
        check[p].latest = check[p].heard /\ check[p].assets = check[p].heard
=============================================================================
