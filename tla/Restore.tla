------------------------------ MODULE Restore ------------------------------
(***************************************************************************)
(* restore() of backup.py: a SQLite database is replaced, file by file, by *)
(* a backup.  Every file operation is a step, so that a crash, a full disk *)
(* or a deleted source can fall between any two of them.                   *)
(*                                                                         *)
(* One process uses the database; it commits between calls of restore().   *)
(* Others may open the path while a call is replacing what is there, and   *)
(* the restored file before the call has returned.                         *)
(* The content of a file is the set of committed rows it holds, and the    *)
(* frames of the write-ahead log are the rows they would add.              *)
(***************************************************************************)
EXTENDS Naturals

CONSTANTS
    Row,        \* the rows an application may commit
    NoFile,     \* nothing at this path
    Torn,       \* a file that is not a readable database
    Faults      \* what may go wrong around the calls of restore()

Image == SUBSET Row     \* the readable databases; a zero-byte file is {}
File == {NoFile, Torn} \union Image

Readable(f) == f \notin {NoFile, Torn}

ASSUME SpecialFiles == NoFile # Torn /\ \A i \in Image : i # NoFile /\ i # Torn
ASSUME KnownFaults == Faults \subseteq {"checkpoint", "copy", "media", "crash", "prune", "users"}

VARIABLES
    main,           \* the file at the engine's path
    wal,            \* <db>-wal; <db>-shm lives and dies with it
    aside,          \* <db>.pre-restore
    source,         \* the backup being restored
    pc,             \* the next statement of restore(), "idle" outside a call
    hadOriginal,    \* the local had_original
    result,         \* how the last call ended
    \* Observations.  Only the copy reads `wanted`, the file its handle is open on,
    \* and `disturbed` says that others may still be there when the call returns:
    wanted,         \* the content of the backup the call was given
    original,       \* the content of the database when restore() was called
    lastGood,       \* the content before the first restore() not yet settled
    unsettled,      \* no restored or put-back database was accepted since
    missed,         \* the call's checkpoint left commits in the log
    disturbed       \* others have opened the path during the call's swap

files == <<main, wal, aside, source>>
observed == <<wanted, original, lastGood, unsettled, missed, disturbed>>
vars == <<files, pc, hadOriginal, result, observed>>

-----------------------------------------------------------------------------
(* Files and the write-ahead log *)

Logged == IF wal = NoFile THEN {} ELSE wal

\* sqlite3 creates the file it is asked to open.
Opened == IF main = NoFile THEN {} ELSE main

\* What a connection opened now would read: the frames of the log apply.
Visible == IF main = Torn THEN Torn ELSE Opened \union Logged

\* The database at the path, if there is one.
Present == IF main = NoFile THEN NoFile ELSE Visible

\* The last connection to be closed folds the log and removes the sidecars.
LastClose ==
    /\ main' = IF wal = NoFile THEN main ELSE Visible
    /\ wal' = NoFile

Step(from, to) == pc = from /\ pc' = to

Return(from, r) == Step(from, "idle") /\ result' = r

PC == {"idle", "checkpoint", "release", "copyAside", "copyingAside",
       "dropSidecars", "unlinkTarget", "touchTarget", "copyIn", "copyingIn",
       "verify", "finish", "dropAside",
       "rollback", "putBack", "puttingBack", "forget"}

\* From the unlink to the check or the end of the rollback.
Swapping == {"touchTarget", "copyIn", "copyingIn", "verify", "rollback",
             "putBack", "puttingBack"}
Exposed == {"unlinkTarget", "forget"} \union Swapping

Results == {"none", "refused", "restored", "putBack", "error", "crashed"}

TypeOK ==
    /\ main \in File
    /\ wal \in {NoFile} \union Image
    /\ aside \in File
    /\ source \in File \ {Torn}
    /\ pc \in PC
    /\ hadOriginal \in BOOLEAN
    /\ result \in Results
    /\ wanted \in Image
    /\ original \in File
    /\ lastGood \in File
    /\ unsettled \in BOOLEAN
    /\ missed \in BOOLEAN
    /\ disturbed \in BOOLEAN

\* A new install has no database; an old one may be damaged, and may have left
\* commits in its log.
Init ==
    /\ main \in File
    /\ wal \in {NoFile} \union Image
    /\ wal # NoFile => Readable(main)
    /\ aside = NoFile
    /\ source = NoFile
    /\ pc = "idle"
    /\ hadOriginal = FALSE
    /\ result = "none"
    /\ wanted = {}
    /\ original = {}
    /\ lastGood = {}
    /\ unsettled = FALSE
    /\ missed = FALSE
    /\ disturbed = FALSE

-----------------------------------------------------------------------------
(* The application between two calls *)

AppCommit(r) ==
    /\ pc = "idle" /\ main # Torn
    /\ main' = Opened
    /\ wal' = Logged \union {r}
    /\ UNCHANGED <<aside, source, pc, hadOriginal, result, observed>>

AppClose ==
    /\ pc = "idle" /\ wal # NoFile
    /\ LastClose
    /\ UNCHANGED <<aside, source, pc, hadOriginal, result, observed>>

-----------------------------------------------------------------------------
(* restore(): the checks that come before anything is touched *)

\* Mutant: the backup is only looked for, not opened.
Admissible_Unverified(s, confirm, known) == confirm /\ s # NoFile /\ known

\* s passes _verify_backup_file() only if it is a readable database; known is
\* FALSE for a revision outside known_revisions.
Admissible(s, confirm, known) == confirm /\ Readable(s) /\ known

Refuse(s, confirm, known) ==
    /\ pc = "idle"
    /\ ~Admissible(s, confirm, known)
    /\ result' = "refused"
    /\ UNCHANGED <<files, pc, hadOriginal, observed>>

Call(s, confirm, known) ==
    /\ Admissible(s, confirm, known)
    /\ Step("idle", "checkpoint")
    /\ source' = s
    /\ wanted' = s
    /\ original' = Present
    /\ lastGood' = IF unsettled THEN lastGood ELSE Present
    /\ unsettled' = TRUE
    /\ missed' = FALSE
    /\ disturbed' = FALSE
    /\ UNCHANGED <<main, wal, aside, hadOriginal, result>>

-----------------------------------------------------------------------------
(* restore(): the swap *)

\* Best effort: on a damaged file, or with a reader elsewhere pinning the log,
\* it changes nothing and restore() goes on.
Checkpoint ==
    /\ Step("checkpoint", "release")
    /\ \/ main # Torn /\ main' = Visible /\ wal' = {}
       \/ (main = Torn \/ "checkpoint" \in Faults) /\ UNCHANGED <<main, wal>>
    /\ UNCHANGED <<aside, source, hadOriginal, result, observed>>

\* Mutant: the pool is not disposed.
Release_NoDispose ==
    /\ Step("release", "copyAside")
    /\ missed' = missed
    /\ UNCHANGED <<main, wal, aside, source, hadOriginal, result, wanted, original, lastGood,
                   unsettled, disturbed>>

\* With a connection elsewhere, the pool's is not the last one to be closed.
Release ==
    /\ Step("release", "copyAside")
    /\ LastClose \/ ("checkpoint" \in Faults /\ UNCHANGED <<main, wal>>)
    /\ missed' = (Visible' # Opened')
    /\ UNCHANGED <<aside, source, hadOriginal, result, wanted, original, lastGood,
                   unsettled, disturbed>>

\* Mutant: a .pre-restore that an earlier call left is taken for this call's.
CopyAside_Stale ==
    /\ pc = "copyAside"
    /\ hadOriginal' = (main # NoFile)
    /\ \/ main # NoFile /\ aside = NoFile /\ pc' = "copyingAside" /\ aside' = Torn
       \/ (main = NoFile \/ aside # NoFile) /\ pc' = "dropSidecars" /\ aside' = aside
    /\ UNCHANGED <<main, wal, source, result, observed>>

CopyAside ==
    /\ pc = "copyAside"
    /\ hadOriginal' = (main # NoFile)
    /\ \/ main # NoFile /\ pc' = "copyingAside" /\ aside' = Torn
       \/ main = NoFile /\ pc' = "dropSidecars" /\ aside' = aside
    /\ UNCHANGED <<main, wal, source, result, observed>>

CopiedAside ==
    /\ Step("copyingAside", "dropSidecars")
    /\ aside' = main
    /\ UNCHANGED <<main, wal, source, hadOriginal, result, observed>>

\* Mutant: the sidecars are left beside the new file.
DropSidecars_Keep ==
    /\ Step("dropSidecars", "unlinkTarget")
    /\ UNCHANGED <<main, wal, aside, source, hadOriginal, result, observed>>

DropSidecars ==
    /\ Step("dropSidecars", "unlinkTarget")
    /\ wal' = NoFile
    /\ UNCHANGED <<main, aside, source, hadOriginal, result, observed>>

UnlinkTarget ==
    /\ Step("unlinkTarget", "touchTarget")
    /\ main' = NoFile
    /\ UNCHANGED <<wal, aside, source, hadOriginal, result, observed>>

TouchTarget ==
    /\ Step("touchTarget", "copyIn")
    /\ main' = Opened
    /\ UNCHANGED <<wal, aside, source, hadOriginal, result, observed>>

\* copyfile() opens the source first: if it is gone, the target stays empty.
CopyIn ==
    /\ \/ source # NoFile /\ Step("copyIn", "copyingIn")
          /\ main' = Torn /\ UNCHANGED result
       \/ source = NoFile /\ Return("copyIn", "error") /\ UNCHANGED main
    /\ UNCHANGED <<wal, aside, source, hadOriginal, observed>>

\* The copy reads through its handle even when the source is deleted meanwhile.
CopiedIn ==
    /\ Step("copyingIn", "verify")
    /\ main' = wanted \/ ("media" \in Faults /\ main' = Torn)
    /\ UNCHANGED <<wal, aside, source, hadOriginal, result, observed>>

VerifyOk ==
    /\ Step("verify", "finish")
    /\ main # Torn
    /\ wal' = Logged
    /\ unsettled' = FALSE
    /\ UNCHANGED <<main, aside, source, hadOriginal, result, wanted, original, lastGood,
                   missed, disturbed>>

\* With others at the restored file, the pool's connection is not the last one.
Finish ==
    /\ Step("finish", "dropAside")
    /\ LastClose \/ (disturbed /\ UNCHANGED <<main, wal>>)
    /\ UNCHANGED <<aside, source, hadOriginal, result, observed>>

DropAside ==
    /\ Return("dropAside", "restored")
    /\ aside' = IF hadOriginal THEN NoFile ELSE aside
    /\ UNCHANGED <<main, wal, source, hadOriginal, observed>>

-----------------------------------------------------------------------------
(* restore(): the restored file failed its check *)

\* Mutant: the copy aside is deleted before it is put back.
VerifyBad_Forget ==
    /\ Step("verify", "forget")
    /\ main = Torn
    /\ UNCHANGED <<files, hadOriginal, result, observed>>

VerifyBad ==
    /\ Step("verify", "rollback")
    /\ main = Torn
    /\ UNCHANGED <<files, hadOriginal, result, observed>>

RollbackRelease ==
    /\ Step("rollback", "putBack")
    /\ wal' = NoFile
    /\ UNCHANGED <<main, aside, source, hadOriginal, result, observed>>

PutBack ==
    /\ hadOriginal
    /\ Step("putBack", "puttingBack")
    /\ main' = Torn
    /\ UNCHANGED <<wal, aside, source, hadOriginal, result, observed>>

\* Mutant: what is put back is the backup.
PuttingBack_Source ==
    /\ Step("puttingBack", "forget")
    /\ main' = wanted
    /\ UNCHANGED <<wal, aside, source, hadOriginal, result, observed>>

PuttingBack ==
    /\ Step("puttingBack", "forget")
    /\ main' = aside
    /\ UNCHANGED <<wal, aside, source, hadOriginal, result, observed>>

Forget ==
    /\ Return("forget", "putBack")
    /\ aside' = NoFile
    /\ unsettled' = FALSE
    /\ UNCHANGED <<main, wal, source, hadOriginal, wanted, original, lastGood,
                   missed, disturbed>>

RemoveTarget ==
    /\ ~hadOriginal
    /\ Return("putBack", "putBack")
    /\ main' = NoFile
    /\ unsettled' = FALSE
    /\ UNCHANGED <<wal, aside, source, hadOriginal, wanted, original, lastGood,
                   missed, disturbed>>

-----------------------------------------------------------------------------
(* What goes wrong around it *)

\* The disk is full in the middle of a copy: OSError leaves restore().
CopyFails ==
    /\ "copy" \in Faults
    /\ pc \in {"copyingAside", "copyingIn", "puttingBack"}
    /\ pc' = "idle" /\ result' = "error"
    /\ UNCHANGED <<files, hadOriginal, observed>>

Crash ==
    /\ "crash" \in Faults
    /\ pc # "idle"
    /\ pc' = "idle" /\ result' = "crashed"
    /\ UNCHANGED <<files, hadOriginal, observed>>

\* StorageBusy is no SQLAlchemyError: it passes integrity_check() and restore().
VerifyBusy ==
    /\ "users" \in Faults
    /\ Return("verify", "error")
    /\ UNCHANGED <<files, hadOriginal, observed>>

\* Another process opens the path once the sidecars are gone and, now or when it
\* closes, its log lands on whatever is there by then.
Intrude ==
    /\ "users" \in Faults
    /\ pc \in Exposed \/ (disturbed /\ pc \in {"finish", "dropAside"})
    /\ main' \in {Torn} \union Image /\ wal' = NoFile
    /\ disturbed' = TRUE
    /\ UNCHANGED <<aside, source, pc, hadOriginal, result, wanted, original,
                   lastGood, unsettled, missed>>

\* Another process opens the restored file before the call returns; what it
\* commits is in its log.
Join ==
    /\ "users" \in Faults
    /\ pc \in {"finish", "dropAside"} /\ main # Torn
    /\ \E rows \in Image : wal' = Logged \union rows
    /\ disturbed' = TRUE
    /\ UNCHANGED <<main, aside, source, pc, hadOriginal, result, wanted, original,
                   lastGood, unsettled, missed>>

\* A scheduled backup() prunes the file an operator is restoring from.
SourcePruned ==
    /\ "prune" \in Faults
    /\ pc # "idle" /\ source # NoFile
    /\ source' = NoFile
    /\ UNCHANGED <<main, wal, aside, pc, hadOriginal, result, observed>>

-----------------------------------------------------------------------------

Application == AppClose \/ \E r \in Row : AppCommit(r)

Checks == \E s \in File, confirm, known \in BOOLEAN :
    Refuse(s, confirm, known) \/ Call(s, confirm, known)

Swap ==
    \/ Checkpoint \/ Release \/ CopyAside \/ CopiedAside \/ DropSidecars
    \/ UnlinkTarget \/ TouchTarget \/ CopyIn \/ CopiedIn
    \/ VerifyOk \/ Finish \/ DropAside

Rollback ==
    \/ VerifyBad \/ RollbackRelease \/ PutBack \/ PuttingBack \/ Forget
    \/ RemoveTarget

Environment == CopyFails \/ Crash \/ VerifyBusy \/ Intrude \/ Join \/ SourcePruned

Next == Application \/ Checks \/ Swap \/ Rollback \/ Environment

Spec == Init /\ [][Next]_vars

-----------------------------------------------------------------------------
(* Properties *)

\* Holds reports whether file f, read as a database, has every row of content.
Holds(f, content) == Readable(f) /\ content \subseteq f

\* What a connection to a file f would read; a missing file is created empty.
Content(f) == IF f = NoFile THEN {} ELSE f

\* What each statement may rely on: from the unlink on there is no log of the old
\* database to be replayed over the new file, and after the check the path holds
\* the backup, at the end without a log, unless others have opened it.
SwapInv ==
    /\ wal # NoFile => Readable(main)
    /\ pc \in Exposed => wal = NoFile
    /\ pc = "dropAside" => wal = NoFile \/ disturbed
    /\ pc = "verify" => main \in {wanted, Torn} \/ (disturbed /\ main # NoFile)
    /\ pc \in {"finish", "dropAside"} =>
         (Visible = wanted \/ disturbed) /\ ~unsettled /\ main # NoFile
    /\ pc \notin {"idle", "finish", "dropAside"} => unsettled

\* Where the original is, unless the checkpoint left commits in the log: at its
\* path until it is whole in the .pre-restore copy, and in the copy as long as
\* the path may hold something else.
OriginalInv ==
    /\ pc \in {"checkpoint", "release"} => Visible = Content(original)
    /\ pc \in {"checkpoint", "release"} /\ original # NoFile => main # NoFile
    /\ pc = "copyingAside" => hadOriginal /\ main # NoFile
    /\ pc = "puttingBack" => hadOriginal
    /\ ~missed =>
          /\ pc \in {"copyAside", "copyingAside", "dropSidecars"} => Visible = Opened
          /\ pc \in {"copyAside", "copyingAside", "dropSidecars"}
               \/ (pc \in {"unlinkTarget", "forget"} /\ ~disturbed) =>
                /\ Opened = Content(original)
                /\ original # NoFile => main # NoFile
          /\ pc \in {"dropSidecars"} \union Exposed =>
                IF hadOriginal THEN aside = Content(original) ELSE original = NoFile

CallInv == SwapInv /\ OriginalInv

\* Wherever restore() is interrupted, and whatever others do to the path during
\* the swap, the database it was called on can still be had: at its own path, or
\* whole in the .pre-restore copy.
OriginalRecoverable ==
    unsettled /\ ~missed /\ Readable(original) => Holds(Visible, original) \/ aside = original

\* The same of the database that preceded the FIRST of several calls, when a
\* restore that was interrupted is tried again.
OriginalOutlivesRetry ==
    unsettled /\ Readable(lastGood) => Holds(Visible, lastGood) \/ Holds(aside, lastGood)

\* A call that returns has left the rows of the backup, no others, and no log
\* that could be replayed over them ("checkpointed and sidecar-free exactly as
\* the backup was"), unless others opened the path during its swap.
RestoredIsBackup ==
    [][Return("dropAside", "restored") =>
         (Visible' = wanted /\ wal' = NoFile) \/ disturbed]_vars

PutsBack == pc # "idle" /\ pc' = "idle" /\ result' = "putBack"

\* A call that reports the original was put back has put back what was there
\* when it was called, the commits still in the log included, unless its
\* checkpoint missed them or others opened the path meanwhile.
PutBackIsComplete ==
    [][PutsBack => Visible' = Content(original) \/ missed \/ disturbed]_vars

\* The same without the exception.
PutBackIsOriginal == [][PutsBack => Visible' = Content(original)]_vars

\* The .pre-restore copy is deleted only when the path holds the backup or the
\* original again, or what others made of them meanwhile.
AsideOutlivesSwap ==
    [][aside # NoFile /\ aside' = NoFile =>
          Visible' \in {wanted, Content(original)} \/ missed \/ disturbed]_vars

=============================================================================
